---------------------- MODULE MultiConsumerQueueProofs ----------------------
(***************************************************************************)
(* Proofs about MultiConsumerQueue: messages are delivered once, only when *)
(* their put is committed, and in the order of the queue, and none is left *)
(* out of reach of a consumer that waits.                                  *)
(***************************************************************************)
EXTENDS MultiConsumerQueue, FiniteSetTheorems, WellFoundedInduction, TLAPS

Injective(s) == \A i, j \in DOMAIN s : s[i] = s[j] => i = j

(* The get lock is held by the thread that is locating a message.  Until   *)
(* it says that it searches the cursor can only be rewound before it.      *)
LocatePcs == {"mark", "cas", "scan", "keep"}

GetLockHeld ==
    /\ \A t \in Threads : pc[t] \in LocatePcs <=> getlock = t
    /\ \A t \in Threads : pc[t] \in LocatePcs => pos[t] \in Nodes
    /\ \A t \in Threads : pc[t] \in {"mark", "cas"} => getCursor <= pos[t]
    /\ getCursor = Searching => \E t \in Threads : pc[t] \in {"scan", "keep"}

(* Nothing has happened to nodes that no put has been assigned.            *)
NodesAhead ==
    /\ \A n \in Nodes : n > tail => node[n].state = "available" /\ ~node[n].msg /\ lock[n] = NoThread
    /\ \A t \in Threads : pc[t] \in {"put", "tranput", "nack"} => pos[t] \in 1 .. tail

(* What a thread has taken from the queue: its batch, and the message that *)
(* it has marked and may have to give back.                                *)
Carried(t) == InHand(t) \union (IF pc[t] = "keep" THEN {pos[t]} ELSE {})

MessagesHeld ==
    /\ \A t \in Threads : \A n \in Carried(t) : node[n].state = "delivered" /\ node[n].msg /\ n \notin out
    /\ \A n \in out : node[n].state = "delivered" /\ node[n].msg
    /\ \A t, u \in Threads : t # u => Carried(t) \cap Carried(u) = {}
    /\ \A n \in Nodes : node[n].state = "delivered" => lock[n] = NoThread

BatchesInOrder ==
    \A t \in Threads : /\ Injective(batch[t])
                       /\ pc[t] \in {"deliver", "undo", "undone"} => batch[t] # << >>
                       /\ pc[t] = "keep" => pos[t] \notin ToSet(batch[t])

(* A transaction has locked what it put and what it acknowledged, until it *)
(* has unlocked them one by one.                                           *)
Holds(t) == IF pc[t] = "unlock" THEN ToSet(todo[t]) ELSE ToSet(puts[t]) \union ToSet(acks[t])

LocksHeld ==
    /\ \A t \in Threads : t \in releasing <=> pc[t] \in {"rewind", "unlock"}
    /\ \A t \in Threads : \A n \in Nodes : lock[n] = t <=> n \in Holds(t)
    /\ \A t \in Threads : pc[t] = "unlock" => Injective(todo[t])
    /\ \A t \in Threads : /\ Injective(puts[t]) /\ Injective(acks[t])
                          /\ ToSet(puts[t]) \cap ToSet(acks[t]) = {}
    /\ \A t \in Threads \ releasing : \A n \in ToSet(acks[t]) : node[n].state = "consumed"

(* The messages in flight: with a client, or in an open transaction.       *)
InFlight == out \union UNION {ToSet(puts[t]) \union ToSet(acks[t]) : t \in Threads \ releasing}

InflightCounted == inflight = Cardinality(InFlight)

(* A search that starts now, or the one under way, will come to node n.    *)
Reached(n) == \/ getCursor <= n
              \/ \E t \in Threads : pc[t] \in {"scan", "keep"} /\ pos[t] <= n

(* Every available node is still to be searched, unless its thread is about*)
(* to rewind for it, or an open transaction has it locked.                 *)
NothingPassed ==
    \A n \in Nodes : node[n].state = "available" =>
        \/ Reached(n)
        \/ \E t \in Threads : n \in AboutToRewind(t)
        \/ node[n].msg /\ lock[n] \in Threads \ releasing
        \/ \E t \in Threads : lock[n] = t /\ pc[t] = "rewind" /\ n \in ToSet(todo[t])

QueueInv == /\ TypeOK /\ GetLockHeld /\ NodesAhead /\ MessagesHeld /\ BatchesInOrder
            /\ LocksHeld /\ InflightCounted /\ NothingPassed

-----------------------------------------------------------------------------
(* Sequences, as the sets of what they hold.                                *)

LEMMA ToSetOfSeq ==
    ASSUME NEW S, NEW s \in Seq(S)
    PROVE  /\ ToSet(s) \subseteq S
           /\ s = << >> <=> ToSet(s) = {}
           /\ ToSet(<< >>) = {} /\ Injective(<< >>) /\ << >> \in Seq(S)
BY DEF ToSet, Injective

LEMMA ToSetAppend ==
    ASSUME NEW S, NEW s \in Seq(S), NEW x \in S
    PROVE  /\ Append(s, x) \in Seq(S)
           /\ ToSet(Append(s, x)) = ToSet(s) \union {x}
           /\ Injective(s) /\ x \notin ToSet(s) => Injective(Append(s, x))
<1>1. Len(s) \in Nat /\ DOMAIN s = 1..Len(s)
  OBVIOUS
<1>2. /\ Append(s, x) \in Seq(S) /\ DOMAIN Append(s, x) = 1..(Len(s) + 1)
      /\ Append(s, x)[Len(s) + 1] = x
      /\ \A i \in 1..Len(s) : Append(s, x)[i] = s[i]
  OBVIOUS
<1>3. 1..(Len(s) + 1) = 1..Len(s) \union {Len(s) + 1}
  BY <1>1
<1>4. ToSet(Append(s, x)) = ToSet(s) \union {x}
  BY <1>1, <1>2, <1>3 DEF ToSet
<1>5. Injective(s) /\ x \notin ToSet(s) => Injective(Append(s, x))
  BY <1>1, <1>2, <1>3 DEF ToSet, Injective
<1> QED
  BY <1>2, <1>4, <1>5

LEMMA ToSetTail ==
    ASSUME NEW S, NEW s \in Seq(S), s # << >>
    PROVE  /\ Head(s) \in S /\ Head(s) \in ToSet(s) /\ Tail(s) \in Seq(S)
           /\ ToSet(s) = ToSet(Tail(s)) \union {Head(s)}
           /\ Injective(s) => Injective(Tail(s)) /\ Head(s) \notin ToSet(Tail(s))
<1>1. Len(s) \in Nat /\ Len(s) > 0 /\ DOMAIN s = 1..Len(s)
  OBVIOUS
<1>2. /\ Head(s) = s[1] /\ Tail(s) \in Seq(S) /\ DOMAIN Tail(s) = 1..(Len(s) - 1)
      /\ \A i \in 1..(Len(s) - 1) : Tail(s)[i] = s[i + 1]
  BY <1>1
<1>3. \A i \in 1..Len(s) : i = 1 \/ (i - 1 \in 1..(Len(s) - 1) /\ (i - 1) + 1 = i)
  BY <1>1
<1>4. \A i \in 1..(Len(s) - 1) : i + 1 \in 1..Len(s) /\ i + 1 # 1
  BY <1>1
<1>5. 1 \in 1..Len(s) /\ s[1] \in S
  BY <1>1
<1>6. ToSet(s) = ToSet(Tail(s)) \union {Head(s)}
  <2>1. \A i \in 1..Len(s) : s[i] = Head(s) \/ s[i] \in ToSet(Tail(s))
    <3> SUFFICES ASSUME NEW i \in 1..Len(s), i # 1 PROVE s[i] \in ToSet(Tail(s))
      BY <1>2
    <3>1. i - 1 \in 1..(Len(s) - 1) /\ Tail(s)[i - 1] = s[i]
      BY <1>2, <1>3
    <3> QED
      BY <1>2, <3>1 DEF ToSet
  <2>2. \A i \in 1..(Len(s) - 1) : Tail(s)[i] \in ToSet(s)
    BY <1>1, <1>2, <1>4 DEF ToSet
  <2> QED
    BY <1>1, <1>2, <1>5, <2>1, <2>2 DEF ToSet
<1>7. ASSUME Injective(s) PROVE Injective(Tail(s)) /\ Head(s) \notin ToSet(Tail(s))
  <2>1. Injective(Tail(s))
    <3> SUFFICES ASSUME NEW i \in 1..(Len(s) - 1), NEW j \in 1..(Len(s) - 1), Tail(s)[i] = Tail(s)[j]
                 PROVE  i = j
      BY <1>2 DEF Injective
    <3>1. i + 1 = j + 1
      BY <1>1, <1>2, <1>4, <1>7 DEF Injective
    <3> QED
      BY <3>1
  <2>2. Head(s) \notin ToSet(Tail(s))
    BY <1>1, <1>2, <1>4, <1>5, <1>7 DEF Injective, ToSet
  <2> QED
    BY <2>1, <2>2
<1> QED
  BY <1>2, <1>5, <1>6, <1>7

LEMMA ToSetConcat ==
    ASSUME NEW S, NEW s \in Seq(S), NEW r \in Seq(S)
    PROVE  /\ s \o r \in Seq(S) /\ Len(s \o r) = Len(s) + Len(r)
           /\ ToSet(s \o r) = ToSet(s) \union ToSet(r)
           /\ Injective(s) /\ Injective(r) /\ ToSet(s) \cap ToSet(r) = {} => Injective(s \o r)
<1>1. /\ Len(s) \in Nat /\ DOMAIN s = 1..Len(s)
      /\ Len(r) \in Nat /\ DOMAIN r = 1..Len(r)
  OBVIOUS
<1>2. /\ s \o r \in Seq(S) /\ Len(s \o r) = Len(s) + Len(r) /\ DOMAIN (s \o r) = 1..(Len(s) + Len(r))
      /\ \A i \in 1..(Len(s) + Len(r)) : (s \o r)[i] = IF i <= Len(s) THEN s[i] ELSE r[i - Len(s)]
  OBVIOUS
<1>3. \A i \in 1..Len(s) : i \in 1..(Len(s) + Len(r)) /\ (s \o r)[i] = s[i]
  BY <1>1, <1>2
<1>4. \A j \in 1..Len(r) : Len(s) + j \in 1..(Len(s) + Len(r)) /\ (s \o r)[Len(s) + j] = r[j]
  <2> SUFFICES ASSUME NEW j \in 1..Len(r)
               PROVE  Len(s) + j \in 1..(Len(s) + Len(r)) /\ (s \o r)[Len(s) + j] = r[j]
    OBVIOUS
  <2>1. Len(s) + j \in 1..(Len(s) + Len(r)) /\ ~(Len(s) + j <= Len(s)) /\ (Len(s) + j) - Len(s) = j
    BY <1>1
  <2> QED
    BY <1>2, <2>1
<1>5. \A i \in 1..(Len(s) + Len(r)) :
         \/ i \in 1..Len(s)
         \/ i - Len(s) \in 1..Len(r) /\ i = Len(s) + (i - Len(s))
  BY <1>1
<1>6. ToSet(s \o r) = ToSet(s) \union ToSet(r)
  <2>1. \A i \in 1..(Len(s) + Len(r)) : (s \o r)[i] \in ToSet(s) \union ToSet(r)
    <3> SUFFICES ASSUME NEW i \in 1..(Len(s) + Len(r)) PROVE (s \o r)[i] \in ToSet(s) \union ToSet(r)
      OBVIOUS
    <3>1. CASE i \in 1..Len(s)
      BY <1>1, <1>3, <3>1 DEF ToSet
    <3>2. CASE i - Len(s) \in 1..Len(r) /\ i = Len(s) + (i - Len(s))
      <4>1. (s \o r)[i] = r[i - Len(s)]
        BY <1>4, <3>2
      <4> QED
        BY <1>1, <3>2, <4>1 DEF ToSet
    <3> QED
      BY <1>5, <3>1, <3>2
  <2>2. ToSet(s) \subseteq ToSet(s \o r)
    BY <1>1, <1>2, <1>3 DEF ToSet
  <2>3. ToSet(r) \subseteq ToSet(s \o r)
    <3> SUFFICES ASSUME NEW j \in 1..Len(r) PROVE r[j] \in ToSet(s \o r)
      BY <1>1 DEF ToSet
    <3>1. Len(s) + j \in DOMAIN (s \o r) /\ (s \o r)[Len(s) + j] = r[j]
      BY <1>2, <1>4
    <3> QED
      BY <3>1 DEF ToSet
  <2> QED
    BY <1>2, <2>1, <2>2, <2>3 DEF ToSet
<1>7. ASSUME Injective(s), Injective(r), ToSet(s) \cap ToSet(r) = {} PROVE Injective(s \o r)
  <2>1. \A i \in 1..Len(s), j \in 1..Len(r) : s[i] # r[j]
    BY <1>1, <1>7 DEF ToSet
  <2> SUFFICES ASSUME NEW i \in 1..(Len(s) + Len(r)), NEW j \in 1..(Len(s) + Len(r)),
                      (s \o r)[i] = (s \o r)[j]
               PROVE  i = j
    BY <1>2 DEF Injective
  <2>2. CASE i <= Len(s) /\ j <= Len(s)
    BY <1>1, <1>2, <1>7, <2>2 DEF Injective
  <2>3. CASE i <= Len(s) /\ j > Len(s)
    BY <1>1, <1>2, <2>1, <2>3
  <2>4. CASE i > Len(s) /\ j <= Len(s)
    BY <1>1, <1>2, <2>1, <2>4
  <2>5. CASE i > Len(s) /\ j > Len(s)
    <3>1. i - Len(s) \in 1..Len(r) /\ j - Len(s) \in 1..Len(r) /\ r[i - Len(s)] = r[j - Len(s)]
      BY <1>1, <1>2, <2>5
    <3>2. i - Len(s) = j - Len(s)
      BY <1>1, <1>7, <3>1 DEF Injective
    <3> QED
      BY <1>1, <3>2
  <2> QED
    BY <1>1, <2>2, <2>3, <2>4, <2>5
<1> QED
  BY <1>2, <1>6, <1>7

LEMMA ToSetReverse ==
    ASSUME NEW S, NEW s \in Seq(S)
    PROVE  /\ Reverse(s) \in Seq(S) /\ ToSet(Reverse(s)) = ToSet(s)
           /\ Injective(s) => Injective(Reverse(s))
<1>1. Len(s) \in Nat /\ DOMAIN s = 1..Len(s)
  OBVIOUS
<1>2. \A i \in 1..Len(s) : (Len(s) - i) + 1 \in 1..Len(s) /\ i = (Len(s) - ((Len(s) - i) + 1)) + 1
  BY <1>1
<1>3. /\ Reverse(s) \in Seq(S) /\ DOMAIN Reverse(s) = 1..Len(s)
      /\ \A i \in 1..Len(s) : Reverse(s)[i] = s[(Len(s) - i) + 1]
  BY <1>1, <1>2 DEF Reverse
<1>4. ToSet(s) \subseteq ToSet(Reverse(s))
  <2> SUFFICES ASSUME NEW i \in 1..Len(s) PROVE s[i] \in ToSet(Reverse(s))
    BY <1>1 DEF ToSet
  <2>1. (Len(s) - i) + 1 \in 1..Len(s) /\ Reverse(s)[(Len(s) - i) + 1] = s[i]
    BY <1>2, <1>3
  <2> QED
    BY <1>3, <2>1 DEF ToSet
<1>5. ToSet(Reverse(s)) \subseteq ToSet(s)
  BY <1>1, <1>2, <1>3 DEF ToSet
<1>6. ASSUME Injective(s) PROVE Injective(Reverse(s))
  <2> SUFFICES ASSUME NEW i \in 1..Len(s), NEW j \in 1..Len(s), Reverse(s)[i] = Reverse(s)[j]
               PROVE  i = j
    BY <1>3 DEF Injective
  <2>1. (Len(s) - i) + 1 = (Len(s) - j) + 1
    BY <1>1, <1>2, <1>3, <1>6 DEF Injective
  <2> QED
    BY <1>1, <2>1
<1> QED
  BY <1>3, <1>4, <1>5, <1>6

\* A sequence without repetitions is as long as it has elements.
LEMMA ToSetCardinality ==
    ASSUME NEW S, NEW s \in Seq(S), Injective(s)
    PROVE  IsFiniteSet(ToSet(s)) /\ Cardinality(ToSet(s)) = Len(s)
<1>1. Len(s) \in Nat /\ DOMAIN s = 1..Len(s)
  OBVIOUS
<1>2. s \in Bijection(1..Len(s), ToSet(s))
  <2>1. s \in [1..Len(s) -> ToSet(s)]
    BY <1>1 DEF ToSet
  <2>2. s \in Injection(1..Len(s), ToSet(s))
    BY <1>1, <2>1 DEF Injection, IsInjective, Injective
  <2>3. s \in Surjection(1..Len(s), ToSet(s))
    BY <1>1, <2>1 DEF Surjection, ToSet
  <2> QED
    BY <2>2, <2>3 DEF Bijection
<1>3. ExistsBijection(1..Len(s), ToSet(s))
  BY <1>2 DEF ExistsBijection
<1>4. IsFiniteSet(1..Len(s)) /\ Cardinality(1..Len(s)) = Len(s)
  BY <1>1, FS_Interval
<1> QED
  BY <1>3, <1>4, FS_Bijection

\* The earliest of some nodes, to which a returned batch rewinds.
LEMMA EarliestExists ==
    ASSUME NEW S, S \subseteq Nat, S # {}
    PROVE  LET e == CHOOSE m \in S : \A n \in S : m <= n
           IN  e \in S /\ \A n \in S : e <= n
<1>1. PICK x \in S : \A y \in S : ~(<<y, x>> \in OpToRel(<, Nat))
  BY NatLessThanWellFounded, WFMin
<1>2. \A y \in S : <<y, x>> \in Nat \X Nat /\ <<y, x>>[1] = y /\ <<y, x>>[2] = x
  OBVIOUS
<1>3. \A y \in S : ~(y < x)
  BY <1>1, <1>2, Zenon DEF OpToRel
<1>4. \A y \in S : x <= y
  BY <1>3
<1> QED
  BY <1>4

-----------------------------------------------------------------------------
(* What a step leaves alone.                                                *)

LEMMA Parameters ==
    /\ MaxMsgs \in Nat /\ MaxMsgs >= 1 /\ Nodes = 1..(MaxMsgs + 1) /\ Nodes \subseteq Nat
    /\ Searching = MaxMsgs + 2 /\ Searching \notin Nodes
    /\ NoThread \notin Threads
BY QueueParameters, NoThreadFresh DEF Nodes, Searching

\* A thread that is not locating a message leaves the get lock alone, and may
\* rewind the cursor.
LEMMA GetLockFrame ==
    ASSUME NEW t \in Threads, NEW l, TypeOK, GetLockHeld,
           getlock' = getlock, pc' = [pc EXCEPT ![t] = l],
           pc[t] \notin LocatePcs, l \notin LocatePcs,
           \A u \in Threads \ {t} : pos'[u] = pos[u],
           getCursor' \in Nodes \union {Searching}, getCursor' <= getCursor
    PROVE  GetLockHeld'
<1>1. /\ \A u \in Threads : pc'[u] = IF u = t THEN l ELSE pc[u]
      /\ \A u \in Threads : pos[u] \in Nat
      /\ getCursor \in Nodes \union {Searching}
  BY Parameters DEF TypeOK
<1> QED
  BY <1>1, Parameters DEF GetLockHeld, LocatePcs

LEMMA CarriedFrame ==
    ASSUME NEW u \in Threads, batch'[u] = batch[u],
           pc'[u] = "undone" <=> pc[u] = "undone", pc'[u] = "keep" <=> pc[u] = "keep",
           pc[u] = "keep" => pos'[u] = pos[u]
    PROVE  Carried(u)' = Carried(u)
BY DEF Carried, InHand

\* Nothing is marked, handed over or handed back.
LEMMA HeldFrame ==
    ASSUME MessagesHeld, TypeOK, out' = out,
           \A u \in Threads : Carried(u)' = Carried(u),
           \A n \in Nodes : node[n].state = "delivered" => node'[n] = node[n],
           \A n \in Nodes : node'[n].state = "delivered" => node[n].state = "delivered" /\ lock'[n] = NoThread,
           \A u \in Threads : Carried(u) \subseteq Nodes
    PROVE  MessagesHeld'
<1>1. out \subseteq Nodes
  BY DEF TypeOK
<1> QED
  BY <1>1 DEF MessagesHeld

LEMMA CarriedNodes ==
    ASSUME NEW u \in Threads, TypeOK, GetLockHeld
    PROVE  Carried(u) \subseteq Nodes /\ ToSet(batch[u]) \subseteq Nodes
<1>1. batch[u] \in Seq(Nodes)
  BY DEF TypeOK
<1>2. ToSet(batch[u]) \subseteq Nodes
  BY <1>1, ToSetOfSeq
<1>3. pc[u] = "keep" => pos[u] \in Nodes
  BY DEF GetLockHeld, LocatePcs
<1> QED
  BY <1>2, <1>3 DEF Carried, InHand

LEMMA LocksFrame ==
    ASSUME NEW t \in Threads, NEW l, TypeOK, LocksHeld,
           lock' = lock, puts' = puts, acks' = acks, releasing' = releasing,
           pc' = [pc EXCEPT ![t] = l],
           l = pc[t] \/ (l \notin {"rewind", "unlock"} /\ pc[t] \notin {"rewind", "unlock"}),
           \A u \in Threads : pc[u] = "unlock" => todo'[u] = todo[u],
           \A n \in Nodes : lock[n] # NoThread /\ node[n].state = "consumed" => node'[n].state = "consumed"
    PROVE  LocksHeld'
<1>1. \A u \in Threads : pc'[u] = IF u = t THEN l ELSE pc[u]
  BY DEF TypeOK
<1>2. \A u \in Threads : Holds(u)' = Holds(u)
  BY <1>1 DEF Holds
<1>3. \A u \in Threads : pc'[u] = "unlock" <=> pc[u] = "unlock"
  BY <1>1
<1>4. \A u \in Threads : ToSet(acks[u]) \subseteq Nodes
  <2> SUFFICES ASSUME NEW u \in Threads PROVE ToSet(acks[u]) \subseteq Nodes
    OBVIOUS
  <2>1. acks[u] \in Seq(Nodes)
    BY DEF TypeOK
  <2> QED
    BY <2>1, ToSetOfSeq
<1>5. \A u \in Threads \ releasing : \A n \in ToSet(acks[u]) : lock[n] = u /\ u # NoThread
  BY <1>4, Parameters DEF LocksHeld, Holds
<1>6. \A u \in Threads \ releasing' : \A n \in ToSet(acks'[u]) : node'[n].state = "consumed"
  BY <1>4, <1>5 DEF LocksHeld
<1> QED
  BY <1>1, <1>2, <1>3, <1>6 DEF LocksHeld

LEMMA InflightFrame ==
    ASSUME InflightCounted, UNCHANGED <<out, puts, acks, releasing, inflight>>
    PROVE  InflightCounted'
BY DEF InflightCounted, InFlight

\* No node becomes available, and no search or rewind that would come to one
\* is given up.
LEMMA PassedFrame ==
    ASSUME TypeOK, NothingPassed,
           \A n \in Nodes : node'[n].state = "available" =>
              node[n].state = "available" /\ (node[n].msg => node'[n].msg),
           \A n \in Nodes : node'[n].state = "available" /\ Reached(n) => Reached(n)',
           \A n \in Nodes : (\E u \in Threads : n \in AboutToRewind(u)) =>
                            Reached(n)' \/ (\E u \in Threads : n \in AboutToRewind(u)'),
           lock' = lock, releasing' = releasing,
           \A u \in Threads : pc[u] = "rewind" => pc'[u] = "rewind" /\ todo'[u] = todo[u]
    PROVE  NothingPassed'
<1> SUFFICES ASSUME NEW n \in Nodes, node'[n].state = "available"
             PROVE  \/ Reached(n)'
                    \/ \E u \in Threads : n \in AboutToRewind(u)'
                    \/ node'[n].msg /\ lock'[n] \in Threads \ releasing'
                    \/ \E u \in Threads : lock'[n] = u /\ pc'[u] = "rewind" /\ n \in ToSet(todo'[u])
  BY DEF NothingPassed
<1> QED
  BY DEF NothingPassed

LEMMA RewindFrame ==
    ASSUME NEW u \in Threads, pc'[u] = pc[u], pos'[u] = pos[u], batch'[u] = batch[u]
    PROVE  AboutToRewind(u)' = AboutToRewind(u)
BY DEF AboutToRewind

LEMMA NoRewind ==
    ASSUME NEW u, pc[u] \notin {"nack", "undone"}
    PROVE  AboutToRewind(u) = {}
BY DEF AboutToRewind

\* A step that touches no message and no lock, between two points at which a
\* thread has none.
PlainPcs == {"idle", "check", "full", "prevent", "recheck", "allow", "exchange", "look", "lock",
             "startable", "giveup"}

LEMMA PlainStep ==
    ASSUME NEW t \in Threads, NEW l \in PlainPcs, QueueInv, TypeOK', pc[t] \in PlainPcs,
           pc' = [pc EXCEPT ![t] = l],
           UNCHANGED <<tail, node, lock, releasing, getCursor, getlock, inflight, out,
                       puts, acks, todo, batch>>,
           \A u \in Threads \ {t} : pos'[u] = pos[u]
    PROVE  QueueInv'
<1> USE DEF QueueInv
<1>1. /\ \A u \in Threads : pc'[u] = IF u = t THEN l ELSE pc[u]
      /\ getCursor \in Nodes \union {Searching} /\ getCursor <= getCursor
  BY Parameters DEF TypeOK
<1>2. l \notin LocatePcs /\ pc[t] \notin LocatePcs
  BY DEF PlainPcs, LocatePcs
<1>3. GetLockHeld'
  BY <1>1, <1>2, GetLockFrame, Parameters
<1>4. NodesAhead'
  BY <1>1 DEF NodesAhead, PlainPcs
<1>5. \A u \in Threads : Carried(u)' = Carried(u) /\ Carried(u) \subseteq Nodes
  <2> SUFFICES ASSUME NEW u \in Threads PROVE Carried(u)' = Carried(u) /\ Carried(u) \subseteq Nodes
    OBVIOUS
  <2>1. Carried(u)' = Carried(u)
    BY <1>1, CarriedFrame DEF PlainPcs
  <2> QED
    BY <2>1, CarriedNodes
<1>6. MessagesHeld'
  BY <1>5, HeldFrame DEF MessagesHeld
<1>7. BatchesInOrder'
  BY <1>1 DEF BatchesInOrder, PlainPcs
<1>8. LocksHeld'
  BY LocksFrame DEF PlainPcs
<1>9. InflightCounted'
  BY InflightFrame
<1>10. NothingPassed'
  <2>1. \A n \in Nodes : Reached(n) => Reached(n)'
    BY <1>1 DEF Reached, PlainPcs
  <2>2. \A u \in Threads : AboutToRewind(u) \subseteq AboutToRewind(u)'
    BY <1>1 DEF AboutToRewind, PlainPcs
  <2>3. \A u \in Threads : pc[u] = "rewind" => pc'[u] = "rewind" /\ todo'[u] = todo[u]
    BY <1>1 DEF PlainPcs
  <2> QED
    BY <2>1, <2>2, <2>3, PassedFrame
<1> QED
  BY <1>3, <1>4, <1>6, <1>7, <1>8, <1>9, <1>10

LEMMA ChecksKeep ==
    ASSUME NEW t \in Threads, QueueInv, Checks(t)
    PROVE  QueueInv'
<1> USE DEF QueueInv
<1>1. CASE CheckStartable(t)
  BY <1>1, PlainStep DEF CheckStartable, Goto, TypeOK, tranVars, scanVars, PlainPcs
<1>2. CASE ExchangePrevention(t)
  BY <1>2, PlainStep DEF ExchangePrevention, Goto, TypeOK, tranVars, scanVars, PlainPcs
<1>3. CASE CheckWaiters(t)
  BY <1>3, PlainStep DEF CheckWaiters, Goto, TypeOK, tranVars, scanVars, PlainPcs
<1>4. CASE CheckFullDelivery(t)
  BY <1>4, PlainStep DEF CheckFullDelivery, Goto, TypeOK, tranVars, scanVars, PlainPcs
<1>5. CASE PreventDelivery(t)
  BY <1>5, PlainStep DEF PreventDelivery, Goto, TypeOK, tranVars, scanVars, PlainPcs
<1>6. CASE RecheckFullDelivery(t)
  BY <1>6, PlainStep DEF RecheckFullDelivery, Goto, TypeOK, tranVars, scanVars, PlainPcs
<1>7. CASE AllowDelivery(t)
  BY <1>7, PlainStep DEF AllowDelivery, StartPass, Goto, TypeOK, tranVars, PlainPcs
<1>8. CASE \E c \in Consumers : LockWaiter(t, c)
  <2>1. PICK c \in Consumers : LockWaiter(t, c)
    BY <1>8
  <2>2. CASE status[c] = "enabled"
    <3>1. TypeOK'
      <4>1. /\ status' = [status EXCEPT ![c] = "getting"] /\ cons' = [cons EXCEPT ![t] = c]
            /\ left' = [left EXCEPT ![t] = {}] /\ met' = [met EXCEPT ![t] = {}]
            /\ pc' = [pc EXCEPT ![t] = "lock"]
            /\ UNCHANGED <<tail, node, lock, releasing, getCursor, getlock, inflight, prevented, out,
                           puts, acks, woken, todo, pos, batch, short>>
        BY <2>1, <2>2 DEF LockWaiter, Goto, tranVars
      <4> QED
        BY <4>1 DEF TypeOK
    <3>2. pc' = [pc EXCEPT ![t] = "lock"] /\ pc[t] \in PlainPcs /\ "lock" \in PlainPcs
      BY <2>1, <2>2 DEF LockWaiter, Goto, PlainPcs
    <3> QED
      BY <2>1, <3>1, <3>2, PlainStep DEF LockWaiter, tranVars
  <2>3. CASE status[c] # "enabled"
    <3>1. pc' = [pc EXCEPT ![t] = pc[t]] /\ pc[t] \in PlainPcs
      BY <2>1, <2>3 DEF LockWaiter, TypeOK, PlainPcs
    <3>2. TypeOK'
      <4>1. status[c] \in {"disabled", "getting", "delivering"}
        BY <2>3 DEF TypeOK
      <4>2. /\ left' = [left EXCEPT ![t] = left[t] \ {c}]
            /\ met' = [met EXCEPT ![t] = met[t] \union ({status[c]} \ {"disabled"})]
            /\ UNCHANGED <<tail, node, lock, releasing, getCursor, getlock, inflight, prevented, out,
                           puts, acks, woken, todo, pos, batch, short, status, cons, pc>>
        BY <2>1, <2>3 DEF LockWaiter, tranVars
      <4>3. left[t] \ {c} \in SUBSET Consumers
        BY DEF TypeOK
      <4>4. met[t] \union ({status[c]} \ {"disabled"}) \in SUBSET {"getting", "delivering"}
        BY <4>1 DEF TypeOK
      <4>5. /\ left' \in [Threads -> SUBSET Consumers]
            /\ met' \in [Threads -> SUBSET {"getting", "delivering"}]
        BY <4>2, <4>3, <4>4 DEF TypeOK
      <4> QED
        BY <4>2, <4>5 DEF TypeOK
    <3> QED
      BY <2>1, <3>1, <3>2, PlainStep DEF LockWaiter, tranVars
  <2> QED
    BY <2>2, <2>3
<1>9. CASE NoWaiter(t)
  <2>1. TypeOK'
    <3>1. PICK l \in {"look", "idle"}, S \in {left[t], Consumers} :
             /\ pc' = [pc EXCEPT ![t] = l] /\ left' = [left EXCEPT ![t] = S]
             /\ met' = [met EXCEPT ![t] = {}]
             /\ UNCHANGED <<tail, node, lock, releasing, getCursor, getlock, status, inflight,
                            prevented, out, puts, acks, woken, todo, cons, pos, batch, short>>
      BY <1>9 DEF NoWaiter, StartPass, Goto, tranVars, TypeOK
    <3> QED
      BY <3>1 DEF TypeOK
  <2>2. PICK l \in {"look", "idle"} : pc' = [pc EXCEPT ![t] = l]
    BY <1>9 DEF NoWaiter, StartPass, Goto
  <2>3. pc[t] \in PlainPcs /\ l \in PlainPcs
    BY <1>9 DEF NoWaiter, PlainPcs
  <2> QED
    BY <1>9, <2>1, <2>2, <2>3, PlainStep DEF NoWaiter, tranVars
<1> QED
  BY <1>1, <1>2, <1>3, <1>4, <1>5, <1>6, <1>7, <1>8, <1>9 DEF Checks

-----------------------------------------------------------------------------
(* Putting.                                                                 *)

LEMMA SeqNodes ==
    ASSUME TypeOK, NEW u \in Threads
    PROVE  /\ puts[u] \in Seq(Nodes) /\ acks[u] \in Seq(Nodes)
           /\ batch[u] \in Seq(Nodes) /\ todo[u] \in Seq(Nodes)
           /\ ToSet(puts[u]) \subseteq Nodes /\ ToSet(acks[u]) \subseteq Nodes
           /\ ToSet(batch[u]) \subseteq Nodes /\ ToSet(todo[u]) \subseteq Nodes
<1>1. /\ puts[u] \in Seq(Nodes) /\ acks[u] \in Seq(Nodes)
      /\ batch[u] \in Seq(Nodes) /\ todo[u] \in Seq(Nodes)
  BY DEF TypeOK
<1> QED
  BY <1>1, ToSetOfSeq

\* Of the nodes that are not assigned none is locked, taken or in flight.
LEMMA InFlightNodes ==
    ASSUME QueueInv
    PROVE  /\ InFlight \subseteq 1..tail /\ InFlight \subseteq 1..MaxMsgs
           /\ IsFiniteSet(InFlight) /\ Cardinality(InFlight) \in Nat
<1> USE DEF QueueInv
<1>1. tail \in Nat /\ tail <= MaxMsgs /\ MaxMsgs \in Nat
  BY Parameters DEF TypeOK
<1>2. out \subseteq 1..tail
  <2> SUFFICES ASSUME NEW n \in out PROVE n \in 1..tail
    OBVIOUS
  <2>1. n \in Nodes /\ node[n].state = "delivered"
    BY DEF TypeOK, MessagesHeld
  <2> QED
    BY <1>1, <2>1, Parameters DEF NodesAhead
<1>3. \A t \in Threads \ releasing : ToSet(puts[t]) \union ToSet(acks[t]) \subseteq 1..tail
  <2> SUFFICES ASSUME NEW t \in Threads \ releasing, NEW n \in ToSet(puts[t]) \union ToSet(acks[t])
               PROVE  n \in 1..tail
    OBVIOUS
  <2>1. n \in Nodes
    BY SeqNodes
  <2>2. lock[n] = t
    BY <2>1 DEF LocksHeld, Holds
  <2> QED
    BY <1>1, <2>1, <2>2, Parameters DEF NodesAhead
<1>4. InFlight \subseteq 1..tail
  BY <1>2, <1>3 DEF InFlight
<1>5. InFlight \subseteq 1..MaxMsgs
  BY <1>1, <1>4
<1>6. IsFiniteSet(1..tail)
  BY <1>1, FS_Interval
<1>7. IsFiniteSet(InFlight)
  BY <1>4, <1>6, FS_Subset
<1> QED
  BY <1>4, <1>5, <1>7, FS_CardinalityType

LEMMA CountBound ==
    ASSUME NEW S, S \subseteq 1..MaxMsgs
    PROVE  Cardinality(S) \in 0..MaxMsgs
<1>1. IsFiniteSet(1..MaxMsgs) /\ Cardinality(1..MaxMsgs) = MaxMsgs
  BY Parameters, FS_Interval
<1>2. Cardinality(S) <= Cardinality(1..MaxMsgs) /\ IsFiniteSet(S)
  BY <1>1, FS_Subset
<1>3. Cardinality(S) \in Nat
  BY <1>2, FS_CardinalityType
<1> QED
  BY <1>1, <1>2, <1>3, Parameters

States == {"available", "delivered", "consumed"}

\* A node gets a message, or another state.
LEMMA NodeMsg ==
    ASSUME TypeOK, NEW p \in Nodes, NEW v \in BOOLEAN, node' = [node EXCEPT ![p].msg = v]
    PROVE  /\ node' \in [Nodes -> [state : States, msg : BOOLEAN]]
           /\ \A n \in Nodes : node'[n].state = node[n].state
           /\ node'[p].msg = v /\ \A n \in Nodes \ {p} : node'[n] = node[n]
<1>1. node \in [Nodes -> [state : States, msg : BOOLEAN]]
  BY DEF TypeOK, States
<1>2. node' = [node EXCEPT ![p] = [node[p] EXCEPT !.msg = v]]
  OBVIOUS
<1>3. [node[p] EXCEPT !.msg = v] = [state |-> node[p].state, msg |-> v]
  BY <1>1
<1>4. [state |-> node[p].state, msg |-> v] \in [state : States, msg : BOOLEAN]
  BY <1>1
<1>5. node' \in [Nodes -> [state : States, msg : BOOLEAN]]
  BY <1>1, <1>2, <1>3, <1>4, Zenon
<1> QED
  BY <1>1, <1>2, <1>3, <1>5

LEMMA NodeState ==
    ASSUME TypeOK, NEW p \in Nodes, NEW s \in States, node' = [node EXCEPT ![p].state = s]
    PROVE  /\ node' \in [Nodes -> [state : States, msg : BOOLEAN]]
           /\ \A n \in Nodes : node'[n].msg = node[n].msg
           /\ node'[p].state = s /\ \A n \in Nodes \ {p} : node'[n] = node[n]
<1>1. node \in [Nodes -> [state : States, msg : BOOLEAN]]
  BY DEF TypeOK, States
<1>2. node' = [node EXCEPT ![p] = [node[p] EXCEPT !.state = s]]
  OBVIOUS
<1>3. [node[p] EXCEPT !.state = s] = [state |-> s, msg |-> node[p].msg]
  BY <1>1
<1>4. [state |-> s, msg |-> node[p].msg] \in [state : States, msg : BOOLEAN]
  BY <1>1
<1>5. node' \in [Nodes -> [state : States, msg : BOOLEAN]]
  BY <1>1, <1>2, <1>3, <1>4, Zenon
<1> QED
  BY <1>1, <1>2, <1>3, <1>5

LEMMA AssignQSlotKeeps ==
    ASSUME NEW t \in Threads, NEW inTran \in BOOLEAN, QueueInv, AssignQSlot(t, inTran)
    PROVE  QueueInv'
<1> USE DEF QueueInv
<1> DEFINE m == tail + 1
           l == IF inTran THEN "tranput" ELSE "put"
<1>1. /\ pc[t] = "idle" /\ tail' = m /\ pos' = [pos EXCEPT ![t] = m] /\ pc' = [pc EXCEPT ![t] = l]
      /\ UNCHANGED <<node, releasing, getCursor, getlock, status, prevented, out, acks, woken, todo,
                     cons, batch, left, met, short>>
      /\ inTran => /\ lock' = [lock EXCEPT ![m] = t] /\ inflight' = inflight + 1
                   /\ puts' = [puts EXCEPT ![t] = Append(puts[t], m)]
      /\ ~inTran => UNCHANGED <<lock, inflight, puts>>
  BY DEF AssignQSlot, Goto
<1>2. /\ tail \in Nat /\ m \in Nodes /\ m \in 1..MaxMsgs /\ m > tail
      /\ node[m].state = "available" /\ ~node[m].msg /\ lock[m] = NoThread
  BY Parameters DEF AssignQSlot, TypeOK, NodesAhead
<1>3. /\ \A u \in Threads : pc'[u] = IF u = t THEN l ELSE pc[u]
      /\ \A u \in Threads : pos'[u] = IF u = t THEN m ELSE pos[u]
      /\ \A n \in Nodes : lock'[n] = IF inTran /\ n = m THEN t ELSE lock[n]
      /\ \A u \in Threads : puts'[u] = IF inTran /\ u = t THEN Append(puts[t], m) ELSE puts[u]
      /\ l \in {"put", "tranput"}
  BY <1>1 DEF TypeOK
<1>4. \A u \in Threads : m \notin Holds(u)
  BY <1>2, Parameters DEF LocksHeld
<1>5. t \notin releasing /\ pc[t] # "unlock"
  BY <1>1 DEF LocksHeld
<1>6. m \notin ToSet(puts[t]) /\ m \notin ToSet(acks[t])
  BY <1>4, <1>5 DEF Holds
<1>7. /\ Append(puts[t], m) \in Seq(Nodes)
      /\ ToSet(Append(puts[t], m)) = ToSet(puts[t]) \union {m}
      /\ Injective(puts[t]) => Injective(Append(puts[t], m))
  BY <1>2, <1>6, SeqNodes, ToSetAppend
<1> HIDE DEF m, l
<1>8. GetLockHeld'
  <2>1. getCursor' \in Nodes \union {Searching} /\ getCursor' <= getCursor
    BY <1>1, Parameters DEF TypeOK
  <2>2. pc[t] \notin LocatePcs /\ l \notin LocatePcs
    BY <1>1, <1>3 DEF LocatePcs
  <2> QED
    BY <1>1, <1>3, <2>1, <2>2, GetLockFrame, ZenonT(60)
<1>9. NodesAhead'
  <2>1. \A u \in Threads : pc'[u] \in {"put", "tranput", "nack"} => pos'[u] \in 1..tail'
    BY <1>1, <1>2, <1>3 DEF NodesAhead, m
  <2>2. \A n \in Nodes : n > tail' => n > tail /\ n # m
    BY <1>1, <1>2, Parameters DEF m
  <2> QED
    BY <1>1, <1>3, <2>1, <2>2 DEF NodesAhead
<1>10. MessagesHeld'
  <2>1. \A u \in Threads : Carried(u)' = Carried(u) /\ Carried(u) \subseteq Nodes
    BY <1>1, <1>3, CarriedFrame, CarriedNodes
  <2>2. \A n \in Nodes : node'[n].state = "delivered" => lock'[n] = NoThread
    BY <1>1, <1>2, <1>3 DEF MessagesHeld
  <2> QED
    BY <1>1, <2>1, <2>2, HeldFrame
<1>11. BatchesInOrder'
  BY <1>1, <1>3 DEF BatchesInOrder
<1>12. LocksHeld'
  <2>1. \A u \in Threads : Holds(u)' = IF inTran /\ u = t THEN Holds(u) \union {m} ELSE Holds(u)
    BY <1>1, <1>3, <1>5, <1>7 DEF Holds
  <2>2. \A u \in Threads : \A n \in Nodes : lock'[n] = u <=> n \in Holds(u)'
    BY <1>2, <1>3, <1>4, <2>1, Parameters DEF LocksHeld
  <2>3. \A u \in Threads : /\ Injective(puts'[u]) /\ Injective(acks'[u])
                           /\ ToSet(puts'[u]) \cap ToSet(acks'[u]) = {}
    BY <1>1, <1>3, <1>6, <1>7 DEF LocksHeld
  <2>4. \A u \in Threads : u \in releasing' <=> pc'[u] \in {"rewind", "unlock"}
    BY <1>1, <1>3 DEF LocksHeld
  <2>5. \A u \in Threads : pc'[u] = "unlock" => Injective(todo'[u])
    BY <1>1, <1>3 DEF LocksHeld
  <2>6. \A u \in Threads \ releasing' : \A n \in ToSet(acks'[u]) : node'[n].state = "consumed"
    BY <1>1 DEF LocksHeld
  <2> QED
    BY <2>2, <2>3, <2>4, <2>5, <2>6 DEF LocksHeld
<1>13. InflightCounted' /\ inflight' \in 0..MaxMsgs
  <2>1. CASE ~inTran
    BY <1>1, <2>1, InflightFrame DEF TypeOK
  <2>2. CASE inTran
    <3>1. InFlight' = InFlight \union {m}
      BY <1>1, <1>3, <1>5, <1>7, <2>2 DEF InFlight
    <3>2. m \notin InFlight
      BY <1>2, InFlightNodes
    <3>3. Cardinality(InFlight \union {m}) = Cardinality(InFlight) + 1
      BY <3>2, InFlightNodes, FS_AddElement
    <3>4. InFlight \union {m} \subseteq 1..MaxMsgs
      BY <1>2, InFlightNodes
    <3>5. Cardinality(InFlight \union {m}) \in 0..MaxMsgs
      BY <3>4, CountBound
    <3> QED
      BY <1>1, <2>2, <3>1, <3>3, <3>5 DEF InflightCounted
  <2> QED
    BY <2>1, <2>2
<1>14. NothingPassed'
  <2>1. \A n \in Nodes : Reached(n) => Reached(n)'
    BY <1>1, <1>3 DEF Reached
  <2>2. \A u \in Threads : AboutToRewind(u)' = AboutToRewind(u)
    BY <1>1, <1>3 DEF AboutToRewind
  <2> SUFFICES ASSUME NEW n \in Nodes, node'[n].state = "available"
               PROVE  \/ Reached(n)'
                      \/ \E u \in Threads : n \in AboutToRewind(u)'
                      \/ node'[n].msg /\ lock'[n] \in Threads \ releasing'
                      \/ \E u \in Threads : lock'[n] = u /\ pc'[u] = "rewind" /\ n \in ToSet(todo'[u])
    BY DEF NothingPassed
  <2>3. CASE n = m
    <3>1. Reached(m) \/ \E u \in Threads : m \in AboutToRewind(u)
      BY <1>2, Parameters DEF NothingPassed
    <3> QED
      BY <2>1, <2>2, <2>3, <3>1
  <2>4. CASE n # m
    BY <1>1, <1>3, <2>1, <2>2, <2>4 DEF NothingPassed
  <2> QED
    BY <2>3, <2>4
<1>15. TypeOK'
  <2>1. pos' \in [Threads -> 0..(MaxMsgs + 1)] /\ tail' \in 0..MaxMsgs
    BY <1>1, <1>2, Parameters DEF TypeOK, m
  <2>2. puts' \in [Threads -> Seq(Nodes)] /\ lock' \in [Nodes -> Threads \union {NoThread}]
    <3>1. CASE inTran
      <4>1. lock' \in [Nodes -> Threads \union {NoThread}]
        BY <1>1, <3>1, ZenonT(60) DEF TypeOK
      <4>2. puts \in [Threads -> Seq(Nodes)] /\ puts' = [puts EXCEPT ![t] = Append(puts[t], m)]
        BY <1>1, <3>1 DEF TypeOK
      <4>3. puts' \in [Threads -> Seq(Nodes)]
        BY <1>7, <4>2
      <4> QED
        BY <4>1, <4>3
    <3>2. CASE ~inTran
      BY <1>1, <3>2 DEF TypeOK
    <3> QED
      BY <3>1, <3>2
  <2> QED
    BY <1>1, <1>3, <1>13, <2>1, <2>2 DEF TypeOK
<1> QED
  BY <1>8, <1>9, <1>10, <1>11, <1>12, <1>13, <1>14, <1>15

LEMMA FinishPutKeeps ==
    ASSUME NEW t \in Threads, QueueInv, FinishPut(t)
    PROVE  QueueInv'
<1> USE DEF QueueInv
<1> DEFINE l == IF pc[t] = "put" THEN "check" ELSE "idle"
           p == pos[t]
<1>1. /\ pc[t] \in {"put", "tranput"} /\ node' = [node EXCEPT ![p].msg = TRUE]
      /\ pos' = [pos EXCEPT ![t] = 0] /\ pc' = [pc EXCEPT ![t] = l]
      /\ UNCHANGED <<tail, lock, releasing, getCursor, getlock, status, inflight, prevented, out,
                     puts, acks, woken, todo, cons, batch, left, met, short>>
  BY DEF FinishPut, Goto
<1>2. p \in 1..tail /\ tail \in Nat /\ tail <= MaxMsgs /\ p \in Nodes
  BY <1>1, Parameters DEF TypeOK, NodesAhead
<1>3. /\ \A u \in Threads : pc'[u] = IF u = t THEN l ELSE pc[u]
      /\ \A u \in Threads \ {t} : pos'[u] = pos[u]
      /\ \A n \in Nodes : node'[n].state = node[n].state
      /\ \A n \in Nodes : node'[n].msg = IF n = p THEN TRUE ELSE node[n].msg
      /\ l \in {"check", "idle"}
  BY <1>1, <1>2 DEF TypeOK
<1>4. \A n \in Nodes \ {p} : node'[n] = node[n]
  BY <1>1, <1>2 DEF TypeOK
<1> HIDE DEF l, p
<1>5. TypeOK'
  <2>1. node' \in [Nodes -> [state : {"available", "delivered", "consumed"}, msg : BOOLEAN]]
    BY <1>1, <1>2, NodeMsg DEF States
  <2>2. pos' \in [Threads -> 0..(MaxMsgs + 1)]
    BY <1>1, Parameters, SMTT(60) DEF TypeOK
  <2> QED
    BY <1>1, <1>3, <2>1, <2>2 DEF TypeOK
<1>6. GetLockHeld'
  <2>1. getCursor' \in Nodes \union {Searching} /\ getCursor' <= getCursor
    BY <1>1, Parameters, SMTT(60) DEF TypeOK
  <2>2. pc[t] \notin LocatePcs /\ l \notin LocatePcs
    BY <1>1, <1>3 DEF LocatePcs
  <2> QED
    BY <1>1, <1>3, <2>1, <2>2, GetLockFrame
<1>7. NodesAhead'
  <2>1. \A n \in Nodes : n > tail' => n # p
    BY <1>1, <1>2, Parameters
  <2> QED
    BY <1>1, <1>3, <2>1 DEF NodesAhead
<1>8. MessagesHeld'
  <2>1. \A u \in Threads : Carried(u)' = Carried(u) /\ Carried(u) \subseteq Nodes
    BY <1>1, <1>3, CarriedFrame, CarriedNodes
  <2>2. out \subseteq Nodes
    BY DEF TypeOK
  <2> QED
    BY <1>1, <1>3, <2>1, <2>2 DEF MessagesHeld
<1>9. BatchesInOrder'
  BY <1>1, <1>3 DEF BatchesInOrder
<1>10. LocksHeld'
  BY <1>1, <1>3, LocksFrame
<1>11. InflightCounted'
  BY <1>1, InflightFrame
<1>12. NothingPassed'
  <2>1. \A n \in Nodes : Reached(n) => Reached(n)'
    BY <1>1, <1>3 DEF Reached
  <2>2. \A u \in Threads : AboutToRewind(u)' = AboutToRewind(u)
    BY <1>1, <1>3 DEF AboutToRewind
  <2>3. \A u \in Threads : pc[u] = "rewind" => pc'[u] = "rewind" /\ todo'[u] = todo[u]
    BY <1>1, <1>3
  <2> QED
    BY <1>1, <1>3, <2>1, <2>2, <2>3, PassedFrame
<1> QED
  BY <1>5, <1>6, <1>7, <1>8, <1>9, <1>10, <1>11, <1>12

-----------------------------------------------------------------------------
(* Ending a transaction.                                                    *)

\* Both ends of a transaction take its messages out of flight.
LEMMA TransactionLeavesFlight ==
    ASSUME NEW t \in Threads, QueueInv, pc[t] = "idle",
           inflight' = inflight - Len(Locked(t)), releasing' = releasing \union {t},
           UNCHANGED <<out, puts, acks>>
    PROVE  InflightCounted' /\ inflight' \in 0..MaxMsgs
<1> USE DEF QueueInv
<1> DEFINE M == ToSet(puts[t]) \union ToSet(acks[t])
<1>1. t \notin releasing
  BY DEF LocksHeld
<1>2. /\ ToSet(Locked(t)) = M /\ Locked(t) \in Seq(Nodes) /\ Injective(Locked(t))
  <2>1. /\ Injective(puts[t]) /\ Injective(acks[t]) /\ ToSet(puts[t]) \cap ToSet(acks[t]) = {}
        /\ puts[t] \in Seq(Nodes) /\ acks[t] \in Seq(Nodes)
    BY SeqNodes DEF LocksHeld
  <2> QED
    BY <2>1, ToSetConcat DEF Locked
<1>3. IsFiniteSet(M) /\ Cardinality(M) = Len(Locked(t))
  BY <1>2, ToSetCardinality
<1>4. \A u \in Threads \ {t} : (ToSet(puts[u]) \union ToSet(acks[u])) \cap M = {} \/ u \in releasing
  <2> SUFFICES ASSUME NEW u \in Threads \ {t}, u \notin releasing,
                      NEW n \in ToSet(puts[u]) \union ToSet(acks[u]), n \in M
               PROVE  FALSE
    OBVIOUS
  <2>1. n \in Nodes
    BY SeqNodes
  <2>2. n \in Holds(u) /\ n \in Holds(t)
    BY <1>1 DEF LocksHeld, Holds
  <2> QED
    BY <2>1, <2>2 DEF LocksHeld
<1>5. out \cap M = {}
  <2> SUFFICES ASSUME NEW n \in out, n \in M PROVE FALSE
    OBVIOUS
  <2>1. n \in Nodes /\ n \in Holds(t)
    BY SeqNodes DEF Holds
  <2> QED
    BY <2>1, Parameters DEF LocksHeld, MessagesHeld
<1>6. InFlight' = InFlight \ M
  BY <1>1, <1>4, <1>5 DEF InFlight
<1>7. M \subseteq InFlight
  BY <1>1 DEF InFlight
<1> HIDE DEF M
<1>8. IsFiniteSet(InFlight) /\ InFlight \cap M = M
  BY <1>7, InFlightNodes
<1>9. Cardinality(InFlight \ M) = Cardinality(InFlight) - Cardinality(M)
  BY <1>8, FS_Difference
<1>10. Cardinality(InFlight \ M) \in 0..MaxMsgs
  <2>1. InFlight \ M \subseteq 1..MaxMsgs
    BY InFlightNodes
  <2> QED
    BY <2>1, CountBound
<1> QED
  BY <1>3, <1>6, <1>9, <1>10 DEF InflightCounted

\* The end of a transaction touches its own messages alone, leaves them locked
\* and rewinds for those that are to be got.
LEMMA TransactionEnds ==
    ASSUME NEW t \in Threads, QueueInv, pc[t] = "idle",
           NEW W, todo' = [todo EXCEPT ![t] = W], W \in Seq(Nodes),
           node' \in [Nodes -> [state : States, msg : BOOLEAN]],
           \A n \in Nodes \ (ToSet(puts[t]) \union ToSet(acks[t])) : node'[n] = node[n],
           \A n \in ToSet(puts[t]) \union ToSet(acks[t]) :
              /\ node'[n].state # "delivered"
              /\ node'[n].state = "available" => n \in ToSet(W),
           inflight' = inflight - Len(Locked(t)), releasing' = releasing \union {t},
           NEW w \in BOOLEAN, woken' = [woken EXCEPT ![t] = w], pc' = [pc EXCEPT ![t] = "rewind"],
           UNCHANGED <<tail, lock, getCursor, getlock, status, prevented, out, puts, acks, scanVars>>
    PROVE  QueueInv'
<1> USE DEF QueueInv
<1> DEFINE M == ToSet(puts[t]) \union ToSet(acks[t])
<1>1. /\ \A u \in Threads : pc'[u] = IF u = t THEN "rewind" ELSE pc[u]
      /\ \A u \in Threads : todo'[u] = IF u = t THEN W ELSE todo[u]
      /\ UNCHANGED <<cons, pos, batch, left, met, short>>
  BY DEF TypeOK, scanVars
<1>2. t \notin releasing /\ M = Holds(t) /\ M \subseteq Nodes
  BY SeqNodes DEF LocksHeld, Holds
<1>3. \A n \in Nodes : lock[n] = t <=> n \in M
  BY <1>2 DEF LocksHeld
<1>4. /\ \A n \in Nodes \ M : node'[n] = node[n]
      /\ \A n \in M : node'[n].state # "delivered" /\ (node'[n].state = "available" => n \in ToSet(W))
  OBVIOUS
<1> HIDE DEF M
<1>5. InflightCounted' /\ inflight' \in 0..MaxMsgs
  BY TransactionLeavesFlight
<1>6. TypeOK'
  <2>1. todo' \in [Threads -> Seq(Nodes)] /\ woken' \in [Threads -> BOOLEAN]
    BY DEF TypeOK
  <2>2. node' \in [Nodes -> [state : {"available", "delivered", "consumed"}, msg : BOOLEAN]]
    BY DEF States
  <2> QED
    BY <1>1, <1>5, <2>1, <2>2 DEF TypeOK, TranPcs
<1>7. GetLockHeld'
  <2>1. getCursor' \in Nodes \union {Searching} /\ getCursor' <= getCursor
    BY Parameters DEF TypeOK
  <2>2. pc[t] \notin LocatePcs /\ "rewind" \notin LocatePcs
    BY DEF LocatePcs
  <2> QED
    BY <1>1, <2>1, <2>2, GetLockFrame
<1>8. NodesAhead'
  <2>1. \A n \in Nodes : n > tail => n \notin M
    BY <1>3, Parameters DEF NodesAhead
  <2> QED
    BY <1>1, <1>4, <2>1 DEF NodesAhead
<1>9. MessagesHeld'
  <2>1. \A u \in Threads : Carried(u)' = Carried(u) /\ Carried(u) \subseteq Nodes
    BY <1>1, CarriedFrame, CarriedNodes
  <2>2. \A n \in Nodes : node[n].state = "delivered" => n \notin M
    BY <1>3, Parameters DEF MessagesHeld
  <2>3. \A n \in Nodes : node[n].state = "delivered" => node'[n] = node[n]
    BY <1>4, <2>2
  <2>4. \A n \in Nodes : node'[n].state = "delivered" => node[n].state = "delivered" /\ lock'[n] = NoThread
    BY <1>4 DEF MessagesHeld
  <2> QED
    BY <2>1, <2>3, <2>4, HeldFrame
<1>10. BatchesInOrder'
  BY <1>1 DEF BatchesInOrder
<1>11. LocksHeld'
  <2>1. \A u \in Threads : Holds(u)' = Holds(u)
    BY <1>1 DEF Holds
  <2>2. \A u \in Threads : u \in releasing' <=> pc'[u] \in {"rewind", "unlock"}
    BY <1>1 DEF LocksHeld
  <2>3. \A u \in Threads : pc'[u] = "unlock" => Injective(todo'[u])
    BY <1>1 DEF LocksHeld
  <2>4. ASSUME NEW u \in Threads \ releasing', NEW n \in ToSet(acks'[u])
        PROVE  node'[n].state = "consumed"
    <3>1. u # t /\ u \notin releasing /\ n \in Nodes /\ n \in Holds(u)
      BY <2>4, SeqNodes DEF LocksHeld, Holds
    <3>2. n \notin M
      BY <1>3, <3>1 DEF LocksHeld
    <3> QED
      BY <1>4, <3>1, <3>2 DEF LocksHeld
  <2>5. \A u \in Threads : \A n \in Nodes : lock'[n] = u <=> n \in Holds(u)'
    BY <2>1 DEF LocksHeld
  <2>6. \A u \in Threads : /\ Injective(puts'[u]) /\ Injective(acks'[u])
                           /\ ToSet(puts'[u]) \cap ToSet(acks'[u]) = {}
    BY DEF LocksHeld
  <2> QED
    BY <2>2, <2>3, <2>4, <2>5, <2>6 DEF LocksHeld
<1>12. NothingPassed'
  <2>1. \A n \in Nodes : Reached(n) => Reached(n)'
    BY <1>1 DEF Reached
  <2>2. \A u \in Threads : AboutToRewind(u)' = AboutToRewind(u)
    BY <1>1 DEF AboutToRewind
  <2> SUFFICES ASSUME NEW n \in Nodes, node'[n].state = "available"
               PROVE  \/ Reached(n)'
                      \/ \E u \in Threads : n \in AboutToRewind(u)'
                      \/ node'[n].msg /\ lock'[n] \in Threads \ releasing'
                      \/ \E u \in Threads : lock'[n] = u /\ pc'[u] = "rewind" /\ n \in ToSet(todo'[u])
    BY DEF NothingPassed
  <2>3. CASE n \in M
    BY <1>1, <1>3, <1>4, <2>3
  <2>4. CASE n \notin M
    <3>1. node'[n] = node[n] /\ lock[n] # t
      BY <1>3, <1>4, <2>4
    <3> QED
      BY <1>1, <2>1, <2>2, <3>1 DEF NothingPassed
  <2> QED
    BY <2>3, <2>4
<1> QED
  BY <1>5, <1>6, <1>7, <1>8, <1>9, <1>10, <1>11, <1>12

LEMMA RecordMsg ==
    ASSUME NEW r \in [state : States, msg : BOOLEAN], NEW v \in BOOLEAN
    PROVE  [r EXCEPT !.msg = v] = [state |-> r.state, msg |-> v]
OBVIOUS

LEMMA CommitKeeps ==
    ASSUME NEW t \in Threads, QueueInv, Commit(t)
    PROVE  QueueInv'
<1> USE DEF QueueInv
<1> DEFINE A == ToSet(acks[t])
<1>1. /\ pc[t] = "idle"
      /\ node' = [n \in Nodes |-> IF n \in A THEN [node[n] EXCEPT !.msg = FALSE] ELSE node[n]]
  BY DEF Commit
<1>2. t \notin releasing /\ A \subseteq Nodes /\ \A n \in A : node[n].state = "consumed"
  BY <1>1, SeqNodes DEF LocksHeld
<1> HIDE DEF A
<1>3. \A n \in Nodes : node[n] \in [state : States, msg : BOOLEAN]
  BY DEF TypeOK, States
<1>4. \A n \in Nodes : [node[n] EXCEPT !.msg = FALSE] = [state |-> node[n].state, msg |-> FALSE]
  BY <1>3, RecordMsg, Zenon
<1>5. \A n \in Nodes : [state |-> node[n].state, msg |-> FALSE] \in [state : States, msg : BOOLEAN]
  BY <1>3
<1>6. node' \in [Nodes -> [state : States, msg : BOOLEAN]]
  BY <1>1, <1>3, <1>4, <1>5, Zenon
<1>7. \A n \in A : node'[n].state = "consumed"
  BY <1>1, <1>2, <1>4
<1>8. \A n \in Nodes \ A : node'[n] = node[n]
  BY <1>1
<1>9. \A n \in ToSet(puts[t]) : n \in Nodes /\ node[n].state # "delivered"
  <2> SUFFICES ASSUME NEW n \in ToSet(puts[t]) PROVE n \in Nodes /\ node[n].state # "delivered"
    OBVIOUS
  <2>1. n \in Nodes /\ n \in Holds(t)
    BY <1>1, SeqNodes DEF Holds
  <2> QED
    BY <2>1, Parameters DEF LocksHeld, MessagesHeld
<1>10. \A n \in ToSet(puts[t]) \union ToSet(acks[t]) :
              /\ node'[n].state # "delivered"
              /\ node'[n].state = "available" => n \in ToSet(puts[t])
  BY <1>7, <1>8, <1>9 DEF A
<1>11. (puts[t] # << >>) \in BOOLEAN /\ puts[t] \in Seq(Nodes)
  BY SeqNodes
<1> QED
  BY <1>1, <1>6, <1>8, <1>10, <1>11, TransactionEnds DEF Commit, Goto, A

LEMMA RollbackKeeps ==
    ASSUME NEW t \in Threads, QueueInv, Rollback(t)
    PROVE  QueueInv'
<1> USE DEF QueueInv
<1> DEFINE A == ToSet(acks[t])
           P == ToSet(puts[t])
<1>1. /\ pc[t] = "idle"
      /\ node' = [n \in Nodes |->
                    CASE n \in P -> [state |-> "consumed", msg |-> FALSE]
                      [] n \in A -> [node[n] EXCEPT !.state = "available"]
                      [] OTHER -> node[n]]
  BY DEF Rollback
<1>2. A \subseteq Nodes /\ P \subseteq Nodes /\ P \cap A = {}
  BY <1>1, SeqNodes DEF LocksHeld
<1> HIDE DEF A, P
<1>3. \A n \in Nodes : node[n] \in [state : States, msg : BOOLEAN]
  BY DEF TypeOK, States
<1>4. \A n \in Nodes : [node[n] EXCEPT !.state = "available"] = [state |-> "available", msg |-> node[n].msg]
  BY <1>3
<1>5. /\ \A n \in Nodes : [state |-> "available", msg |-> node[n].msg] \in [state : States, msg : BOOLEAN]
      /\ [state |-> "consumed", msg |-> FALSE] \in [state : States, msg : BOOLEAN]
  BY <1>3 DEF States
<1>6. /\ \A n \in P : node'[n] = [state |-> "consumed", msg |-> FALSE]
      /\ \A n \in A : node'[n] = [state |-> "available", msg |-> node[n].msg]
      /\ \A n \in Nodes \ (P \union A) : node'[n] = node[n]
  BY <1>1, <1>2, <1>4
<1>7. node' \in [Nodes -> [state : States, msg : BOOLEAN]]
  <2>1. \A n \in Nodes : node'[n] \in [state : States, msg : BOOLEAN]
    BY <1>2, <1>3, <1>5, <1>6, Zenon
  <2>2. node' = [n \in Nodes |-> node'[n]]
    BY <1>1
  <2> QED
    BY <2>1, <2>2, Zenon
<1>8. \A n \in P \union A :
              /\ node'[n].state # "delivered"
              /\ node'[n].state = "available" => n \in A
  <2>1. \A n \in P : node'[n].state = "consumed"
    BY <1>6
  <2>2. \A n \in A : node'[n].state = "available"
    <3>1. ASSUME NEW v PROVE [state |-> "available", msg |-> v].state = "available"
      OBVIOUS
    <3> QED
      BY <1>6, <3>1, Zenon
  <2> QED
    BY <2>1, <2>2
<1>9. (acks[t] # << >>) \in BOOLEAN /\ acks[t] \in Seq(Nodes)
  BY SeqNodes
<1> QED
  BY <1>1, <1>6, <1>7, <1>8, <1>9, TransactionEnds DEF Rollback, Goto, A, P

LEMMA RewindGetCursorKeeps ==
    ASSUME NEW t \in Threads, QueueInv, RewindGetCursor(t)
    PROVE  QueueInv'
<1> USE DEF QueueInv
<1> DEFINE h == Head(todo[t])
<1>1. /\ pc[t] = "rewind" /\ todo[t] # << >> /\ getCursor' = Earlier(h, getCursor)
      /\ todo' = [todo EXCEPT ![t] = Tail(todo[t])]
      /\ UNCHANGED <<tail, node, lock, releasing, getlock, status, inflight, prevented, out, pc,
                     puts, acks, woken, cons, pos, batch, left, met, short>>
  BY DEF RewindGetCursor, tranVars, scanVars
<1>2. /\ h \in Nodes /\ Tail(todo[t]) \in Seq(Nodes)
      /\ ToSet(todo[t]) = ToSet(Tail(todo[t])) \union {h}
  BY <1>1, SeqNodes, ToSetTail
<1> HIDE DEF h
<1>3. getCursor' \in Nodes \union {Searching} /\ getCursor' <= getCursor /\ getCursor' <= h
  BY <1>1, <1>2, Parameters DEF TypeOK, Earlier
<1>4. TypeOK'
  BY <1>1, <1>2, <1>3 DEF TypeOK
<1>5. pc' = [pc EXCEPT ![t] = pc[t]] /\ pc[t] \notin LocatePcs
  BY <1>1 DEF TypeOK, LocatePcs
<1>6. GetLockHeld'
  BY <1>1, <1>3, <1>5, GetLockFrame
<1>7. NodesAhead' /\ BatchesInOrder'
  BY <1>1 DEF NodesAhead, BatchesInOrder
<1>8. MessagesHeld'
  <2>1. \A u \in Threads : Carried(u)' = Carried(u) /\ Carried(u) \subseteq Nodes
    BY <1>1, CarriedFrame, CarriedNodes
  <2> QED
    BY <1>1, <2>1, HeldFrame DEF MessagesHeld
<1>9. LocksHeld'
  <2>1. \A u \in Threads : pc[u] = "unlock" => todo'[u] = todo[u]
    BY <1>1 DEF TypeOK
  <2> QED
    BY <1>1, <1>5, <2>1, LocksFrame
<1>10. InflightCounted'
  BY <1>1, InflightFrame
<1>11. NothingPassed'
  <2>1. \A n \in Nodes : Reached(n) \/ h <= n => Reached(n)'
    BY <1>1, <1>2, <1>3, Parameters DEF Reached, TypeOK
  <2>2. \A u \in Threads : AboutToRewind(u)' = AboutToRewind(u)
    BY <1>1 DEF AboutToRewind
  <2>3. \A u \in Threads : \A n \in ToSet(todo[u]) : n \in ToSet(todo'[u]) \/ n = h
    <3>1. \A u \in Threads : todo'[u] = IF u = t THEN Tail(todo[t]) ELSE todo[u]
      BY <1>1 DEF TypeOK
    <3>2. \A n \in ToSet(todo[t]) : n \in ToSet(todo'[t]) \/ n = h
      BY <1>2, <3>1
    <3>3. \A u \in Threads \ {t} : ToSet(todo'[u]) = ToSet(todo[u])
      BY <3>1
    <3> QED
      BY <3>2, <3>3
  <2>4. h <= h
    BY <1>2, Parameters
  <2> QED
    BY <1>1, <2>1, <2>2, <2>3, <2>4 DEF NothingPassed
<1> QED
  BY <1>4, <1>6, <1>7, <1>8, <1>9, <1>10, <1>11

LEMMA StartCompleteKeeps ==
    ASSUME NEW t \in Threads, QueueInv, StartComplete(t)
    PROVE  QueueInv'
<1> USE DEF QueueInv
<1> DEFINE R == Reverse(Locked(t))
<1>1. /\ pc[t] = "rewind" /\ todo[t] = << >> /\ todo' = [todo EXCEPT ![t] = R]
      /\ pc' = [pc EXCEPT ![t] = "unlock"]
      /\ UNCHANGED <<tail, node, lock, releasing, getCursor, getlock, status, inflight, prevented,
                     out, puts, acks, woken, cons, pos, batch, left, met, short>>
  BY DEF StartComplete, Goto, tranVars, scanVars
<1>2. /\ Injective(puts[t]) /\ Injective(acks[t]) /\ ToSet(puts[t]) \cap ToSet(acks[t]) = {}
      /\ puts[t] \in Seq(Nodes) /\ acks[t] \in Seq(Nodes)
  BY SeqNodes DEF LocksHeld
<1>3. /\ Locked(t) \in Seq(Nodes) /\ Injective(Locked(t))
      /\ ToSet(Locked(t)) = ToSet(puts[t]) \union ToSet(acks[t])
  BY <1>2, ToSetConcat DEF Locked
<1>4. R \in Seq(Nodes) /\ Injective(R) /\ ToSet(R) = ToSet(puts[t]) \union ToSet(acks[t])
  BY <1>3, ToSetReverse
<1> HIDE DEF R
<1>5. /\ \A u \in Threads : pc'[u] = IF u = t THEN "unlock" ELSE pc[u]
      /\ \A u \in Threads : todo'[u] = IF u = t THEN R ELSE todo[u]
  BY <1>1 DEF TypeOK
<1>6. TypeOK'
  BY <1>1, <1>4 DEF TypeOK, TranPcs
<1>7. GetLockHeld'
  <2>1. getCursor' \in Nodes \union {Searching} /\ getCursor' <= getCursor
    BY <1>1, Parameters DEF TypeOK
  <2>2. pc[t] \notin LocatePcs /\ "unlock" \notin LocatePcs
    BY <1>1 DEF LocatePcs
  <2> QED
    BY <1>1, <2>1, <2>2, GetLockFrame
<1>8. NodesAhead' /\ BatchesInOrder'
  BY <1>1, <1>5 DEF NodesAhead, BatchesInOrder
<1>9. MessagesHeld'
  <2>1. \A u \in Threads : Carried(u)' = Carried(u) /\ Carried(u) \subseteq Nodes
    BY <1>1, <1>5, CarriedFrame, CarriedNodes
  <2> QED
    BY <1>1, <2>1, HeldFrame DEF MessagesHeld
<1>10. LocksHeld'
  <2>1. \A u \in Threads : Holds(u)' = Holds(u)
    <3>1. Holds(t)' = Holds(t)
      <4>1. Holds(t)' = ToSet(R)
        BY <1>5 DEF Holds
      <4>2. Holds(t) = ToSet(puts[t]) \union ToSet(acks[t])
        BY <1>1 DEF Holds
      <4> QED
        BY <1>4, <4>1, <4>2
    <3>2. \A u \in Threads \ {t} : Holds(u)' = Holds(u)
      BY <1>1, <1>5 DEF Holds
    <3> QED
      BY <3>1, <3>2
  <2>2. \A u \in Threads : u \in releasing' <=> pc'[u] \in {"rewind", "unlock"}
    BY <1>1, <1>5 DEF LocksHeld
  <2>3. \A u \in Threads : pc'[u] = "unlock" => Injective(todo'[u])
    BY <1>4, <1>5 DEF LocksHeld
  <2> QED
    BY <1>1, <2>1, <2>2, <2>3 DEF LocksHeld
<1>11. InflightCounted'
  BY <1>1, InflightFrame
<1>12. NothingPassed'
  <2>1. \A n \in Nodes : Reached(n) => Reached(n)'
    BY <1>1, <1>5 DEF Reached
  <2>2. \A u \in Threads : AboutToRewind(u)' = AboutToRewind(u)
    BY <1>1, <1>5 DEF AboutToRewind
  <2>3. ToSet(todo[t]) = {}
    BY <1>1, SeqNodes, ToSetOfSeq
  <2> QED
    BY <1>1, <1>5, <2>1, <2>2, <2>3 DEF NothingPassed
<1> QED
  BY <1>6, <1>7, <1>8, <1>9, <1>10, <1>11, <1>12

LEMMA UnlockKeeps ==
    ASSUME NEW t \in Threads, QueueInv, Unlock(t)
    PROVE  QueueInv'
<1> USE DEF QueueInv
<1> DEFINE h == Head(todo[t])
<1>1. /\ pc[t] = "unlock" /\ todo[t] # << >> /\ lock' = [lock EXCEPT ![h] = NoThread]
      /\ todo' = [todo EXCEPT ![t] = Tail(todo[t])]
      /\ UNCHANGED <<tail, node, releasing, getCursor, getlock, status, inflight, prevented, out,
                     pc, puts, acks, woken, cons, pos, batch, left, met, short>>
  BY DEF Unlock, tranVars, scanVars
<1>2. Injective(todo[t])
  BY <1>1 DEF LocksHeld
<1>3. /\ h \in Nodes /\ h \in ToSet(todo[t]) /\ Tail(todo[t]) \in Seq(Nodes)
      /\ ToSet(todo[t]) = ToSet(Tail(todo[t])) \union {h}
      /\ Injective(Tail(todo[t])) /\ h \notin ToSet(Tail(todo[t]))
  BY <1>1, <1>2, SeqNodes, ToSetTail
<1> HIDE DEF h
<1>4. lock[h] = t /\ t \in releasing /\ t # NoThread
  BY <1>1, <1>3, Parameters DEF LocksHeld, Holds
<1>5. /\ \A n \in Nodes : lock'[n] = IF n = h THEN NoThread ELSE lock[n]
      /\ \A u \in Threads : todo'[u] = IF u = t THEN Tail(todo[t]) ELSE todo[u]
  BY <1>1 DEF TypeOK
<1>6. TypeOK'
  <2>1. todo' \in [Threads -> Seq(Nodes)] /\ lock' \in [Nodes -> Threads \union {NoThread}]
    BY <1>1, <1>3 DEF TypeOK
  <2> QED
    BY <1>1, <2>1 DEF TypeOK
<1>7. GetLockHeld' /\ NodesAhead' /\ BatchesInOrder'
  BY <1>1, <1>5 DEF GetLockHeld, NodesAhead, BatchesInOrder
<1>8. MessagesHeld'
  <2>1. \A u \in Threads : Carried(u)' = Carried(u) /\ Carried(u) \subseteq Nodes
    BY <1>1, CarriedFrame, CarriedNodes
  <2> QED
    BY <1>1, <1>5, <2>1, HeldFrame DEF MessagesHeld
<1>9. LocksHeld'
  <2>1. \A u \in Threads : Holds(u)' = IF u = t THEN Holds(u) \ {h} ELSE Holds(u)
    <3>1. Holds(t)' = ToSet(Tail(todo[t])) /\ Holds(t) = ToSet(todo[t])
      BY <1>1, <1>5 DEF Holds
    <3>2. Holds(t)' = Holds(t) \ {h}
      BY <1>3, <3>1
    <3>3. \A u \in Threads \ {t} : Holds(u)' = Holds(u)
      BY <1>1, <1>5 DEF Holds
    <3> QED
      BY <3>2, <3>3
  <2>2. ASSUME NEW u \in Threads, NEW n \in Nodes PROVE lock'[n] = u <=> n \in Holds(u)'
    <3>1. lock[n] = u <=> n \in Holds(u)
      BY DEF LocksHeld
    <3>2. lock[h] = u <=> h \in Holds(u)
      BY <1>3 DEF LocksHeld
    <3>3. lock'[n] = IF n = h THEN NoThread ELSE lock[n]
      BY <1>5
    <3>4. u # NoThread
      BY Parameters
    <3>5. Holds(u)' = IF u = t THEN Holds(u) \ {h} ELSE Holds(u)
      BY <2>1
    <3> QED
      BY <1>4, <3>1, <3>2, <3>3, <3>4, <3>5
  <2>3. \A u \in Threads : pc'[u] = "unlock" => Injective(todo'[u])
    BY <1>1, <1>3, <1>5 DEF LocksHeld
  <2> QED
    BY <1>1, <2>2, <2>3 DEF LocksHeld
<1>10. InflightCounted'
  BY <1>1, InflightFrame
<1>11. NothingPassed'
  <2>1. \A n \in Nodes : Reached(n) => Reached(n)'
    BY <1>1 DEF Reached
  <2>2. \A u \in Threads : AboutToRewind(u)' = AboutToRewind(u)
    BY <1>1 DEF AboutToRewind
  <2> SUFFICES ASSUME NEW n \in Nodes, node'[n].state = "available"
               PROVE  \/ Reached(n)'
                      \/ \E u \in Threads : n \in AboutToRewind(u)'
                      \/ node'[n].msg /\ lock'[n] \in Threads \ releasing'
                      \/ \E u \in Threads : lock'[n] = u /\ pc'[u] = "rewind" /\ n \in ToSet(todo'[u])
    BY DEF NothingPassed
  <2>3. CASE n = h
    <3>1. Reached(n) \/ \E u \in Threads : n \in AboutToRewind(u)
      BY <1>1, <1>4, <2>3 DEF NothingPassed
    <3> QED
      BY <2>1, <2>2, <3>1
  <2>4. CASE n # h
    BY <1>1, <1>5, <2>1, <2>2, <2>4 DEF NothingPassed
  <2> QED
    BY <2>3, <2>4
<1> QED
  BY <1>6, <1>7, <1>8, <1>9, <1>10, <1>11

LEMMA PostReleaseKeeps ==
    ASSUME NEW t \in Threads, QueueInv, PostRelease(t)
    PROVE  QueueInv'
<1> USE DEF QueueInv
<1> DEFINE l == IF woken[t] THEN "check" ELSE "startable"
<1>1. /\ pc[t] = "unlock" /\ todo[t] = << >> /\ releasing' = releasing \ {t}
      /\ pc' = [pc EXCEPT ![t] = l] /\ woken' = [woken EXCEPT ![t] = FALSE]
      /\ puts' = [puts EXCEPT ![t] = << >>] /\ acks' = [acks EXCEPT ![t] = << >>]
      /\ UNCHANGED <<tail, node, lock, getCursor, getlock, status, inflight, prevented, out, todo,
                     cons, pos, batch, left, met, short>>
  BY DEF PostRelease, Goto, scanVars
<1>2. t \in releasing
  BY <1>1 DEF LocksHeld
<1>3. ToSet(<< >>) = {} /\ Injective(<< >>) /\ << >> \in Seq(Nodes)
  <2>1. << >> \in Seq(Nodes)
    OBVIOUS
  <2> QED
    BY <2>1, ToSetOfSeq
<1>4. /\ \A u \in Threads : pc'[u] = IF u = t THEN l ELSE pc[u]
      /\ \A u \in Threads : puts'[u] = IF u = t THEN << >> ELSE puts[u]
      /\ \A u \in Threads : acks'[u] = IF u = t THEN << >> ELSE acks[u]
      /\ l \in {"check", "startable"}
  BY <1>1 DEF TypeOK
<1> HIDE DEF l
<1>5. TypeOK'
  <2>1. /\ puts' \in [Threads -> Seq(Nodes)] /\ acks' \in [Threads -> Seq(Nodes)]
        /\ woken' \in [Threads -> BOOLEAN]
    BY <1>1, <1>3 DEF TypeOK
  <2> QED
    BY <1>1, <1>4, <2>1 DEF TypeOK
<1>6. GetLockHeld'
  <2>1. getCursor' \in Nodes \union {Searching} /\ getCursor' <= getCursor
    BY <1>1, Parameters DEF TypeOK
  <2>2. pc[t] \notin LocatePcs /\ l \notin LocatePcs
    BY <1>1, <1>4 DEF LocatePcs
  <2> QED
    BY <1>1, <2>1, <2>2, GetLockFrame
<1>7. NodesAhead' /\ BatchesInOrder'
  BY <1>1, <1>4 DEF NodesAhead, BatchesInOrder
<1>8. MessagesHeld'
  <2>1. \A u \in Threads : Carried(u)' = Carried(u) /\ Carried(u) \subseteq Nodes
    BY <1>1, <1>4, CarriedFrame, CarriedNodes
  <2> QED
    BY <1>1, <2>1, HeldFrame DEF MessagesHeld
<1>9. LocksHeld'
  <2>1. \A u \in Threads : Holds(u)' = Holds(u)
    BY <1>1, <1>3, <1>4 DEF Holds
  <2>2. \A u \in Threads : u \in releasing' <=> pc'[u] \in {"rewind", "unlock"}
    BY <1>1, <1>4 DEF LocksHeld
  <2>3. \A u \in Threads : /\ Injective(puts'[u]) /\ Injective(acks'[u])
                           /\ ToSet(puts'[u]) \cap ToSet(acks'[u]) = {}
    BY <1>3, <1>4 DEF LocksHeld
  <2>4. \A u \in Threads \ releasing' : \A n \in ToSet(acks'[u]) : node'[n].state = "consumed"
    BY <1>1, <1>3, <1>4 DEF LocksHeld
  <2>5. \A u \in Threads : pc'[u] = "unlock" => Injective(todo'[u])
    BY <1>1, <1>4 DEF LocksHeld
  <2>6. \A u \in Threads : \A n \in Nodes : lock'[n] = u <=> n \in Holds(u)'
    BY <1>1, <2>1 DEF LocksHeld
  <2> QED
    BY <2>2, <2>3, <2>4, <2>5, <2>6 DEF LocksHeld
<1>10. InflightCounted'
  <2>1. InFlight' = InFlight
    BY <1>1, <1>2, <1>3, <1>4 DEF InFlight
  <2> QED
    BY <1>1, <2>1 DEF InflightCounted
<1>11. NothingPassed'
  <2>1. \A n \in Nodes : Reached(n) => Reached(n)'
    BY <1>1, <1>4 DEF Reached
  <2>2. \A u \in Threads : AboutToRewind(u)' = AboutToRewind(u)
    BY <1>1, <1>4 DEF AboutToRewind
  <2> QED
    BY <1>1, <1>4, <2>1, <2>2 DEF NothingPassed
<1> QED
  BY <1>5, <1>6, <1>7, <1>8, <1>9, <1>10, <1>11

-----------------------------------------------------------------------------
(* Clients.                                                                 *)

LEMMA AcknowledgeKeeps ==
    ASSUME NEW t \in Threads, NEW n0 \in Nodes, QueueInv, Acknowledge(t, n0)
    PROVE  QueueInv'
<1> USE DEF QueueInv
<1>1. /\ pc[t] = "idle" /\ n0 \in out /\ out' = out \ {n0} /\ inflight' = inflight - 1
      /\ node' = [node EXCEPT ![n0] = [state |-> "consumed", msg |-> FALSE]]
      /\ pc' = [pc EXCEPT ![t] = "startable"]
      /\ UNCHANGED <<tail, lock, releasing, getCursor, getlock, status, prevented, puts, acks, woken,
                     todo, cons, pos, batch, left, met, short>>
  BY DEF Acknowledge, Goto, tranVars, scanVars
<1>2. node[n0].state = "delivered" /\ lock[n0] = NoThread
  BY <1>1 DEF MessagesHeld
<1>3. /\ \A u \in Threads : pc'[u] = IF u = t THEN "startable" ELSE pc[u]
      /\ \A n \in Nodes \ {n0} : node'[n] = node[n]
      /\ node'[n0] = [state |-> "consumed", msg |-> FALSE]
      /\ node'[n0].state = "consumed"
  BY <1>1 DEF TypeOK
<1>4. InflightCounted' /\ inflight' \in 0..MaxMsgs
  <2>1. \A u \in Threads \ releasing : n0 \notin ToSet(puts[u]) \union ToSet(acks[u])
    BY <1>2, Parameters DEF LocksHeld, Holds
  <2>2. InFlight' = InFlight \ {n0} /\ n0 \in InFlight
    BY <1>1, <2>1 DEF InFlight
  <2>3. Cardinality(InFlight \ {n0}) = Cardinality(InFlight) - 1
    BY <2>2, InFlightNodes, FS_RemoveElement
  <2>4. InFlight \ {n0} \subseteq 1..MaxMsgs
    BY InFlightNodes
  <2>5. Cardinality(InFlight \ {n0}) \in 0..MaxMsgs
    BY <2>4, CountBound
  <2> QED
    BY <1>1, <2>2, <2>3, <2>5 DEF InflightCounted
<1>5. TypeOK'
  <2>1. [state |-> "consumed", msg |-> FALSE] \in [state : {"available", "delivered", "consumed"}, msg : BOOLEAN]
    OBVIOUS
  <2>2. node' \in [Nodes -> [state : {"available", "delivered", "consumed"}, msg : BOOLEAN]]
    BY <1>1, <2>1, Zenon DEF TypeOK
  <2> QED
    BY <1>1, <1>4, <2>2 DEF TypeOK
<1>6. GetLockHeld'
  <2>1. getCursor' \in Nodes \union {Searching} /\ getCursor' <= getCursor
    BY <1>1, Parameters DEF TypeOK
  <2>2. pc[t] \notin LocatePcs /\ "startable" \notin LocatePcs
    BY <1>1 DEF LocatePcs
  <2> QED
    BY <1>1, <2>1, <2>2, GetLockFrame
<1>7. NodesAhead'
  <2>1. \A n \in Nodes : n > tail' => n # n0
    BY <1>1, <1>2 DEF NodesAhead
  <2> QED
    BY <1>1, <1>3, <2>1 DEF NodesAhead
<1>8. MessagesHeld'
  <2>1. \A u \in Threads : Carried(u)' = Carried(u) /\ Carried(u) \subseteq Nodes
    BY <1>1, <1>3, CarriedFrame, CarriedNodes
  <2>2. \A u \in Threads : n0 \notin Carried(u)
    BY <1>1 DEF MessagesHeld
  <2>3. out \subseteq Nodes
    BY DEF TypeOK
  <2> QED
    BY <1>1, <1>3, <2>1, <2>2, <2>3 DEF MessagesHeld
<1>9. BatchesInOrder'
  BY <1>1, <1>3 DEF BatchesInOrder
<1>10. LocksHeld'
  BY <1>1, <1>2, <1>3, LocksFrame
<1>11. NothingPassed'
  <2>1. \A n \in Nodes : Reached(n) => Reached(n)'
    BY <1>1, <1>3 DEF Reached
  <2>2. \A u \in Threads : AboutToRewind(u)' = AboutToRewind(u)
    BY <1>1, <1>3 DEF AboutToRewind
  <2>3. \A u \in Threads : pc[u] = "rewind" => pc'[u] = "rewind" /\ todo'[u] = todo[u]
    BY <1>1, <1>3
  <2>4. \A n \in Nodes : node'[n].state = "available" => node'[n] = node[n]
    BY <1>3
  <2> QED
    BY <1>1, <2>1, <2>2, <2>3, <2>4, PassedFrame
<1> QED
  BY <1>4, <1>5, <1>6, <1>7, <1>8, <1>9, <1>10, <1>11

LEMMA AcknowledgeInTranKeeps ==
    ASSUME NEW t \in Threads, NEW n0 \in Nodes, QueueInv, AcknowledgeInTran(t, n0)
    PROVE  QueueInv'
<1> USE DEF QueueInv
<1>1. /\ pc[t] = "idle" /\ n0 \in out /\ out' = out \ {n0} /\ lock' = [lock EXCEPT ![n0] = t]
      /\ acks' = [acks EXCEPT ![t] = Append(acks[t], n0)]
      /\ node' = [node EXCEPT ![n0].state = "consumed"]
      /\ UNCHANGED <<tail, releasing, getCursor, getlock, status, inflight, prevented, pc, puts,
                     woken, todo, cons, pos, batch, left, met, short>>
  BY DEF AcknowledgeInTran, scanVars
<1>2. node[n0].state = "delivered" /\ lock[n0] = NoThread
  BY <1>1 DEF MessagesHeld
<1>3. "consumed" \in States
  BY DEF States
<1>4. /\ node' \in [Nodes -> [state : States, msg : BOOLEAN]]
      /\ \A n \in Nodes : node'[n].msg = node[n].msg
      /\ node'[n0].state = "consumed" /\ \A n \in Nodes \ {n0} : node'[n] = node[n]
  BY <1>1, <1>3, NodeState
<1>5. \A u \in Threads : n0 \notin Holds(u)
  BY <1>2, Parameters DEF LocksHeld
<1>6. n0 \notin ToSet(puts[t]) /\ n0 \notin ToSet(acks[t]) /\ t \notin releasing
  BY <1>1, <1>5 DEF LocksHeld, Holds
<1>7. /\ Append(acks[t], n0) \in Seq(Nodes)
      /\ ToSet(Append(acks[t], n0)) = ToSet(acks[t]) \union {n0}
      /\ Injective(acks[t]) => Injective(Append(acks[t], n0))
  BY <1>6, SeqNodes, ToSetAppend
<1>8. /\ \A n \in Nodes : lock'[n] = IF n = n0 THEN t ELSE lock[n]
      /\ \A u \in Threads : acks'[u] = IF u = t THEN Append(acks[t], n0) ELSE acks[u]
  BY <1>1 DEF TypeOK
<1>9. TypeOK'
  <2>1. acks' \in [Threads -> Seq(Nodes)] /\ lock' \in [Nodes -> Threads \union {NoThread}]
    BY <1>1, <1>7 DEF TypeOK
  <2>2. node' \in [Nodes -> [state : {"available", "delivered", "consumed"}, msg : BOOLEAN]]
    BY <1>4 DEF States
  <2> QED
    BY <1>1, <2>1, <2>2 DEF TypeOK
<1>10. GetLockHeld' /\ BatchesInOrder'
  BY <1>1 DEF GetLockHeld, BatchesInOrder
<1>11. NodesAhead'
  <2>1. \A n \in Nodes : n > tail' => n # n0
    BY <1>1, <1>2 DEF NodesAhead
  <2> QED
    BY <1>1, <1>4, <1>8, <2>1 DEF NodesAhead
<1>12. MessagesHeld'
  <2>1. \A u \in Threads : Carried(u)' = Carried(u) /\ Carried(u) \subseteq Nodes
    BY <1>1, CarriedFrame, CarriedNodes
  <2>2. \A u \in Threads : n0 \notin Carried(u)
    BY <1>1 DEF MessagesHeld
  <2>3. out \subseteq Nodes
    BY DEF TypeOK
  <2> QED
    BY <1>1, <1>4, <1>8, <2>1, <2>2, <2>3 DEF MessagesHeld
<1>13. LocksHeld'
  <2>1. \A u \in Threads : Holds(u)' = IF u = t THEN Holds(u) \union {n0} ELSE Holds(u)
    <3>1. Holds(t)' = ToSet(puts[t]) \union ToSet(acks'[t]) /\ Holds(t) = ToSet(puts[t]) \union ToSet(acks[t])
      BY <1>1 DEF Holds
    <3>2. Holds(t)' = Holds(t) \union {n0}
      BY <1>7, <1>8, <3>1
    <3>3. \A u \in Threads \ {t} : Holds(u)' = Holds(u)
      BY <1>1, <1>8 DEF Holds
    <3> QED
      BY <3>2, <3>3
  <2>2. \A u \in Threads : \A n \in Nodes : lock'[n] = u <=> n \in Holds(u)'
    BY <1>2, <1>5, <1>8, <2>1, Parameters DEF LocksHeld
  <2>3. \A u \in Threads : /\ Injective(puts'[u]) /\ Injective(acks'[u])
                           /\ ToSet(puts'[u]) \cap ToSet(acks'[u]) = {}
    BY <1>1, <1>6, <1>7, <1>8 DEF LocksHeld
  <2>4. ASSUME NEW u \in Threads \ releasing', NEW n \in ToSet(acks'[u])
        PROVE  node'[n].state = "consumed"
    <3>1. CASE n = n0
      BY <1>4, <3>1
    <3>2. CASE n # n0
      <4>1. n \in ToSet(acks[u]) /\ u \notin releasing /\ n \in Nodes
        BY <1>1, <1>7, <1>8, <2>4, <3>2, SeqNodes
      <4> QED
        BY <1>4, <3>2, <4>1 DEF LocksHeld
    <3> QED
      BY <3>1, <3>2
  <2> QED
    BY <1>1, <2>2, <2>3, <2>4 DEF LocksHeld
<1>14. InflightCounted'
  <2>1. ToSet(acks'[t]) = ToSet(acks[t]) \union {n0} /\ \A u \in Threads \ {t} : acks'[u] = acks[u]
    BY <1>7, <1>8
  <2>2. InFlight' = InFlight
    BY <1>1, <1>6, <2>1 DEF InFlight
  <2> QED
    BY <1>1, <2>2 DEF InflightCounted
<1>15. NothingPassed'
  <2>1. \A n \in Nodes : Reached(n) => Reached(n)'
    BY <1>1 DEF Reached
  <2>2. \A u \in Threads : AboutToRewind(u)' = AboutToRewind(u)
    BY <1>1 DEF AboutToRewind
  <2>3. \A n \in Nodes : node'[n].state = "available" => n # n0
    BY <1>4
  <2> QED
    BY <1>1, <1>4, <1>8, <2>1, <2>2, <2>3 DEF NothingPassed
<1> QED
  BY <1>9, <1>10, <1>11, <1>12, <1>13, <1>14, <1>15

LEMMA NackAvailableKeeps ==
    ASSUME NEW t \in Threads, NEW n0 \in Nodes, QueueInv, NackAvailable(t, n0)
    PROVE  QueueInv'
<1> USE DEF QueueInv
<1>1. /\ pc[t] = "idle" /\ n0 \in out /\ out' = out \ {n0} /\ inflight' = inflight - 1
      /\ node' = [node EXCEPT ![n0].state = "available"]
      /\ pos' = [pos EXCEPT ![t] = n0] /\ pc' = [pc EXCEPT ![t] = "nack"]
      /\ UNCHANGED <<tail, lock, releasing, getCursor, getlock, status, prevented, puts, acks, woken,
                     todo, cons, batch, left, met, short>>
  BY DEF NackAvailable, Goto, tranVars
<1>2. node[n0].state = "delivered" /\ lock[n0] = NoThread
  BY <1>1 DEF MessagesHeld
<1>3. "available" \in States
  BY DEF States
<1>4. /\ node' \in [Nodes -> [state : States, msg : BOOLEAN]]
      /\ \A n \in Nodes : node'[n].msg = node[n].msg
      /\ node'[n0].state = "available" /\ \A n \in Nodes \ {n0} : node'[n] = node[n]
  BY <1>1, <1>3, NodeState
<1>5. /\ \A u \in Threads : pc'[u] = IF u = t THEN "nack" ELSE pc[u]
      /\ \A u \in Threads : pos'[u] = IF u = t THEN n0 ELSE pos[u]
  BY <1>1 DEF TypeOK
<1>6. n0 \in 1..tail
  BY <1>2, Parameters DEF NodesAhead, TypeOK
<1>7. InflightCounted' /\ inflight' \in 0..MaxMsgs
  <2>1. \A u \in Threads \ releasing : n0 \notin ToSet(puts[u]) \union ToSet(acks[u])
    BY <1>2, Parameters DEF LocksHeld, Holds
  <2>2. InFlight' = InFlight \ {n0} /\ n0 \in InFlight
    BY <1>1, <2>1 DEF InFlight
  <2>3. Cardinality(InFlight \ {n0}) = Cardinality(InFlight) - 1
    BY <2>2, InFlightNodes, FS_RemoveElement
  <2>4. InFlight \ {n0} \subseteq 1..MaxMsgs
    BY InFlightNodes
  <2>5. Cardinality(InFlight \ {n0}) \in 0..MaxMsgs
    BY <2>4, CountBound
  <2> QED
    BY <1>1, <2>2, <2>3, <2>5 DEF InflightCounted
<1>8. TypeOK'
  <2>1. node' \in [Nodes -> [state : {"available", "delivered", "consumed"}, msg : BOOLEAN]]
    BY <1>4 DEF States
  <2>2. pos' \in [Threads -> 0..(MaxMsgs + 1)]
    BY <1>1, Parameters DEF TypeOK
  <2> QED
    BY <1>1, <1>7, <2>1, <2>2 DEF TypeOK
<1>9. GetLockHeld'
  <2>1. getCursor' \in Nodes \union {Searching} /\ getCursor' <= getCursor
    BY <1>1, Parameters, SMTT(60) DEF TypeOK
  <2>2. pc[t] \notin LocatePcs /\ "nack" \notin LocatePcs
    BY <1>1 DEF LocatePcs
  <2> QED
    BY <1>1, <1>5, <2>1, <2>2, GetLockFrame
<1>10. NodesAhead'
  <2>1. \A n \in Nodes : n > tail' => n # n0
    BY <1>1, <1>2 DEF NodesAhead
  <2> QED
    BY <1>1, <1>4, <1>5, <1>6, <2>1 DEF NodesAhead
<1>11. MessagesHeld'
  <2>1. \A u \in Threads : Carried(u)' = Carried(u) /\ Carried(u) \subseteq Nodes
    BY <1>1, <1>5, CarriedFrame, CarriedNodes
  <2>2. \A u \in Threads : n0 \notin Carried(u)
    BY <1>1 DEF MessagesHeld
  <2>3. out \subseteq Nodes
    BY DEF TypeOK
  <2> QED
    BY <1>1, <1>4, <2>1, <2>2, <2>3 DEF MessagesHeld
<1>12. BatchesInOrder'
  BY <1>1, <1>5 DEF BatchesInOrder
<1>13. LocksHeld'
  BY <1>1, <1>2, <1>4, LocksFrame
<1>14. NothingPassed'
  <2>1. \A n \in Nodes : Reached(n) => Reached(n)'
    BY <1>1, <1>5 DEF Reached
  <2>2. \A u \in Threads \ {t} : AboutToRewind(u)' = AboutToRewind(u)
    BY <1>1, <1>5 DEF AboutToRewind
  <2>3. AboutToRewind(t)' = {n0} /\ AboutToRewind(t) = {}
    BY <1>1, <1>5 DEF AboutToRewind
  <2> SUFFICES ASSUME NEW n \in Nodes, node'[n].state = "available"
               PROVE  \/ Reached(n)'
                      \/ \E u \in Threads : n \in AboutToRewind(u)'
                      \/ node'[n].msg /\ lock'[n] \in Threads \ releasing'
                      \/ \E u \in Threads : lock'[n] = u /\ pc'[u] = "rewind" /\ n \in ToSet(todo'[u])
    BY DEF NothingPassed
  <2>4. CASE n = n0
    BY <2>3, <2>4
  <2>5. CASE n # n0
    <3>1. node'[n] = node[n]
      BY <1>4, <2>5
    <3> QED
      BY <1>1, <1>5, <2>1, <2>2, <2>3, <3>1 DEF NothingPassed
  <2> QED
    BY <2>4, <2>5
<1> QED
  BY <1>7, <1>8, <1>9, <1>10, <1>11, <1>12, <1>13, <1>14

LEMMA NackRewindKeeps ==
    ASSUME NEW t \in Threads, QueueInv, NackRewind(t)
    PROVE  QueueInv'
<1> USE DEF QueueInv
<1> DEFINE p == pos[t]
<1>1. /\ pc[t] = "nack" /\ getCursor' = Earlier(p, getCursor)
      /\ pos' = [pos EXCEPT ![t] = 0] /\ pc' = [pc EXCEPT ![t] = "check"]
      /\ UNCHANGED <<tail, node, lock, releasing, getlock, status, inflight, prevented, out,
                     puts, acks, woken, todo, cons, batch, left, met, short>>
  BY DEF NackRewind, Goto, tranVars
<1>2. /\ \A u \in Threads : pc'[u] = IF u = t THEN "check" ELSE pc[u]
      /\ \A u \in Threads \ {t} : pos'[u] = pos[u]
      /\ AboutToRewind(t) = {p}
  BY <1>1 DEF TypeOK, AboutToRewind
<1>3. p \in Nodes
  BY <1>1, Parameters DEF NodesAhead, TypeOK
<1> HIDE DEF p
<1>4. getCursor' \in Nodes \union {Searching} /\ getCursor' <= getCursor /\ getCursor' <= p
  BY <1>1, <1>3, Parameters DEF TypeOK, Earlier
<1>5. TypeOK'
  <2>1. pos' \in [Threads -> 0..(MaxMsgs + 1)]
    BY <1>1, Parameters DEF TypeOK
  <2> QED
    BY <1>1, <1>4, <2>1 DEF TypeOK
<1>6. GetLockHeld'
  <2>1. pc[t] \notin LocatePcs /\ "check" \notin LocatePcs
    BY <1>1 DEF LocatePcs
  <2> QED
    BY <1>1, <1>2, <1>4, <2>1, GetLockFrame
<1>7. NodesAhead' /\ BatchesInOrder'
  BY <1>1, <1>2 DEF NodesAhead, BatchesInOrder
<1>8. MessagesHeld'
  <2>1. \A u \in Threads : Carried(u)' = Carried(u) /\ Carried(u) \subseteq Nodes
    BY <1>1, <1>2, CarriedFrame, CarriedNodes
  <2> QED
    BY <1>1, <2>1, HeldFrame DEF MessagesHeld
<1>9. LocksHeld'
  BY <1>1, LocksFrame
<1>10. InflightCounted'
  BY <1>1, InflightFrame
<1>11. NothingPassed'
  <2>1. \A n \in Nodes : Reached(n) \/ p <= n => Reached(n)'
    BY <1>1, <1>2, <1>3, <1>4, Parameters DEF Reached, TypeOK
  <2>2. \A u \in Threads \ {t} : AboutToRewind(u)' = AboutToRewind(u)
    BY <1>1, <1>2 DEF AboutToRewind
  <2>3. \A n \in Nodes : n \in AboutToRewind(t) => Reached(n)'
    BY <1>2, <1>3, <2>1, Parameters
  <2>4. \A u \in Threads : pc[u] = "rewind" => pc'[u] = "rewind" /\ todo'[u] = todo[u]
    BY <1>1, <1>2
  <2> QED
    BY <1>1, <1>2, <2>1, <2>2, <2>3, <2>4, PassedFrame
<1> QED
  BY <1>5, <1>6, <1>7, <1>8, <1>9, <1>10, <1>11

LEMMA EnableWaiterKeeps ==
    ASSUME NEW t \in Threads, NEW c \in Consumers, QueueInv, EnableWaiter(t, c)
    PROVE  QueueInv'
<1> USE DEF QueueInv
<1>1. TypeOK'
  BY DEF EnableWaiter, Goto, TypeOK, tranVars, scanVars
<1>2. pc' = [pc EXCEPT ![t] = "check"] /\ "check" \in PlainPcs /\ pc[t] \in PlainPcs
  BY DEF EnableWaiter, Goto, PlainPcs
<1> QED
  BY <1>1, <1>2, PlainStep DEF EnableWaiter, tranVars, scanVars

-----------------------------------------------------------------------------
(* Locating a message.                                                      *)

LEMMA GetLockOwner ==
    ASSUME NEW t \in Threads, QueueInv, pc[t] \in LocatePcs
    PROVE  /\ getlock = t /\ pos[t] \in Nodes
           /\ \A u \in Threads \ {t} : pc[u] \notin LocatePcs
           /\ \A n \in Nodes : Reached(n) <=> getCursor <= n \/ (pc[t] \in {"scan", "keep"} /\ pos[t] <= n)
BY DEF QueueInv, GetLockHeld, Reached, LocatePcs

LEMMA TakeGetLockKeeps ==
    ASSUME NEW t \in Threads, QueueInv, TakeGetLock(t)
    PROVE  QueueInv'
<1> USE DEF QueueInv
<1>1. /\ pc[t] = "lock" /\ getlock = NoThread /\ getlock' = t
      /\ pos' = [pos EXCEPT ![t] = getCursor] /\ pc' = [pc EXCEPT ![t] = "mark"]
      /\ UNCHANGED <<tail, node, lock, releasing, getCursor, status, inflight, prevented, out,
                     puts, acks, woken, todo, cons, batch, left, met, short>>
  BY DEF TakeGetLock, Goto, tranVars
<1>2. /\ \A u \in Threads : pc'[u] = IF u = t THEN "mark" ELSE pc[u]
      /\ \A u \in Threads : pos'[u] = IF u = t THEN getCursor ELSE pos[u]
  BY <1>1 DEF TypeOK
<1>3. \A u \in Threads : pc[u] \notin LocatePcs
  BY <1>1, Parameters DEF GetLockHeld
<1>4. getCursor \in Nodes
  BY <1>3 DEF GetLockHeld, TypeOK, LocatePcs
<1>5. TypeOK'
  <2>1. pos' \in [Threads -> 0..(MaxMsgs + 1)]
    BY <1>1, <1>4, Parameters DEF TypeOK
  <2> QED
    BY <1>1, <2>1 DEF TypeOK, GetPcs
<1>6. GetLockHeld'
  <2>1. getCursor <= getCursor
    BY <1>4, Parameters
  <2>2. getCursor' # Searching
    BY <1>1, <1>4, Parameters
  <2>3. \A u \in Threads : pc'[u] \in LocatePcs <=> u = t
    BY <1>2, <1>3 DEF LocatePcs
  <2>4. \A u \in Threads : pc'[u] \in {"mark", "cas"} => u = t
    BY <2>3 DEF LocatePcs
  <2> QED
    BY <1>1, <1>2, <1>4, <2>1, <2>2, <2>3, <2>4 DEF GetLockHeld
<1>7. NodesAhead' /\ BatchesInOrder'
  BY <1>1, <1>2 DEF NodesAhead, BatchesInOrder
<1>8. MessagesHeld'
  <2>1. \A u \in Threads : Carried(u)' = Carried(u) /\ Carried(u) \subseteq Nodes
    BY <1>1, <1>2, CarriedFrame, CarriedNodes
  <2> QED
    BY <1>1, <2>1, HeldFrame DEF MessagesHeld
<1>9. LocksHeld'
  BY <1>1, LocksFrame
<1>10. InflightCounted'
  BY <1>1, InflightFrame
<1>11. NothingPassed'
  <2>1. \A n \in Nodes : Reached(n) => Reached(n)'
    BY <1>1, <1>2 DEF Reached
  <2>2. \A u \in Threads : AboutToRewind(u)' = AboutToRewind(u)
    BY <1>1, <1>2 DEF AboutToRewind
  <2>3. \A u \in Threads : pc[u] = "rewind" => pc'[u] = "rewind" /\ todo'[u] = todo[u]
    BY <1>1, <1>2
  <2> QED
    BY <1>1, <1>2, <2>1, <2>2, <2>3, PassedFrame
<1> QED
  BY <1>5, <1>6, <1>7, <1>8, <1>9, <1>10, <1>11

\* The getter marks the message it is at and will see whether it may keep it.
LEMMA MarkStep ==
    ASSUME NEW t \in Threads, QueueInv, pc[t] \in {"mark", "scan"}, MarkDelivered(t),
           UNCHANGED <<tail, lock, releasing, getCursor, status, inflight, prevented, out, tranVars,
                       todo, cons, batch, left, met>>
    PROVE  QueueInv'
<1> USE DEF QueueInv
<1> DEFINE p == pos[t]
<1>1. /\ node[p].state = "available" /\ node[p].msg /\ lock[p] = NoThread
      /\ node' = [node EXCEPT ![p].state = "delivered"] /\ pc' = [pc EXCEPT ![t] = "keep"]
      /\ UNCHANGED <<tail, lock, releasing, getCursor, getlock, status, inflight, prevented, out,
                     puts, acks, woken, todo, cons, pos, batch, left, met, short>>
  BY DEF MarkDelivered, Gettable, Present, Goto, tranVars
<1>2. p \in Nodes /\ getlock = t /\ pc[t] \in LocatePcs /\ "delivered" \in States
  BY GetLockOwner DEF LocatePcs, States
<1>3. /\ node' \in [Nodes -> [state : States, msg : BOOLEAN]]
      /\ \A n \in Nodes : node'[n].msg = node[n].msg
      /\ node'[p].state = "delivered" /\ \A n \in Nodes \ {p} : node'[n] = node[n]
  BY <1>1, <1>2, NodeState
<1>4. \A u \in Threads : pc'[u] = IF u = t THEN "keep" ELSE pc[u]
  BY <1>1 DEF TypeOK
<1>5. \A u \in Threads : p \notin Carried(u)
  BY <1>1 DEF MessagesHeld
<1>6. p \notin out
  BY <1>1 DEF MessagesHeld
<1>7. p \notin ToSet(batch[t])
  BY <1>5 DEF Carried, InHand
<1>8. TypeOK'
  <2>1. node' \in [Nodes -> [state : {"available", "delivered", "consumed"}, msg : BOOLEAN]]
    BY <1>3 DEF States
  <2> QED
    BY <1>1, <2>1 DEF TypeOK, GetPcs
<1>9. GetLockHeld'
  BY <1>1, <1>2, <1>4 DEF GetLockHeld, LocatePcs
<1>10. NodesAhead'
  <2>1. \A n \in Nodes : n > tail' => n # p
    BY <1>1 DEF NodesAhead
  <2> QED
    BY <1>1, <1>3, <1>4, <2>1 DEF NodesAhead
<1>11. MessagesHeld'
  <2>1. \A u \in Threads \ {t} : Carried(u)' = Carried(u)
    BY <1>1, <1>4, CarriedFrame
  <2>2. Carried(t)' = Carried(t) \union {p}
    BY <1>1, <1>4 DEF Carried, InHand
  <2>3. \A u \in Threads : Carried(u) \subseteq Nodes
    BY CarriedNodes
  <2>4. out \subseteq Nodes
    BY DEF TypeOK
  <2>5. \A u \in Threads : \A n \in Carried(u)' : node'[n].state = "delivered" /\ node'[n].msg /\ n \notin out'
    BY <1>1, <1>2, <1>3, <1>6, <2>1, <2>2, <2>3 DEF MessagesHeld
  <2>6. \A u, v \in Threads : u # v => Carried(u)' \cap Carried(v)' = {}
    BY <1>5, <2>1, <2>2 DEF MessagesHeld
  <2> QED
    BY <1>1, <1>3, <1>6, <2>4, <2>5, <2>6 DEF MessagesHeld
<1>12. BatchesInOrder'
  BY <1>1, <1>4, <1>7 DEF BatchesInOrder
<1>13. LocksHeld'
  BY <1>1, <1>3, LocksFrame
<1>14. InflightCounted'
  BY <1>1, InflightFrame
<1>15. NothingPassed'
  <2>1. \A n \in Nodes : Reached(n) => Reached(n)'
    BY <1>1, <1>4 DEF Reached
  <2>2. \A u \in Threads : AboutToRewind(u)' = AboutToRewind(u)
    BY <1>1, <1>4 DEF AboutToRewind
  <2>3. \A u \in Threads : pc[u] = "rewind" => pc'[u] = "rewind" /\ todo'[u] = todo[u]
    BY <1>1, <1>4
  <2>4. \A n \in Nodes : node'[n].state = "available" => node'[n] = node[n]
    BY <1>3
  <2> QED
    BY <1>1, <2>1, <2>2, <2>3, <2>4, PassedFrame
<1> QED
  BY <1>8, <1>9, <1>10, <1>11, <1>12, <1>13, <1>14, <1>15

\* The getter moves on: no message, lock or transaction changes.
LEMMA SearchStep ==
    ASSUME NEW t \in Threads, NEW l \in {"cas", "scan", "giveup"}, QueueInv, pc[t] \in {"mark", "cas", "scan"},
           pc' = [pc EXCEPT ![t] = l], TypeOK', GetLockHeld',
           \A u \in Threads \ {t} : pos'[u] = pos[u],
           UNCHANGED <<tail, node, lock, releasing, status, inflight, prevented, out, tranVars,
                       todo, cons, batch, left, met>>,
           \A n \in Nodes : node[n].state = "available" /\ Reached(n) =>
              Reached(n)' \/ (node[n].msg /\ lock[n] \in Threads \ releasing)
    PROVE  QueueInv'
<1> USE DEF QueueInv
<1>1. \A u \in Threads : pc'[u] = IF u = t THEN l ELSE pc[u]
  BY DEF TypeOK
<1>2. NodesAhead' /\ BatchesInOrder'
  BY <1>1 DEF NodesAhead, BatchesInOrder
<1>3. MessagesHeld'
  <2>1. \A u \in Threads : Carried(u)' = Carried(u) /\ Carried(u) \subseteq Nodes
    BY <1>1, CarriedFrame, CarriedNodes
  <2> QED
    BY <2>1, HeldFrame DEF MessagesHeld
<1>4. LocksHeld'
  BY LocksFrame DEF tranVars
<1>5. InflightCounted'
  BY InflightFrame DEF tranVars
<1>6. NothingPassed'
  <2>1. \A u \in Threads : AboutToRewind(u)' = AboutToRewind(u)
    BY <1>1 DEF AboutToRewind
  <2>2. \A u \in Threads : pc[u] = "rewind" => pc'[u] = "rewind"
    BY <1>1
  <2> QED
    BY <2>1, <2>2 DEF NothingPassed
<1> QED
  BY <1>2, <1>3, <1>4, <1>5, <1>6

LEMMA TryCursorKeeps ==
    ASSUME NEW t \in Threads, QueueInv, TryCursor(t)
    PROVE  QueueInv'
<1> USE DEF QueueInv
<1>1. /\ pc[t] = "mark"
      /\ UNCHANGED <<tail, lock, releasing, getCursor, status, inflight, prevented, out, tranVars,
                     todo, cons, batch, left, met>>
  BY DEF TryCursor
<1>2. /\ getlock = t /\ pos[t] \in Nodes /\ \A u \in Threads \ {t} : pc[u] \notin LocatePcs
      /\ \A n \in Nodes : Reached(n) <=> getCursor <= n
  BY <1>1, GetLockOwner DEF LocatePcs
<1>3. CASE MarkDelivered(t)
  BY <1>1, <1>3, MarkStep
<1>4. CASE Skipped(pos[t]) /\ Goto(t, "cas") /\ UNCHANGED <<node, getlock, pos, short>>
  <2>1. \A u \in Threads : pc'[u] = IF u = t THEN "cas" ELSE pc[u]
    BY <1>4 DEF TypeOK, Goto
  <2>2. TypeOK'
    BY <1>1, <1>4 DEF TypeOK, Goto, GetPcs, tranVars
  <2>3. GetLockHeld'
    BY <1>1, <1>2, <1>4, <2>1 DEF GetLockHeld, LocatePcs
  <2>4. \A n \in Nodes : Reached(n) => Reached(n)'
    BY <1>1, <1>2 DEF Reached
  <2> QED
    BY <1>1, <1>4, <2>2, <2>3, <2>4, SearchStep DEF Goto
<1>5. CASE AtEnd(pos[t]) /\ EndSearch(t) /\ UNCHANGED <<node, pos>>
  <2>1. \A u \in Threads : pc'[u] = IF u = t THEN "giveup" ELSE pc[u]
    BY <1>5 DEF TypeOK, Goto, EndSearch
  <2>2. TypeOK'
    <3>1. lock[pos[t]] # NoThread => pos[t] \in 0..MaxMsgs
      BY <1>2, Parameters DEF NodesAhead, TypeOK
    <3>2. short' \in 0..MaxMsgs
      BY <1>5, <3>1, Parameters DEF EndSearch
    <3> QED
      BY <1>1, <1>5, <3>2 DEF TypeOK, Goto, GetPcs, EndSearch, tranVars
  <2>3. GetLockHeld'
    <3>1. \A u \in Threads : pc'[u] \notin LocatePcs
      BY <1>2, <2>1 DEF LocatePcs
    <3>2. getCursor # Searching
      BY <1>1, <1>2 DEF GetLockHeld, LocatePcs
    <3> QED
      BY <1>1, <1>5, <3>1, <3>2, Parameters DEF GetLockHeld, LocatePcs, EndSearch
  <2>4. \A n \in Nodes : Reached(n) => Reached(n)'
    BY <1>1, <1>2 DEF Reached
  <2> QED
    BY <1>1, <1>5, <2>2, <2>3, <2>4, SearchStep DEF Goto, EndSearch
<1> QED
  BY <1>3, <1>4, <1>5 DEF TryCursor

LEMMA SetSearchingKeeps ==
    ASSUME NEW t \in Threads, QueueInv, SetSearching(t)
    PROVE  QueueInv'
<1> USE DEF QueueInv
<1>1. /\ pc[t] = "cas"
      /\ UNCHANGED <<tail, node, lock, releasing, status, inflight, prevented, out, tranVars, todo,
                     cons, pos, batch, left, met, short>>
  BY DEF SetSearching, scanVars
<1>2. /\ getlock = t /\ pos[t] \in Nodes /\ \A u \in Threads \ {t} : pc[u] \notin LocatePcs
      /\ \A n \in Nodes : Reached(n) <=> getCursor <= n
  BY <1>1, GetLockOwner DEF LocatePcs
<1>3. CASE getCursor = pos[t]
  <2>1. getCursor' = Searching /\ pc' = [pc EXCEPT ![t] = "scan"] /\ getlock' = getlock
    BY <1>3 DEF SetSearching, Goto
  <2>2. \A u \in Threads : pc'[u] = IF u = t THEN "scan" ELSE pc[u]
    BY <2>1 DEF TypeOK
  <2>3. TypeOK'
    BY <1>1, <2>1 DEF TypeOK, GetPcs, tranVars
  <2>4. GetLockHeld'
    <3>1. \A u \in Threads : pc'[u] \notin {"mark", "cas"}
      BY <1>2, <2>2 DEF LocatePcs
    <3> QED
      BY <1>1, <1>2, <2>1, <2>2, <3>1 DEF GetLockHeld, LocatePcs
  <2>5. \A n \in Nodes : Reached(n) => Reached(n)'
    BY <1>1, <1>2, <1>3, <2>2 DEF Reached
  <2> QED
    BY <1>1, <2>1, <2>3, <2>4, <2>5, SearchStep
<1>4. CASE getCursor # pos[t]
  <2>1. getlock' = NoThread /\ pc' = [pc EXCEPT ![t] = "giveup"] /\ getCursor' = getCursor
    BY <1>4 DEF SetSearching, Goto
  <2>2. \A u \in Threads : pc'[u] = IF u = t THEN "giveup" ELSE pc[u]
    BY <2>1 DEF TypeOK
  <2>3. TypeOK'
    BY <1>1, <2>1 DEF TypeOK, GetPcs, tranVars
  <2>4. GetLockHeld'
    <3>1. \A u \in Threads : pc'[u] \notin LocatePcs
      BY <1>2, <2>2 DEF LocatePcs
    <3>2. getCursor # Searching
      BY <1>1, <1>2 DEF GetLockHeld, LocatePcs
    <3> QED
      BY <1>1, <2>1, <3>1, <3>2, Parameters DEF GetLockHeld, LocatePcs
  <2>5. \A n \in Nodes : Reached(n) => Reached(n)'
    BY <1>2, <2>1 DEF Reached
  <2> QED
    BY <1>1, <2>1, <2>3, <2>4, <2>5, SearchStep
<1> QED
  BY <1>3, <1>4

LEMMA ScanForwardKeeps ==
    ASSUME NEW t \in Threads, QueueInv, ScanForward(t)
    PROVE  QueueInv'
<1> USE DEF QueueInv
<1> DEFINE p == pos[t]
<1>1. /\ pc[t] = "scan"
      /\ UNCHANGED <<tail, lock, releasing, status, inflight, prevented, out, tranVars,
                     todo, cons, batch, left, met>>
  BY DEF ScanForward
<1>2. /\ getlock = t /\ p \in Nodes /\ \A u \in Threads \ {t} : pc[u] \notin LocatePcs
      /\ \A n \in Nodes : Reached(n) <=> getCursor <= n \/ p <= n
  BY <1>1, GetLockOwner DEF LocatePcs
<1>3. CASE MarkDelivered(t) /\ UNCHANGED getCursor
  BY <1>1, <1>3, MarkStep
<1>4. CASE Skipped(p) /\ pos' = [pos EXCEPT ![t] = p + 1] /\ UNCHANGED <<node, getlock, getCursor, pc, short>>
  <2>1. p <= tail /\ p + 1 \in Nodes
    BY <1>2, <1>4, Parameters DEF Skipped, AtEnd, NodesAhead, TypeOK
  <2>2. \A u \in Threads : pos'[u] = IF u = t THEN p + 1 ELSE pos[u]
    BY <1>4 DEF TypeOK
  <2>3. TypeOK'
    <3>1. pos' \in [Threads -> 0..(MaxMsgs + 1)]
      BY <1>4, <2>1, Parameters DEF TypeOK
    <3> QED
      BY <1>1, <1>4, <3>1 DEF TypeOK, tranVars
  <2>4. GetLockHeld'
    <3>1. \A u \in Threads : pc[u] \notin {"mark", "cas"}
      BY <1>1, <1>2 DEF LocatePcs
    <3> QED
      BY <1>2, <1>4, <2>1, <2>2, <3>1 DEF GetLockHeld
  <2>5. ASSUME NEW n \in Nodes, node[n].state = "available", Reached(n)
        PROVE  Reached(n)' \/ (node[n].msg /\ lock[n] \in Threads \ releasing)
    <3>1. CASE n = p
      BY <1>4, <2>5, <3>1 DEF Skipped, AtEnd, Present, TypeOK
    <3>2. CASE getCursor <= n
      BY <1>4, <3>2 DEF Reached
    <3>3. CASE p <= n /\ n # p
      <4>1. p + 1 <= n
        BY <1>2, <3>3, Parameters
      <4> QED
        BY <1>1, <1>4, <2>2, <4>1 DEF Reached
    <3> QED
      BY <1>2, <2>5, <3>1, <3>2, <3>3
  <2>6. pc' = [pc EXCEPT ![t] = "scan"]
    BY <1>1, <1>4 DEF TypeOK
  <2> QED
    BY <1>1, <1>4, <2>2, <2>3, <2>4, <2>5, <2>6, SearchStep
<1>5. CASE AtEnd(p) /\ UpdateGetCursor(p, p) /\ EndSearch(t) /\ UNCHANGED <<node, pos>>
  <2>1. \A u \in Threads : pc'[u] = IF u = t THEN "giveup" ELSE pc[u]
    BY <1>5 DEF TypeOK, Goto, EndSearch
  <2>2. getCursor' \in Nodes /\ \A n \in Nodes : Reached(n) => getCursor' <= n
    <3>1. getCursor' = IF p <= getCursor THEN p ELSE getCursor
      BY <1>5 DEF UpdateGetCursor
    <3> QED
      BY <1>2, <3>1, Parameters DEF TypeOK
  <2>3. TypeOK'
    <3>1. lock[p] # NoThread => p \in 0..MaxMsgs
      BY <1>2, Parameters DEF NodesAhead, TypeOK
    <3>2. short' \in 0..MaxMsgs
      BY <1>5, <3>1, Parameters DEF EndSearch
    <3> QED
      BY <1>1, <1>5, <2>2, <3>2 DEF TypeOK, Goto, GetPcs, EndSearch, tranVars
  <2>4. GetLockHeld'
    <3>1. \A u \in Threads : pc'[u] \notin LocatePcs
      BY <1>2, <2>1 DEF LocatePcs
    <3> QED
      BY <1>1, <1>5, <2>2, <3>1, Parameters DEF GetLockHeld, LocatePcs, EndSearch
  <2>5. \A n \in Nodes : Reached(n) => Reached(n)'
    BY <2>2 DEF Reached
  <2> QED
    BY <1>1, <1>5, <2>3, <2>4, <2>5, SearchStep DEF Goto, EndSearch
<1> QED
  BY <1>3, <1>4, <1>5 DEF ScanForward

\* A getter that finds the cursor before its message has been overtaken by a
\* rewind; if not, all that could be got lies behind its message.
LEMMA KeepOrReturnKeeps ==
    ASSUME NEW t \in Threads, QueueInv, KeepOrReturn(t)
    PROVE  QueueInv'
<1> USE DEF QueueInv
<1> DEFINE p == pos[t]
<1>1. /\ pc[t] = "keep" /\ getCursor' = (IF p <= getCursor THEN p + 1 ELSE getCursor)
      /\ getlock' = NoThread /\ pos' = [pos EXCEPT ![t] = 0]
      /\ UNCHANGED <<tail, lock, releasing, inflight, prevented, out, puts, acks, woken, todo,
                     left, met, short>>
  BY DEF KeepOrReturn, UpdateGetCursor, tranVars
<1>2. /\ getlock = t /\ p \in Nodes /\ \A u \in Threads \ {t} : pc[u] \notin LocatePcs
      /\ \A n \in Nodes : Reached(n) <=> getCursor <= n \/ p <= n
  BY <1>1, GetLockOwner DEF LocatePcs
<1>3. /\ p \in Carried(t) /\ p \notin ToSet(batch[t]) /\ node[p].state = "delivered"
      /\ lock[p] = NoThread /\ p <= tail
  BY <1>1, <1>2, Parameters DEF Carried, MessagesHeld, BatchesInOrder, NodesAhead, TypeOK
<1>4. \A u \in Threads \ {t} : pos'[u] = pos[u]
  BY <1>1
<1>5. getCursor' \in Nodes
  BY <1>1, <1>2, <1>3, Parameters DEF TypeOK
<1>6. pos' \in [Threads -> 0..(MaxMsgs + 1)]
  BY <1>1, Parameters DEF TypeOK
<1>7. Carried(t) = ToSet(batch[t]) \union {p} /\ InHand(t) = ToSet(batch[t])
  BY <1>1 DEF Carried, InHand
<1>8. \A u \in Threads \ {t} : p \notin Carried(u)
  BY <1>3 DEF MessagesHeld
<1>9. \A u \in Threads : Carried(u) \subseteq Nodes
  BY CarriedNodes
<1>10. out \subseteq Nodes
  BY DEF TypeOK
<1>11. InflightCounted'
  BY <1>1, InflightFrame
<1>12. CASE Kept(t)
  <2> DEFINE b == Append(batch[t], p)
             l == IF Len(b) < BatchSize THEN "lock" ELSE "deliver"
  <2>1. /\ batch' = [batch EXCEPT ![t] = b] /\ status' = [status EXCEPT ![cons[t]] = "delivering"]
        /\ pc' = [pc EXCEPT ![t] = l] /\ UNCHANGED <<node, cons>>
        /\ p <= getCursor
    <3>1. batch' = [batch EXCEPT ![t] = b] /\ batch'[t] = b
      BY <1>12 DEF KeepOrReturn, TypeOK
    <3> QED
      BY <1>12, <3>1 DEF KeepOrReturn, Goto, Kept
  <2>2. b \in Seq(Nodes) /\ ToSet(b) = ToSet(batch[t]) \union {p} /\ Injective(b) /\ b # << >>
    <3>1. batch[t] \in Seq(Nodes) /\ Injective(batch[t])
      BY SeqNodes DEF BatchesInOrder
    <3>2. b \in Seq(Nodes) /\ ToSet(b) = ToSet(batch[t]) \union {p} /\ Injective(b)
      BY <1>2, <1>3, <3>1, ToSetAppend
    <3>3. b # << >>
      BY <3>1
    <3> QED
      BY <3>2, <3>3
  <2>3. l \in {"lock", "deliver"}
    OBVIOUS
  <2> HIDE DEF b, l
  <2>4. /\ \A u \in Threads : pc'[u] = IF u = t THEN l ELSE pc[u]
        /\ \A u \in Threads : batch'[u] = IF u = t THEN b ELSE batch[u]
    BY <2>1 DEF TypeOK
  <2>5. TypeOK'
    <3>1. batch' \in [Threads -> Seq(Nodes)]
      BY <2>1, <2>2 DEF TypeOK
    <3>2. status' \in [Consumers -> {"disabled", "enabled", "getting", "delivering"}]
      BY <2>1 DEF TypeOK
    <3>3. pc' \in [Threads -> {"idle", "put", "tranput", "nack", "check", "full", "prevent",
                           "recheck", "allow", "exchange", "look",
                            "lock", "deliver", "undo", "undone", "startable"}
                           \union TranPcs \union GetPcs]
      BY <2>1, <2>3 DEF TypeOK
    <3> QED
      BY <1>1, <1>5, <1>6, <2>1, <3>1, <3>2, <3>3 DEF TypeOK
  <2>6. GetLockHeld'
    <3>1. \A u \in Threads : pc'[u] \notin LocatePcs
      BY <1>2, <2>3, <2>4 DEF LocatePcs
    <3> QED
      BY <1>1, <1>5, <3>1, Parameters DEF GetLockHeld, LocatePcs
  <2>7. NodesAhead'
    BY <1>1, <1>4, <2>1, <2>3, <2>4 DEF NodesAhead
  <2>8. MessagesHeld'
    <3>1. \A u \in Threads \ {t} : Carried(u)' = Carried(u)
      BY <1>4, <2>4, CarriedFrame
    <3>2. Carried(t)' = Carried(t)
      BY <1>7, <2>2, <2>3, <2>4 DEF Carried, InHand
    <3> QED
      BY <1>1, <1>9, <2>1, <3>1, <3>2, HeldFrame DEF MessagesHeld
  <2>9. BatchesInOrder'
    BY <1>4, <2>2, <2>3, <2>4 DEF BatchesInOrder
  <2>10. LocksHeld'
    BY <1>1, <2>1, <2>3, LocksFrame
  <2>11. NothingPassed'
    <3>1. \A n \in Nodes : node'[n].state = "available" /\ Reached(n) => Reached(n)'
      <4> SUFFICES ASSUME NEW n \in Nodes, n # p, Reached(n) PROVE getCursor' <= n
        BY <1>3, <2>1 DEF Reached
      <4> QED
        BY <1>1, <1>2, <2>1, Parameters DEF TypeOK
    <3>2. \A u \in Threads : AboutToRewind(u) \subseteq AboutToRewind(u)'
      BY <1>1, <1>4, <2>4 DEF AboutToRewind
    <3>3. \A u \in Threads : pc[u] = "rewind" => pc'[u] = "rewind" /\ todo'[u] = todo[u]
      BY <1>1, <2>4
    <3> QED
      BY <1>1, <2>1, <3>1, <3>2, <3>3, PassedFrame
  <2> QED
    BY <1>11, <2>5, <2>6, <2>7, <2>8, <2>9, <2>10, <2>11
<1>13. CASE ~Kept(t)
  <2>1. /\ node' = [node EXCEPT ![p].state = "available"] /\ batch' = batch /\ ~(p <= getCursor)
        /\ \/ /\ batch[t] = << >> /\ status' = [status EXCEPT ![cons[t]] = "enabled"]
              /\ cons' = [cons EXCEPT ![t] = NoThread] /\ pc' = [pc EXCEPT ![t] = "full"]
           \/ batch[t] # << >> /\ pc' = [pc EXCEPT ![t] = "deliver"] /\ UNCHANGED <<status, cons>>
    BY <1>13 DEF KeepOrReturn, Goto, Kept
  <2>2. PICK l \in {"full", "deliver"} :
           pc' = [pc EXCEPT ![t] = l] /\ (l = "deliver" => batch[t] # << >>)
    BY <2>1
  <2>3. "available" \in States
    BY DEF States
  <2>4. /\ node' \in [Nodes -> [state : States, msg : BOOLEAN]]
        /\ \A n \in Nodes : node'[n].msg = node[n].msg
        /\ node'[p].state = "available" /\ \A n \in Nodes \ {p} : node'[n] = node[n]
    BY <1>2, <2>1, <2>3, NodeState
  <2>5. \A u \in Threads : pc'[u] = IF u = t THEN l ELSE pc[u]
    BY <2>2 DEF TypeOK
  <2>6. TypeOK'
    <3>1. node' \in [Nodes -> [state : {"available", "delivered", "consumed"}, msg : BOOLEAN]]
      BY <2>4 DEF States
    <3>2. /\ status' \in [Consumers -> {"disabled", "enabled", "getting", "delivering"}]
          /\ cons' \in [Threads -> Consumers \union {NoThread}]
      <4>1. CASE batch[t] = << >>
        <5>1. status' = [status EXCEPT ![cons[t]] = "enabled"] /\ cons' = [cons EXCEPT ![t] = NoThread]
          BY <2>1, <4>1
        <5> QED
          BY <5>1 DEF TypeOK
      <4>2. CASE batch[t] # << >>
        BY <2>1, <4>2 DEF TypeOK
      <4> QED
        BY <4>1, <4>2
    <3> QED
      BY <1>1, <1>5, <1>6, <2>1, <2>2, <3>1, <3>2 DEF TypeOK
  <2>7. GetLockHeld'
    <3>1. \A u \in Threads : pc'[u] \notin LocatePcs
      BY <1>2, <2>5 DEF LocatePcs
    <3> QED
      BY <1>1, <1>5, <3>1, Parameters DEF GetLockHeld, LocatePcs
  <2>8. NodesAhead'
    <3>1. \A n \in Nodes : n > tail' => n # p
      BY <1>1, <1>2, <1>3, Parameters DEF TypeOK
    <3> QED
      BY <1>1, <1>4, <2>4, <2>5, <3>1 DEF NodesAhead
  <2>9. MessagesHeld'
    <3>1. \A u \in Threads \ {t} : Carried(u)' = Carried(u)
      BY <1>4, <2>1, <2>5, CarriedFrame
    <3>2. Carried(t)' = ToSet(batch[t])
      BY <2>1, <2>5 DEF Carried, InHand
    <3>3. \A u \in Threads : Carried(u)' \subseteq Carried(u) /\ p \notin Carried(u)'
      BY <1>3, <1>7, <1>8, <3>1, <3>2
    <3>4. p \notin out
      BY <1>3 DEF MessagesHeld
    <3>5. \A u \in Threads : \A n \in Carried(u)' : node'[n].state = "delivered" /\ node'[n].msg /\ n \notin out'
      BY <1>1, <1>9, <2>4, <3>3 DEF MessagesHeld
    <3>6. \A u, v \in Threads : u # v => Carried(u)' \cap Carried(v)' = {}
      BY <3>3 DEF MessagesHeld
    <3> QED
      BY <1>1, <1>10, <2>4, <3>4, <3>5, <3>6 DEF MessagesHeld
  <2>10. BatchesInOrder'
    BY <1>4, <2>1, <2>2, <2>5 DEF BatchesInOrder
  <2>11. LocksHeld'
    BY <1>1, <2>2, <2>4, <1>3, LocksFrame
  <2>12. NothingPassed'
    <3>1. \A n \in Nodes : Reached(n) => Reached(n)'
      <4> SUFFICES ASSUME NEW n \in Nodes, Reached(n) PROVE getCursor' <= n
        BY DEF Reached
      <4>1. getCursor \in Nat /\ p \in Nat /\ n \in Nat
        BY <1>2, Parameters DEF TypeOK
      <4>2. getCursor' = getCursor /\ (getCursor <= n \/ p <= n)
        BY <1>1, <1>2, <2>1
      <4> QED
        BY <2>1, <4>1, <4>2
    <3>2. \A u \in Threads : AboutToRewind(u) \subseteq AboutToRewind(u)'
      BY <1>1, <1>4, <2>1, <2>5 DEF AboutToRewind
    <3>3. \A u \in Threads : pc[u] = "rewind" => pc'[u] = "rewind" /\ todo'[u] = todo[u]
      BY <1>1, <2>5
    <3> SUFFICES ASSUME NEW n \in Nodes, node'[n].state = "available"
                 PROVE  \/ Reached(n)'
                        \/ \E u \in Threads : n \in AboutToRewind(u)'
                        \/ node'[n].msg /\ lock'[n] \in Threads \ releasing'
                        \/ \E u \in Threads : lock'[n] = u /\ pc'[u] = "rewind" /\ n \in ToSet(todo'[u])
      BY DEF NothingPassed
    <3>4. CASE n = p
      BY <1>2, <3>1, <3>4, Parameters
    <3>5. CASE n # p
      BY <1>1, <2>4, <3>1, <3>2, <3>3, <3>5 DEF NothingPassed
    <3> QED
      BY <3>4, <3>5
  <2> QED
    BY <1>11, <2>6, <2>7, <2>8, <2>9, <2>10, <2>11, <2>12
<1> QED
  BY <1>12, <1>13

LEMMA GiveUpKeeps ==
    ASSUME NEW t \in Threads, QueueInv, GiveUp(t)
    PROVE  QueueInv'
<1> USE DEF QueueInv
<1>1. /\ pc[t] = "giveup" /\ pos' = [pos EXCEPT ![t] = 0]
      /\ UNCHANGED <<tail, node, lock, releasing, getCursor, getlock, inflight, prevented, out,
                     puts, acks, woken, todo, batch, left, met, short>>
  BY DEF GiveUp, tranVars
<1>2. pos' \in [Threads -> 0..(MaxMsgs + 1)] /\ \A u \in Threads \ {t} : pos'[u] = pos[u]
  BY <1>1, Parameters DEF TypeOK
<1>3. CASE batch[t] = << >>
  <2>1. /\ status' = [status EXCEPT ![cons[t]] = "enabled"]
        /\ cons' = [cons EXCEPT ![t] = NoThread] /\ pc' = [pc EXCEPT ![t] = "idle"]
    BY <1>3 DEF GiveUp, Goto
  <2>2. TypeOK'
    BY <1>1, <1>2, <2>1 DEF TypeOK
  <2>3. pc[t] \in PlainPcs /\ "idle" \in PlainPcs
    BY <1>1 DEF PlainPcs
  <2> QED
    BY <1>1, <1>2, <2>1, <2>2, <2>3, PlainStep
<1>4. CASE batch[t] # << >>
  <2>1. pc' = [pc EXCEPT ![t] = "deliver"] /\ UNCHANGED <<status, cons>>
    BY <1>4 DEF GiveUp, Goto
  <2>2. \A u \in Threads : pc'[u] = IF u = t THEN "deliver" ELSE pc[u]
    BY <2>1 DEF TypeOK
  <2>3. TypeOK'
    BY <1>1, <1>2, <2>1 DEF TypeOK
  <2>4. GetLockHeld'
    <3>1. getCursor' \in Nodes \union {Searching} /\ getCursor' <= getCursor
      BY <1>1, Parameters DEF TypeOK
    <3>2. pc[t] \notin LocatePcs /\ "deliver" \notin LocatePcs
      BY <1>1 DEF LocatePcs
    <3> QED
      BY <1>1, <1>2, <2>1, <3>1, <3>2, GetLockFrame
  <2>5. NodesAhead' /\ BatchesInOrder'
    BY <1>1, <1>2, <1>4, <2>2 DEF NodesAhead, BatchesInOrder
  <2>6. MessagesHeld'
    <3>1. \A u \in Threads : Carried(u)' = Carried(u) /\ Carried(u) \subseteq Nodes
      BY <1>1, <1>2, <2>2, CarriedFrame, CarriedNodes
    <3> QED
      BY <1>1, <3>1, HeldFrame DEF MessagesHeld
  <2>7. LocksHeld'
    BY <1>1, <2>1, LocksFrame
  <2>8. InflightCounted'
    BY <1>1, InflightFrame
  <2>9. NothingPassed'
    <3>1. \A n \in Nodes : Reached(n) => Reached(n)'
      BY <1>1, <1>2, <2>2 DEF Reached
    <3>2. \A u \in Threads : AboutToRewind(u) \subseteq AboutToRewind(u)'
      BY <1>1, <1>2, <2>2 DEF AboutToRewind
    <3>3. \A u \in Threads : pc[u] = "rewind" => pc'[u] = "rewind" /\ todo'[u] = todo[u]
      BY <1>1, <2>2
    <3> QED
      BY <1>1, <3>1, <3>2, <3>3, PassedFrame
  <2> QED
    BY <2>3, <2>4, <2>5, <2>6, <2>7, <2>8, <2>9
<1> QED
  BY <1>3, <1>4

-----------------------------------------------------------------------------
(* Delivering.                                                              *)

LEMMA DeliverMessageKeeps ==
    ASSUME NEW t \in Threads, NEW more \in BOOLEAN, QueueInv, DeliverMessage(t, more)
    PROVE  QueueInv'
<1> USE DEF QueueInv
<1> DEFINE h == Head(batch[t])
           b == Tail(batch[t])
<1>1. /\ pc[t] = "deliver" /\ out' = out \union {h} /\ inflight' = inflight + 1
      /\ batch' = [batch EXCEPT ![t] = b]
      /\ UNCHANGED <<tail, node, lock, releasing, getCursor, getlock, prevented, puts, acks, woken,
                     todo, pos, left, met, short>>
  BY DEF DeliverMessage, tranVars
<1>2. batch[t] # << >> /\ batch[t] \in Seq(Nodes) /\ Injective(batch[t])
  BY <1>1, SeqNodes DEF BatchesInOrder
<1>3. /\ h \in Nodes /\ h \in ToSet(batch[t]) /\ b \in Seq(Nodes) /\ ToSet(batch[t]) = ToSet(b) \union {h}
      /\ Injective(b) /\ h \notin ToSet(b)
  BY <1>2, ToSetTail
<1> HIDE DEF h, b
<1>4. \A u \in Threads : batch'[u] = IF u = t THEN b ELSE batch[u]
  BY <1>1 DEF TypeOK
<1>5. PICK l \in {"full", "deliver", "undo"} :
         /\ pc' = [pc EXCEPT ![t] = l] /\ (l \in {"deliver", "undo"} => b # << >>)
         /\ status' \in [Consumers -> {"disabled", "enabled", "getting", "delivering"}]
         /\ cons' \in [Threads -> Consumers \union {NoThread}]
  <2>1. CASE batch'[t] = << >>
    <3>1. PICK s \in {"enabled", "disabled"} : Release(t, s)
      BY <2>1 DEF DeliverMessage
    <3> QED
      BY <3>1 DEF Release, Goto, TypeOK
  <2>2. CASE batch'[t] # << >>
    <3>1. UNCHANGED <<status, cons>> /\ \E l \in {"deliver", "undo"} : pc' = [pc EXCEPT ![t] = l]
      BY <2>2 DEF DeliverMessage, Goto
    <3>2. b # << >>
      BY <1>4, <2>2
    <3> QED
      BY <3>1, <3>2 DEF TypeOK
  <2> QED
    BY <2>1, <2>2
<1>6. \A u \in Threads : pc'[u] = IF u = t THEN l ELSE pc[u]
  BY <1>5 DEF TypeOK
<1>7. h \in Carried(t) /\ node[h].state = "delivered" /\ node[h].msg /\ h \notin out /\ lock[h] = NoThread
  <2>1. h \in Carried(t)
    BY <1>1, <1>3 DEF Carried, InHand
  <2> QED
    BY <1>3, <2>1 DEF MessagesHeld
<1>8. InflightCounted' /\ inflight' \in 0..MaxMsgs
  <2>1. InFlight' = InFlight \union {h}
    BY <1>1 DEF InFlight
  <2>2. h \notin InFlight
    BY <1>7, <1>3, Parameters DEF InFlight, LocksHeld, Holds
  <2>3. Cardinality(InFlight \union {h}) = Cardinality(InFlight) + 1
    BY <2>2, InFlightNodes, FS_AddElement
  <2>4. h \in 1..MaxMsgs
    BY <1>3, <1>7, Parameters DEF NodesAhead, TypeOK
  <2>5. InFlight \union {h} \subseteq 1..MaxMsgs
    BY <2>4, InFlightNodes
  <2>6. Cardinality(InFlight \union {h}) \in 0..MaxMsgs
    BY <2>5, CountBound
  <2> QED
    BY <1>1, <2>1, <2>3, <2>6 DEF InflightCounted
<1>9. TypeOK'
  <2>1. batch' \in [Threads -> Seq(Nodes)] /\ out' \in SUBSET Nodes
    BY <1>1, <1>3 DEF TypeOK
  <2> QED
    BY <1>1, <1>5, <1>8, <2>1 DEF TypeOK
<1>10. GetLockHeld'
  <2>1. getCursor' \in Nodes \union {Searching} /\ getCursor' <= getCursor
    BY <1>1, Parameters DEF TypeOK
  <2>2. pc[t] \notin LocatePcs /\ l \notin LocatePcs
    BY <1>1 DEF LocatePcs
  <2> QED
    BY <1>1, <1>5, <2>1, <2>2, GetLockFrame
<1>11. NodesAhead'
  BY <1>1, <1>6 DEF NodesAhead
<1>12. MessagesHeld'
  <2>1. \A u \in Threads \ {t} : Carried(u)' = Carried(u)
    BY <1>1, <1>4, <1>6, CarriedFrame
  <2>2. Carried(t)' = ToSet(b) /\ Carried(t) = ToSet(batch[t])
    BY <1>1, <1>4, <1>6 DEF Carried, InHand
  <2>3. \A u \in Threads : Carried(u)' \subseteq Carried(u) /\ h \notin Carried(u)'
    BY <1>3, <1>7, <2>1, <2>2 DEF MessagesHeld
  <2>4. \A u \in Threads : \A n \in Carried(u)' : node'[n].state = "delivered" /\ node'[n].msg /\ n \notin out'
    BY <1>1, <2>3 DEF MessagesHeld
  <2>5. \A u, v \in Threads : u # v => Carried(u)' \cap Carried(v)' = {}
    BY <2>3 DEF MessagesHeld
  <2> QED
    BY <1>1, <1>7, <2>4, <2>5 DEF MessagesHeld
<1>13. BatchesInOrder'
  BY <1>1, <1>3, <1>4, <1>5, <1>6 DEF BatchesInOrder
<1>14. LocksHeld'
  BY <1>1, <1>5, LocksFrame
<1>15. NothingPassed'
  <2>1. \A n \in Nodes : Reached(n) => Reached(n)'
    BY <1>1, <1>6 DEF Reached
  <2>2. \A u \in Threads : AboutToRewind(u) \subseteq AboutToRewind(u)'
    BY <1>1, <1>4, <1>6 DEF AboutToRewind
  <2>3. \A u \in Threads : pc[u] = "rewind" => pc'[u] = "rewind" /\ todo'[u] = todo[u]
    BY <1>1, <1>6
  <2> QED
    BY <1>1, <2>1, <2>2, <2>3, PassedFrame
<1> QED
  BY <1>8, <1>9, <1>10, <1>11, <1>12, <1>13, <1>14, <1>15

LEMMA UndoBatchKeeps ==
    ASSUME NEW t \in Threads, QueueInv, UndoBatch(t)
    PROVE  QueueInv'
<1> USE DEF QueueInv
<1> DEFINE B == ToSet(batch[t])
<1>1. /\ pc[t] = "undo" /\ pc' = [pc EXCEPT ![t] = "undone"]
      /\ node' = [n \in Nodes |-> IF n \in B THEN [node[n] EXCEPT !.state = "available"] ELSE node[n]]
      /\ UNCHANGED <<tail, lock, releasing, getCursor, getlock, status, inflight, prevented, out,
                     puts, acks, woken, todo, cons, pos, batch, left, met, short>>
  BY DEF UndoBatch, Goto, tranVars, scanVars
<1>2. Carried(t) = B /\ B \subseteq Nodes
  BY <1>1, SeqNodes DEF Carried, InHand
<1>3. \A n \in B : node[n].state = "delivered" /\ node[n].msg /\ n \notin out /\ lock[n] = NoThread
  BY <1>2 DEF MessagesHeld
<1> HIDE DEF B
<1>4. \A n \in Nodes : node[n] \in [state : States, msg : BOOLEAN]
  BY DEF TypeOK, States
<1>5. \A n \in Nodes : [node[n] EXCEPT !.state = "available"] = [state |-> "available", msg |-> node[n].msg]
  BY <1>4
<1>6. \A n \in Nodes : [state |-> "available", msg |-> node[n].msg] \in [state : States, msg : BOOLEAN]
  BY <1>4 DEF States
<1>7. node' \in [Nodes -> [state : States, msg : BOOLEAN]]
  BY <1>1, <1>4, <1>5, <1>6, Zenon
<1>8. /\ \A n \in B : node'[n] = [state |-> "available", msg |-> node[n].msg]
      /\ \A n \in Nodes \ B : node'[n] = node[n]
  BY <1>1, <1>2, <1>5
<1>9. \A n \in B : node'[n].state = "available"
  <2>1. ASSUME NEW v PROVE [state |-> "available", msg |-> v].state = "available"
    OBVIOUS
  <2> QED
    BY <1>8, <2>1, Zenon
<1>10. \A u \in Threads : pc'[u] = IF u = t THEN "undone" ELSE pc[u]
  BY <1>1 DEF TypeOK
<1>11. TypeOK'
  <2>1. node' \in [Nodes -> [state : {"available", "delivered", "consumed"}, msg : BOOLEAN]]
    BY <1>7 DEF States
  <2> QED
    BY <1>1, <2>1 DEF TypeOK
<1>12. GetLockHeld'
  <2>1. getCursor' \in Nodes \union {Searching} /\ getCursor' <= getCursor
    BY <1>1, Parameters, SMTT(60) DEF TypeOK
  <2>2. pc[t] \notin LocatePcs /\ "undone" \notin LocatePcs
    BY <1>1 DEF LocatePcs
  <2> QED
    BY <1>1, <2>1, <2>2, GetLockFrame
<1>13. NodesAhead'
  <2>1. \A n \in Nodes : n > tail' => n \notin B
    BY <1>1, <1>3 DEF NodesAhead
  <2> QED
    BY <1>1, <1>8, <1>10, <2>1 DEF NodesAhead
<1>14. MessagesHeld'
  <2>1. \A u \in Threads \ {t} : Carried(u)' = Carried(u)
    BY <1>1, <1>10, CarriedFrame
  <2>2. Carried(t)' = {}
    BY <1>10 DEF Carried, InHand
  <2>3. \A u \in Threads : Carried(u)' \subseteq Carried(u) /\ Carried(u)' \cap B = {} /\ Carried(u) \subseteq Nodes
    BY <1>2, <2>1, <2>2, CarriedNodes DEF MessagesHeld
  <2>4. \A u \in Threads : \A n \in Carried(u)' : node'[n].state = "delivered" /\ node'[n].msg /\ n \notin out'
    BY <1>1, <1>8, <2>3 DEF MessagesHeld
  <2>5. \A u, v \in Threads : u # v => Carried(u)' \cap Carried(v)' = {}
    BY <2>3 DEF MessagesHeld
  <2>6. out \subseteq Nodes
    BY DEF TypeOK
  <2>7. \A n \in out' : node'[n].state = "delivered" /\ node'[n].msg
    BY <1>1, <1>3, <1>8, <2>6 DEF MessagesHeld
  <2>8. \A n \in Nodes : node'[n].state = "delivered" => lock'[n] = NoThread
    BY <1>1, <1>8, <1>9 DEF MessagesHeld
  <2> QED
    BY <2>4, <2>5, <2>7, <2>8 DEF MessagesHeld
<1>15. BatchesInOrder'
  BY <1>1, <1>10 DEF BatchesInOrder
<1>16. LocksHeld'
  <2>1. \A n \in Nodes : lock[n] # NoThread /\ node[n].state = "consumed" => node'[n].state = "consumed"
    BY <1>3, <1>8
  <2> QED
    BY <1>1, <2>1, LocksFrame
<1>17. InflightCounted'
  BY <1>1, InflightFrame
<1>18. NothingPassed'
  <2>1. \A n \in Nodes : Reached(n) => Reached(n)'
    BY <1>1, <1>10 DEF Reached
  <2>2. \A u \in Threads \ {t} : AboutToRewind(u)' = AboutToRewind(u)
    BY <1>1, <1>10 DEF AboutToRewind
  <2>3. AboutToRewind(t)' = B /\ AboutToRewind(t) = {}
    BY <1>1, <1>10 DEF AboutToRewind, B
  <2>4. \A u \in Threads : pc[u] = "rewind" => pc'[u] = "rewind" /\ todo'[u] = todo[u]
    BY <1>1, <1>10
  <2> SUFFICES ASSUME NEW n \in Nodes, node'[n].state = "available"
               PROVE  \/ Reached(n)'
                      \/ \E u \in Threads : n \in AboutToRewind(u)'
                      \/ node'[n].msg /\ lock'[n] \in Threads \ releasing'
                      \/ \E u \in Threads : lock'[n] = u /\ pc'[u] = "rewind" /\ n \in ToSet(todo'[u])
    BY DEF NothingPassed
  <2>5. CASE n \in B
    BY <2>3, <2>5
  <2>6. CASE n \notin B
    <3>1. node'[n] = node[n]
      BY <1>8, <2>6
    <3> QED
      BY <1>1, <2>1, <2>2, <2>3, <2>4, <3>1 DEF NothingPassed
  <2> QED
    BY <2>5, <2>6
<1> QED
  BY <1>11, <1>12, <1>13, <1>14, <1>15, <1>16, <1>17, <1>18

LEMMA UndoRewindKeeps ==
    ASSUME NEW t \in Threads, QueueInv, UndoRewind(t)
    PROVE  QueueInv'
<1> USE DEF QueueInv
<1>1. /\ pc[t] = "undone" /\ batch' = [batch EXCEPT ![t] = << >>]
      /\ status' = [status EXCEPT ![cons[t]] = "disabled"] /\ cons' = [cons EXCEPT ![t] = NoThread]
      /\ pc' = [pc EXCEPT ![t] = "full"]
      /\ UNCHANGED <<tail, node, lock, releasing, getlock, inflight, prevented, out, puts, acks, woken,
                     todo, pos, left, met, short>>
  BY DEF UndoRewind, Release, Goto, tranVars
<1>2. batch[t] # << >> /\ batch[t] \in Seq(Nodes)
  BY <1>1, SeqNodes DEF BatchesInOrder
<1>3. ToSet(batch[t]) # {} /\ ToSet(batch[t]) \subseteq Nodes /\ ToSet(batch[t]) \subseteq Nat
  BY <1>2, ToSetOfSeq, Parameters
<1>4. PICK e \in ToSet(batch[t]) : getCursor' = Earlier(e, getCursor) /\ \A n \in ToSet(batch[t]) : e <= n
  <2>1. LET e == CHOOSE m \in ToSet(batch[t]) : \A n \in ToSet(batch[t]) : m <= n
        IN  e \in ToSet(batch[t]) /\ \A n \in ToSet(batch[t]) : e <= n
    BY <1>3, EarliestExists
  <2> QED
    BY <2>1 DEF UndoRewind
<1>5. ToSet(<< >>) = {} /\ Injective(<< >>) /\ << >> \in Seq(Nodes)
  <2>1. << >> \in Seq(Nodes)
    OBVIOUS
  <2> QED
    BY <2>1, ToSetOfSeq
<1>6. /\ \A u \in Threads : pc'[u] = IF u = t THEN "full" ELSE pc[u]
      /\ \A u \in Threads : batch'[u] = IF u = t THEN << >> ELSE batch[u]
  BY <1>1 DEF TypeOK
<1>7. getCursor' \in Nodes \union {Searching} /\ getCursor' <= getCursor /\ getCursor' <= e /\ getCursor' \in Nat
  BY <1>3, <1>4, Parameters DEF TypeOK, Earlier
<1>8. TypeOK'
  <2>1. batch' \in [Threads -> Seq(Nodes)]
    BY <1>1, <1>5 DEF TypeOK
  <2>2. /\ status' \in [Consumers -> {"disabled", "enabled", "getting", "delivering"}]
        /\ cons' \in [Threads -> Consumers \union {NoThread}]
    BY <1>1 DEF TypeOK
  <2> QED
    BY <1>1, <1>7, <2>1, <2>2 DEF TypeOK
<1>9. GetLockHeld'
  <2>1. pc[t] \notin LocatePcs /\ "full" \notin LocatePcs
    BY <1>1 DEF LocatePcs
  <2> QED
    BY <1>1, <1>7, <2>1, GetLockFrame
<1>10. NodesAhead'
  BY <1>1, <1>6 DEF NodesAhead
<1>11. BatchesInOrder'
  BY <1>1, <1>5, <1>6 DEF BatchesInOrder
<1>12. MessagesHeld'
  <2>1. \A u \in Threads \ {t} : Carried(u)' = Carried(u)
    BY <1>1, <1>6, CarriedFrame
  <2>2. Carried(t)' = Carried(t)
    BY <1>1, <1>5, <1>6 DEF Carried, InHand
  <2>3. \A u \in Threads : Carried(u) \subseteq Nodes
    BY CarriedNodes
  <2> QED
    BY <1>1, <2>1, <2>2, <2>3, HeldFrame DEF MessagesHeld
<1>13. LocksHeld'
  BY <1>1, LocksFrame
<1>14. InflightCounted'
  BY <1>1, InflightFrame
<1>15. NothingPassed'
  <2>1. \A n \in Nodes : Reached(n) => Reached(n)'
    <3> SUFFICES ASSUME NEW n \in Nodes, Reached(n) PROVE Reached(n)'
      OBVIOUS
    <3>1. CASE getCursor <= n
      <4>1. getCursor \in Nat /\ n \in Nat
        BY Parameters DEF TypeOK
      <4>2. getCursor' <= n
        BY <1>7, <3>1, <4>1
      <4> QED
        BY <4>2 DEF Reached
    <3>2. CASE \E u \in Threads : pc[u] \in {"scan", "keep"} /\ pos[u] <= n
      BY <1>1, <1>6, <3>2 DEF Reached
    <3> QED
      BY <3>1, <3>2 DEF Reached
  <2>2. \A n \in Nodes : n \in AboutToRewind(t) => Reached(n)'
    <3> SUFFICES ASSUME NEW n \in Nodes, n \in AboutToRewind(t) PROVE getCursor' <= n
      BY DEF Reached
    <3>1. e <= n /\ e \in Nat /\ n \in Nat
      BY <1>1, <1>3, <1>4, Parameters DEF AboutToRewind
    <3> QED
      BY <1>7, <3>1
  <2>3. \A u \in Threads \ {t} : AboutToRewind(u)' = AboutToRewind(u)
    BY <1>1, <1>6 DEF AboutToRewind
  <2>4. \A u \in Threads : pc[u] = "rewind" => pc'[u] = "rewind" /\ todo'[u] = todo[u]
    BY <1>1, <1>6
  <2> QED
    BY <1>1, <2>1, <2>2, <2>3, <2>4, PassedFrame
<1> QED
  BY <1>8, <1>9, <1>10, <1>11, <1>12, <1>13, <1>14, <1>15

-----------------------------------------------------------------------------
(* The invariant, and what follows from it.                                 *)

LEMMA QueueInit == Init => QueueInv
<1> SUFFICES ASSUME Init PROVE QueueInv
  OBVIOUS
<1>1. ToSet(<< >>) = {} /\ Injective(<< >>) /\ << >> \in Seq(Nodes)
  <2>1. << >> \in Seq(Nodes)
    OBVIOUS
  <2> QED
    BY <2>1, ToSetOfSeq
<1>2. \A t \in Threads : /\ pc[t] = "idle" /\ puts[t] = << >> /\ acks[t] = << >>
                         /\ batch[t] = << >> /\ todo[t] = << >>
  BY DEF Init
<1>3. /\ \A n \in Nodes : node[n].state = "available" /\ ~node[n].msg /\ lock[n] = NoThread
      /\ tail = 0 /\ out = {} /\ inflight = 0 /\ getCursor = 1 /\ getlock = NoThread /\ releasing = {}
  BY DEF Init
<1>4. TypeOK
  <2>1. node \in [Nodes -> [state : {"available", "delivered", "consumed"}, msg : BOOLEAN]]
    BY DEF Init
  <2>2. 1 \in Nodes /\ 0 \in 0..MaxMsgs /\ 0 \in 0..(MaxMsgs + 1)
    BY Parameters
  <2> QED
    BY <1>1, <2>1, <2>2 DEF TypeOK, Init
<1>5. GetLockHeld
  BY <1>2, <1>3, Parameters DEF GetLockHeld, LocatePcs
<1>6. NodesAhead
  BY <1>2, <1>3 DEF NodesAhead
<1>7. MessagesHeld
  BY <1>1, <1>2, <1>3 DEF MessagesHeld, Carried, InHand
<1>8. BatchesInOrder
  BY <1>1, <1>2 DEF BatchesInOrder
<1>9. LocksHeld
  BY <1>1, <1>2, <1>3, Parameters DEF LocksHeld, Holds
<1>10. InflightCounted
  <2>1. InFlight = {}
    BY <1>1, <1>2, <1>3 DEF InFlight
  <2> QED
    BY <1>3, <2>1, FS_EmptySet DEF InflightCounted
<1>11. NothingPassed
  BY <1>3, Parameters DEF NothingPassed, Reached
<1> QED
  BY <1>4, <1>5, <1>6, <1>7, <1>8, <1>9, <1>10, <1>11 DEF QueueInv

LEMMA QueueNext == QueueInv /\ [Next]_vars => QueueInv'
<1> SUFFICES ASSUME QueueInv, [Next]_vars PROVE QueueInv'
  OBVIOUS
<1>1. ASSUME NEW t \in Threads, Requests(t) PROVE QueueInv'
  BY <1>1, AssignQSlotKeeps, CommitKeeps, RollbackKeeps, AcknowledgeKeeps, AcknowledgeInTranKeeps,
     NackAvailableKeeps, EnableWaiterKeeps DEF Requests
<1>2. ASSUME NEW t \in Threads, Continue(t) PROVE QueueInv'
  <2>1. CASE FinishPut(t) \/ NackRewind(t)
    BY <2>1, FinishPutKeeps, NackRewindKeeps
  <2>2. CASE TranEnds(t)
    BY <2>2, RewindGetCursorKeeps, StartCompleteKeeps, UnlockKeeps, PostReleaseKeeps DEF TranEnds
  <2>3. CASE Checks(t)
    BY <2>3, ChecksKeep
  <2>4. CASE Locates(t)
    BY <2>4, TakeGetLockKeeps, TryCursorKeeps, SetSearchingKeeps, ScanForwardKeeps,
       KeepOrReturnKeeps, GiveUpKeeps DEF Locates
  <2>5. CASE Delivers(t)
    BY <2>5, DeliverMessageKeeps, UndoBatchKeeps, UndoRewindKeeps DEF Delivers
  <2> QED
    BY <1>2, <2>1, <2>2, <2>3, <2>4, <2>5 DEF Continue
<1>3. CASE UNCHANGED vars
  BY <1>3 DEF vars, QueueInv, TypeOK, GetLockHeld, NodesAhead, MessagesHeld, Carried, InHand,
     BatchesInOrder, LocksHeld, Holds, InflightCounted, InFlight, NothingPassed, Reached, AboutToRewind
<1> QED
  BY <1>1, <1>2, <1>3 DEF Next, Finished

LEMMA QueueInvariant == Spec => []QueueInv
<1> QED
  BY QueueInit, QueueNext, PTL DEF Spec

LEMMA InvDelivers == QueueInv => OnceWhenCommitted
<1> SUFFICES ASSUME QueueInv PROVE OnceWhenCommitted
  OBVIOUS
<1> USE DEF QueueInv
<1>1. \A t \in Threads : InHand(t) \subseteq Carried(t) /\ Carried(t) \subseteq Nodes
  BY CarriedNodes DEF Carried
<1>2. DeliveredOnce
  BY <1>1 DEF DeliveredOnce, MessagesHeld
<1>3. OnlyCommittedDelivered
  <2> SUFFICES ASSUME NEW n \in out \union UNION {InHand(t) : t \in Threads}
               PROVE  /\ node[n].msg
                      /\ \A t \in Threads \ releasing : n \notin ToSet(Locked(t))
    BY DEF OnlyCommittedDelivered
  <2>1. n \in Nodes /\ node[n].msg /\ lock[n] = NoThread
    BY <1>1 DEF MessagesHeld, TypeOK
  <2>2. ASSUME NEW t \in Threads \ releasing PROVE n \notin ToSet(Locked(t))
    <3>1. ToSet(Locked(t)) = ToSet(puts[t]) \union ToSet(acks[t])
      BY SeqNodes, ToSetConcat DEF Locked
    <3>2. n \notin Holds(t)
      BY <2>1, Parameters DEF LocksHeld
    <3> QED
      BY <3>1, <3>2 DEF LocksHeld, Holds
  <2> QED
    BY <2>1, <2>2
<1> QED
  BY <1>2, <1>3 DEF OnceWhenCommitted

(***************************************************************************)
(* iemq_locateMessageForGetter, iemq_deliverMessages: for any number of    *)
(* threads, consumers and messages, a message is with one consumer at a    *)
(* time, and is given to none before its put is committed or after it is   *)
(* rolled back.                                                            *)
(***************************************************************************)
THEOREM DeliveredOnceWhenCommitted == Spec => []OnceWhenCommitted
<1> QED
  BY QueueInvariant, InvDelivers, PTL

LEMMA InvCursor == QueueInv => CursorNotPastMessages
<1> SUFFICES ASSUME QueueInv, getlock = NoThread, NEW n \in Nodes, Gettable(n), n < getCursor
             PROVE  \E t \in Threads : n \in AboutToRewind(t)
  BY DEF CursorNotPastMessages
<1> USE DEF QueueInv
<1>1. node[n].state = "available" /\ lock[n] = NoThread
  BY DEF Gettable, Present
<1>2. ~(getCursor <= n)
  BY Parameters DEF TypeOK
<1>3. \A t \in Threads : pc[t] \notin {"scan", "keep"}
  BY Parameters DEF GetLockHeld, LocatePcs
<1> QED
  BY <1>1, <1>2, <1>3, Parameters DEF NothingPassed, Reached

(***************************************************************************)
(* iemq_rewindGetCursor: no message that can be got is left behind the get *)
(* cursor, but for one whose thread is about to rewind for it.             *)
(***************************************************************************)
THEOREM CursorBehindMessages == Spec => []CursorNotPastMessages
<1> QED
  BY QueueInvariant, InvCursor, PTL

LEMMA KeepsInOrder ==
    ASSUME QueueInv, [Next]_vars, NEW t \in Threads, Keeps(t),
           NEW m \in 1 .. (pos[t] - 1), Gettable(m)
    PROVE  \E u \in Threads : m \in AboutToRewind(u)
<1> USE DEF QueueInv
<1>1. pc[t] = "keep" /\ batch'[t] # batch[t]
  BY DEF Keeps
<1>2. /\ pos[t] \in Nodes /\ \A n \in Nodes : Reached(n) <=> getCursor <= n \/ pos[t] <= n
  BY <1>1, GetLockOwner DEF LocatePcs
<1>3. m \in Nodes /\ m \in Nat /\ pos[t] \in Nat /\ ~(pos[t] <= m) /\ getCursor \in Nat
  BY <1>2, Parameters DEF TypeOK
<1>4. node[m].state = "available" /\ lock[m] = NoThread
  BY DEF Gettable, Present
<1>5. Kept(t)
  <2>1. PICK u \in Threads : Requests(u) \/ Continue(u)
    BY <1>1 DEF Next, Finished, vars
  <2>2. batch' = batch \/ \E x : batch' = [batch EXCEPT ![u] = x]
    BY <2>1 DEF Requests, Continue, TranEnds, Checks, Locates, Delivers, AssignQSlot, Commit, Rollback,
       Acknowledge, AcknowledgeInTran, NackAvailable, EnableWaiter, FinishPut, NackRewind,
       RewindGetCursor, StartComplete, Unlock, PostRelease, CheckStartable, ExchangePrevention,
       CheckWaiters, CheckFullDelivery, PreventDelivery, RecheckFullDelivery, AllowDelivery,
       LockWaiter, NoWaiter, TakeGetLock, TryCursor, SetSearching, ScanForward, KeepOrReturn, GiveUp,
       DeliverMessage, UndoBatch, UndoRewind, scanVars
  <2>3. u = t
    BY <1>1, <2>2 DEF TypeOK
  <2>4. KeepOrReturn(t)
    BY <1>1, <2>1, <2>3 DEF Requests, Continue, TranEnds, Checks, Locates, Delivers, AssignQSlot, Commit,
       Rollback, Acknowledge, AcknowledgeInTran, NackAvailable, EnableWaiter, FinishPut, NackRewind,
       RewindGetCursor, StartComplete, Unlock, PostRelease, CheckStartable, ExchangePrevention,
       CheckWaiters, CheckFullDelivery, PreventDelivery, RecheckFullDelivery, AllowDelivery,
       LockWaiter, NoWaiter, TakeGetLock, TryCursor, SetSearching, ScanForward, GiveUp,
       DeliverMessage, UndoBatch, UndoRewind
  <2> QED
    BY <1>1, <2>4 DEF KeepOrReturn
<1>6. pos[t] <= getCursor
  BY <1>5 DEF Kept
<1>7. ~Reached(m)
  BY <1>2, <1>3, <1>6
<1> QED
  BY <1>3, <1>4, <1>7, Parameters DEF NothingPassed

LEMMA StepInOrder ==
    QueueInv /\ [Next]_vars =>
      [\A t \in Threads : Keeps(t) =>
          \A m \in 1 .. (pos[t] - 1) :
              Gettable(m) => \E u \in Threads : m \in AboutToRewind(u)]_vars
BY KeepsInOrder

(***************************************************************************)
(* iemq_updateGetCursor: whatever is committed, rolled back or handed back *)
(* while a getter scans, a message is only kept if no earlier one can be   *)
(* got, but for one whose thread is about to rewind for it.                *)
(***************************************************************************)
THEOREM MessagesGotInOrder == Spec => GotInOrder
<1> QED
  BY QueueInvariant, StepInOrder, PTL DEF Spec, GotInOrder

-----------------------------------------------------------------------------
(* Nothing is trapped.  The parts of the invariant that say who will look.  *)

(* A thread that is getting or delivering has a consumer to itself, whose  *)
(* status says whether a message has been found for it.                    *)
ServePcs == LocatePcs \union {"lock", "giveup", "deliver", "undo", "undone"}

ConsumersOwned ==
    /\ \A t \in Threads : cons[t] # NoThread <=> pc[t] \in ServePcs
    /\ \A t \in Threads : batch[t] # << >> => pc[t] \in ServePcs
    /\ \A t \in Threads : cons[t] # NoThread =>
          status[cons[t]] = IF batch[t] = << >> THEN "getting" ELSE "delivering"
    /\ \A t, u \in Threads : cons[t] # NoThread /\ cons[t] = cons[u] => t = u
    /\ \A c \in Consumers : status[c] = "delivering" =>
          \E t \in Threads : cons[t] = c /\ batch[t] # << >>

(* A node that looks like the end of the queue and is not has a put that is*)
(* about to fill it.                                                       *)
PutPcs == {"put", "tranput"}

PutsFill ==
    /\ \A n \in 1 .. tail : AtEnd(n) => \E t \in Threads : pc[t] \in PutPcs /\ pos[t] = n
    /\ \A t \in Threads : pc[t] \in PutPcs =>
          AtEnd(pos[t]) /\ lock[pos[t]] = (IF pc[t] = "put" THEN NoThread ELSE t)
    /\ \A t, u \in Threads : pc[t] \in PutPcs /\ pc[u] \in PutPcs /\ pos[t] = pos[u] => t = u

(* A message is not freed before the transaction acknowledging it ends.    *)
AckedKept == \A t \in Threads \ releasing : \A n \in ToSet(acks[t]) : node[n].msg

(* A transaction that ends will wake the consumers if it has locked        *)
(* anything that can be got once it is unlocked.                           *)
WillWake ==
    \A t \in Threads : pc[t] \in {"rewind", "unlock"} /\ ~woken[t] =>
        /\ pc[t] = "rewind" => todo[t] = << >>
        /\ \A n \in Holds(t) : ~Present(n)

(* Without a limit delivery is never prevented.                            *)
LimitKept ==
    DeliveryLimit = 0 => ~prevented /\ \A t \in Threads : pc[t] \notin {"prevent", "recheck"}

(* A pass over the consumers will take one, or will be repeated.           *)
WillLook(t) ==
    \/ \E c \in left[t] : status[c] = "enabled"
    \/ "delivering" \notin met[t] /\ (met[t] # {} \/ \E c \in left[t] : status[c] = "getting")

(* Thread t is going to look for node n, or to see that somebody will.     *)
Covers(t, n) ==
    \/ pc[t] \in {"put", "nack", "check", "full", "prevent", "allow", "lock", "keep"}
    \/ batch[t] # << >>
    \/ pc[t] \in {"rewind", "unlock"} /\ woken[t]
    \/ pc[t] \in {"rewind", "unlock", "startable", "exchange", "recheck"} /\ prevented
    \/ pc[t] \in {"mark", "cas"} /\ getCursor = pos[t] /\ pos[t] <= n
    \/ pc[t] = "scan" /\ pos[t] <= n
    \/ pc[t] = "look" /\ WillLook(t)

(* A search ended at an unfinished put before n, and none has passed it.   *)
Beyond(n) ==
    /\ short > 0 /\ short < n /\ getCursor <= short
    /\ \A t \in Threads : pc[t] \in LocatePcs => pos[t] <= n

(* Somebody wants message n and is not kept from it.                       *)
Wanted(n) ==
    /\ Gettable(n)
    /\ \E c \in Consumers : status[c] # "disabled"
    /\ ~(TooMany /\ prevented)

Covered(n) == (\E t \in Threads : Covers(t, n)) \/ Beyond(n)

AllCovered == \A n \in Nodes : Wanted(n) => Covered(n)

SupportInv == ConsumersOwned /\ PutsFill /\ AckedKept /\ WillWake /\ LimitKept

-----------------------------------------------------------------------------
(* Consumers have one thread each.                                          *)

LEMMA ConsumerTypes ==
    ASSUME TypeOK, NEW t \in Threads
    PROVE  /\ cons[t] \in Consumers \union {NoThread} /\ NoThread \notin Consumers
           /\ batch[t] \in Seq(Nodes) /\ left[t] \subseteq Consumers
           /\ met[t] \subseteq {"getting", "delivering"} /\ pos[t] \in Nat
           /\ \A c \in Consumers : status[c] \in {"disabled", "enabled", "getting", "delivering"}
<1>1. pos[t] \in 0..(MaxMsgs + 1)
  BY DEF TypeOK
<1>2. pos[t] \in Nat
  BY <1>1, Parameters
<1> QED
  BY <1>2, NoThreadFresh DEF TypeOK

LEMMA OwnedFrame ==
    ASSUME NEW t \in Threads, NEW l, TypeOK, ConsumersOwned, UNCHANGED <<status, cons, batch>>,
           pc' = [pc EXCEPT ![t] = l], l \in ServePcs <=> pc[t] \in ServePcs
    PROVE  ConsumersOwned'
<1>1. \A u \in Threads : pc'[u] = IF u = t THEN l ELSE pc[u]
  BY DEF TypeOK
<1> QED
  BY <1>1 DEF ConsumersOwned

\* The thread lets its consumer go, with nothing left in its batch.
LEMMA OwnedReleased ==
    ASSUME NEW t \in Threads, NEW l, NEW s \in {"enabled", "disabled"}, TypeOK, ConsumersOwned,
           pc[t] \in ServePcs, l \notin ServePcs,
           status' = [status EXCEPT ![cons[t]] = s], cons' = [cons EXCEPT ![t] = NoThread],
           pc' = [pc EXCEPT ![t] = l], batch'[t] = << >>,
           \A u \in Threads \ {t} : batch'[u] = batch[u]
    PROVE  ConsumersOwned'
<1>1. /\ \A u \in Threads : pc'[u] = IF u = t THEN l ELSE pc[u]
      /\ \A u \in Threads : cons'[u] = IF u = t THEN NoThread ELSE cons[u]
  BY DEF TypeOK
<1>2. cons[t] \in Consumers
  BY ConsumerTypes DEF ConsumersOwned
<1>3. \A c \in Consumers : status'[c] = IF c = cons[t] THEN s ELSE status[c]
  BY <1>2 DEF TypeOK
<1>4. \A u \in Threads \ {t} : cons[u] # cons[t] /\ cons[u] \in Consumers \union {NoThread}
  BY <1>2, ConsumerTypes DEF ConsumersOwned
<1>5. \A u \in Threads : cons'[u] # NoThread => u # t /\ cons'[u] = cons[u] /\ status'[cons'[u]] = status[cons[u]]
  BY <1>1, <1>3, <1>4
<1>6. \A c \in Consumers : status'[c] = "delivering" =>
          \E u \in Threads : cons'[u] = c /\ batch'[u] # << >>
  <2> SUFFICES ASSUME NEW c \in Consumers, status'[c] = "delivering"
               PROVE  \E u \in Threads : cons'[u] = c /\ batch'[u] # << >>
    OBVIOUS
  <2>1. c # cons[t] /\ status[c] = "delivering"
    BY <1>3
  <2>2. PICK u \in Threads : cons[u] = c /\ batch[u] # << >>
    BY <2>1 DEF ConsumersOwned
  <2> QED
    BY <1>1, <2>1, <2>2
<1> QED
  BY <1>1, <1>5, <1>6 DEF ConsumersOwned

\* The thread has found messages for its consumer.
LEMMA OwnedDelivering ==
    ASSUME NEW t \in Threads, NEW l \in ServePcs, TypeOK, ConsumersOwned, pc[t] \in ServePcs,
           status' = [status EXCEPT ![cons[t]] = "delivering"], cons' = cons,
           pc' = [pc EXCEPT ![t] = l], batch'[t] # << >>,
           \A u \in Threads \ {t} : batch'[u] = batch[u]
    PROVE  ConsumersOwned'
<1>1. \A u \in Threads : pc'[u] = IF u = t THEN l ELSE pc[u]
  BY DEF TypeOK
<1>2. cons[t] \in Consumers
  BY ConsumerTypes DEF ConsumersOwned
<1>3. \A c \in Consumers : status'[c] = IF c = cons[t] THEN "delivering" ELSE status[c]
  BY <1>2 DEF TypeOK
<1>4. \A u \in Threads \ {t} : cons[u] # cons[t] /\ cons[u] \in Consumers \union {NoThread}
  BY <1>2, ConsumerTypes DEF ConsumersOwned
<1>5. \A u \in Threads \ {t} : cons[u] # NoThread => status'[cons[u]] = status[cons[u]]
  BY <1>3, <1>4
<1>6. \A u \in Threads : cons'[u] # NoThread =>
          status'[cons'[u]] = IF batch'[u] = << >> THEN "getting" ELSE "delivering"
  BY <1>2, <1>3, <1>5 DEF ConsumersOwned
<1>7. \A c \in Consumers : status'[c] = "delivering" =>
          \E u \in Threads : cons'[u] = c /\ batch'[u] # << >>
  <2> SUFFICES ASSUME NEW c \in Consumers, status'[c] = "delivering", c # cons[t]
               PROVE  \E u \in Threads : cons'[u] = c /\ batch'[u] # << >>
    OBVIOUS
  <2>1. PICK u \in Threads : cons[u] = c /\ batch[u] # << >>
    BY <1>3 DEF ConsumersOwned
  <2> QED
    BY <2>1
<1> QED
  BY <1>1, <1>6, <1>7 DEF ConsumersOwned

\* Only a consumer that no thread has changes from disabled to enabled, or
\* from enabled to getting.
LEMMA OwnedFree ==
    ASSUME TypeOK, ConsumersOwned, NEW c \in Consumers, status[c] \in {"disabled", "enabled"}
    PROVE  \A u \in Threads : cons[u] # c
BY ConsumerTypes DEF ConsumersOwned

LEMMA EnableWaiterOwned ==
    ASSUME NEW t \in Threads, NEW c \in Consumers, TypeOK, ConsumersOwned, EnableWaiter(t, c)
    PROVE  ConsumersOwned'
<1>1. /\ pc[t] = "idle" /\ status[c] = "disabled" /\ pc' = [pc EXCEPT ![t] = "check"]
      /\ status' = [status EXCEPT ![c] = "enabled"] /\ UNCHANGED <<cons, batch>>
  BY DEF EnableWaiter, Goto, scanVars
<1>2. \A u \in Threads : cons[u] # c
  BY <1>1, OwnedFree
<1>3. \A d \in Consumers : status'[d] = IF d = c THEN "enabled" ELSE status[d]
  BY <1>1 DEF TypeOK
<1>4. \A u \in Threads : cons[u] # NoThread => status'[cons[u]] = status[cons[u]]
  BY <1>2, <1>3, ConsumerTypes
<1>5. \A u \in Threads : pc'[u] \in ServePcs <=> pc[u] \in ServePcs
  BY <1>1 DEF ServePcs, LocatePcs, TypeOK
<1>6. \A d \in Consumers : status'[d] = "delivering" => status[d] = "delivering"
  BY <1>3
<1> QED
  BY <1>1, <1>4, <1>5, <1>6 DEF ConsumersOwned

LEMMA LockWaiterOwned ==
    ASSUME NEW t \in Threads, NEW c \in Consumers, TypeOK, ConsumersOwned, LockWaiter(t, c)
    PROVE  ConsumersOwned'
<1>1. pc[t] = "look" /\ batch' = batch
  BY DEF LockWaiter
<1>2. CASE status[c] = "enabled"
  <2>1. /\ status' = [status EXCEPT ![c] = "getting"] /\ cons' = [cons EXCEPT ![t] = c]
        /\ pc' = [pc EXCEPT ![t] = "lock"]
    BY <1>2 DEF LockWaiter, Goto
  <2>2. \A u \in Threads : cons[u] # c
    BY <1>2, OwnedFree
  <2>3. /\ \A d \in Consumers : status'[d] = IF d = c THEN "getting" ELSE status[d]
        /\ \A u \in Threads : cons'[u] = IF u = t THEN c ELSE cons[u]
        /\ \A u \in Threads : pc'[u] = IF u = t THEN "lock" ELSE pc[u]
    BY <2>1 DEF TypeOK
  <2>4. batch[t] = << >> /\ cons[t] = NoThread /\ "lock" \in ServePcs
    BY <1>1 DEF ConsumersOwned, ServePcs, LocatePcs
  <2>5. \A u \in Threads \ {t} : cons[u] # NoThread => status'[cons[u]] = status[cons[u]]
    BY <2>2, <2>3, ConsumerTypes
  <2>6. c # NoThread
    BY NoThreadFresh
  <2>7. \A d \in Consumers : status'[d] = "delivering" =>
            \E u \in Threads : cons'[u] = d /\ batch'[u] # << >>
    <3> SUFFICES ASSUME NEW d \in Consumers, status'[d] = "delivering"
                 PROVE  \E u \in Threads : cons'[u] = d /\ batch'[u] # << >>
      OBVIOUS
    <3>1. PICK u \in Threads : cons[u] = d /\ batch[u] # << >>
      BY <2>3 DEF ConsumersOwned
    <3> QED
      BY <1>1, <2>3, <2>4, <3>1
  <2>8. \A u \in Threads : cons'[u] # NoThread =>
            status'[cons'[u]] = IF batch'[u] = << >> THEN "getting" ELSE "delivering"
    BY <1>1, <2>3, <2>4, <2>5 DEF ConsumersOwned
  <2>9. \A u, v \in Threads : cons'[u] # NoThread /\ cons'[u] = cons'[v] => u = v
    BY <2>2, <2>3 DEF ConsumersOwned
  <2> QED
    BY <1>1, <2>3, <2>4, <2>6, <2>7, <2>8, <2>9 DEF ConsumersOwned
<1>3. CASE status[c] # "enabled"
  BY <1>1, <1>3 DEF LockWaiter, ConsumersOwned
<1> QED
  BY <1>2, <1>3

LEMMA KeepOrReturnOwned ==
    ASSUME NEW t \in Threads, TypeOK, GetLockHeld, ConsumersOwned, KeepOrReturn(t)
    PROVE  ConsumersOwned'
<1>1. pc[t] = "keep" /\ "keep" \in ServePcs
  BY DEF KeepOrReturn, ServePcs, LocatePcs
<1>2. CASE Kept(t)
  <2>1. /\ batch' = [batch EXCEPT ![t] = Append(batch[t], pos[t])]
        /\ status' = [status EXCEPT ![cons[t]] = "delivering"] /\ cons' = cons
    BY <1>2 DEF KeepOrReturn
  <2>2. \E l \in {"lock", "deliver"} : pc' = [pc EXCEPT ![t] = l]
    BY <1>2 DEF KeepOrReturn, Goto
  <2>3. batch'[t] # << >> /\ \A u \in Threads \ {t} : batch'[u] = batch[u]
    <3>1. batch'[t] = Append(batch[t], pos[t]) /\ batch[t] \in Seq(Nodes)
      BY <2>1 DEF TypeOK
    <3>2. pos[t] \in Nodes
      BY <1>1 DEF GetLockHeld, LocatePcs
    <3>3. Append(batch[t], pos[t]) # << >>
      BY <3>1, <3>2, ToSetAppend, ToSetOfSeq
    <3> QED
      BY <2>1, <3>1, <3>3 DEF TypeOK
  <2> QED
    BY <1>1, <2>1, <2>2, <2>3, OwnedDelivering DEF ServePcs
<1>3. CASE ~Kept(t) /\ batch[t] = << >>
  BY <1>1, <1>3, OwnedReleased DEF KeepOrReturn, Goto, ServePcs, LocatePcs
<1>4. CASE ~Kept(t) /\ batch[t] # << >>
  BY <1>1, <1>4, OwnedFrame DEF KeepOrReturn, Goto, ServePcs
<1> QED
  BY <1>2, <1>3, <1>4

LEMMA GiveUpOwned ==
    ASSUME NEW t \in Threads, TypeOK, ConsumersOwned, GiveUp(t)
    PROVE  ConsumersOwned'
<1>1. pc[t] = "giveup" /\ "giveup" \in ServePcs
  BY DEF GiveUp, ServePcs
<1>2. CASE batch[t] = << >>
  BY <1>1, <1>2, OwnedReleased DEF GiveUp, Goto, ServePcs, LocatePcs
<1>3. CASE batch[t] # << >>
  BY <1>1, <1>3, OwnedFrame DEF GiveUp, Goto, ServePcs
<1> QED
  BY <1>2, <1>3

LEMMA DeliverMessageOwned ==
    ASSUME NEW t \in Threads, NEW more \in BOOLEAN, TypeOK, BatchesInOrder, ConsumersOwned,
           DeliverMessage(t, more)
    PROVE  ConsumersOwned'
<1>1. /\ pc[t] = "deliver" /\ "deliver" \in ServePcs /\ batch[t] # << >>
      /\ batch' = [batch EXCEPT ![t] = Tail(batch[t])]
  BY DEF DeliverMessage, ServePcs, BatchesInOrder
<1>2. \A u \in Threads \ {t} : batch'[u] = batch[u]
  BY <1>1 DEF TypeOK
<1>3. CASE batch'[t] = << >>
  BY <1>1, <1>2, <1>3, OwnedReleased DEF DeliverMessage, Release, Goto, ServePcs, LocatePcs
<1>4. CASE batch'[t] # << >>
  <2>1. UNCHANGED <<status, cons>> /\ \E l \in {"deliver", "undo"} : pc' = [pc EXCEPT ![t] = l]
    BY <1>4 DEF DeliverMessage, Goto
  <2>2. status[cons[t]] = "delivering"
    BY <1>1 DEF ConsumersOwned
  <2>3. status' = [status EXCEPT ![cons[t]] = "delivering"]
    BY <2>1, <2>2 DEF TypeOK
  <2> QED
    BY <1>1, <1>2, <1>4, <2>1, <2>3, OwnedDelivering DEF ServePcs
<1> QED
  BY <1>3, <1>4

LEMMA UndoRewindOwned ==
    ASSUME NEW t \in Threads, TypeOK, ConsumersOwned, UndoRewind(t)
    PROVE  ConsumersOwned'
<1>1. /\ pc[t] = "undone" /\ "undone" \in ServePcs /\ "full" \notin ServePcs
      /\ batch' = [batch EXCEPT ![t] = << >>]
  BY DEF UndoRewind, ServePcs, LocatePcs
<1>2. batch'[t] = << >> /\ \A u \in Threads \ {t} : batch'[u] = batch[u]
  BY <1>1 DEF TypeOK
<1> QED
  BY <1>1, <1>2, OwnedReleased DEF UndoRewind, Release, Goto

\* Everything else leaves the consumers as they are.
LEMMA RequestsOwned ==
    ASSUME NEW t \in Threads, QueueInv, ConsumersOwned, Requests(t)
    PROVE  ConsumersOwned'
<1> USE DEF QueueInv
<1>1. "idle" \notin ServePcs /\ "put" \notin ServePcs /\ "tranput" \notin ServePcs
      /\ "rewind" \notin ServePcs /\ "startable" \notin ServePcs /\ "nack" \notin ServePcs
  BY DEF ServePcs, LocatePcs
<1>2. CASE \E inTran \in BOOLEAN : AssignQSlot(t, inTran)
  BY <1>1, <1>2, OwnedFrame DEF AssignQSlot, Goto
<1>3. CASE Commit(t)
  BY <1>1, <1>3, OwnedFrame DEF Commit, Goto, scanVars
<1>4. CASE Rollback(t)
  BY <1>1, <1>4, OwnedFrame DEF Rollback, Goto, scanVars
<1>5. CASE \E n \in Nodes : Acknowledge(t, n)
  BY <1>1, <1>5, OwnedFrame DEF Acknowledge, Goto, scanVars
<1>6. CASE \E n \in Nodes : AcknowledgeInTran(t, n)
  BY <1>6 DEF AcknowledgeInTran, scanVars, ConsumersOwned
<1>7. CASE \E n \in Nodes : NackAvailable(t, n)
  BY <1>1, <1>7, OwnedFrame DEF NackAvailable, Goto
<1>8. CASE \E c \in Consumers : EnableWaiter(t, c)
  BY <1>8, EnableWaiterOwned
<1> QED
  BY <1>2, <1>3, <1>4, <1>5, <1>6, <1>7, <1>8 DEF Requests

LEMMA ContinueOwned ==
    ASSUME NEW t \in Threads, QueueInv, ConsumersOwned, Continue(t)
    PROVE  ConsumersOwned'
<1> USE DEF QueueInv
<1>1. {"idle", "put", "tranput", "nack", "check", "full", "prevent", "recheck", "allow", "exchange",
       "look", "startable", "rewind", "unlock"} \cap ServePcs = {}
  BY DEF ServePcs, LocatePcs
<1>2. CASE FinishPut(t)
  BY <1>1, <1>2, OwnedFrame DEF FinishPut, Goto
<1>3. CASE NackRewind(t)
  BY <1>1, <1>3, OwnedFrame DEF NackRewind, Goto
<1>4. CASE RewindGetCursor(t)
  BY <1>4 DEF RewindGetCursor, scanVars, ConsumersOwned
<1>5. CASE StartComplete(t)
  BY <1>1, <1>5, OwnedFrame DEF StartComplete, Goto, scanVars
<1>6. CASE Unlock(t)
  BY <1>6 DEF Unlock, scanVars, ConsumersOwned
<1>7. CASE PostRelease(t)
  BY <1>1, <1>7, OwnedFrame DEF PostRelease, Goto, scanVars
<1>8. CASE CheckStartable(t)
  BY <1>1, <1>8, OwnedFrame DEF CheckStartable, Goto, scanVars
<1>9. CASE ExchangePrevention(t)
  BY <1>1, <1>9, OwnedFrame DEF ExchangePrevention, Goto, scanVars
<1>10. CASE CheckWaiters(t)
  BY <1>1, <1>10, OwnedFrame DEF CheckWaiters, Goto, scanVars
<1>11. CASE CheckFullDelivery(t)
  BY <1>1, <1>11, OwnedFrame DEF CheckFullDelivery, Goto, scanVars
<1>12. CASE PreventDelivery(t)
  BY <1>1, <1>12, OwnedFrame DEF PreventDelivery, Goto, scanVars
<1>13. CASE RecheckFullDelivery(t)
  BY <1>1, <1>13, OwnedFrame DEF RecheckFullDelivery, Goto, scanVars
<1>14. CASE AllowDelivery(t)
  BY <1>1, <1>14, OwnedFrame DEF AllowDelivery, StartPass, Goto
<1>15. CASE NoWaiter(t)
  BY <1>1, <1>15, OwnedFrame DEF NoWaiter, StartPass, Goto
<1>16. CASE \E c \in Consumers : LockWaiter(t, c)
  BY <1>16, LockWaiterOwned
<1>17. CASE TakeGetLock(t)
  BY <1>17, OwnedFrame DEF TakeGetLock, Goto, ServePcs, LocatePcs
<1>18. CASE TryCursor(t)
  BY <1>18, OwnedFrame DEF TryCursor, MarkDelivered, EndSearch, Goto, ServePcs, LocatePcs
<1>19. CASE SetSearching(t)
  BY <1>19, OwnedFrame DEF SetSearching, Goto, scanVars, ServePcs, LocatePcs
<1>20. CASE ScanForward(t)
  <2>1. UNCHANGED <<status, cons, batch>> /\ pc[t] = "scan" /\ "scan" \in ServePcs
    BY <1>20 DEF ScanForward, ServePcs, LocatePcs
  <2>2. pc' = pc \/ \E l \in {"keep", "giveup"} : pc' = [pc EXCEPT ![t] = l]
    BY <1>20 DEF ScanForward, MarkDelivered, EndSearch, Goto
  <2>3. CASE pc' = pc
    BY <2>1, <2>3 DEF ConsumersOwned
  <2>4. CASE \E l \in {"keep", "giveup"} : pc' = [pc EXCEPT ![t] = l]
    BY <2>1, <2>4, OwnedFrame DEF ServePcs, LocatePcs
  <2> QED
    BY <2>2, <2>3, <2>4
<1>21. CASE KeepOrReturn(t) \/ GiveUp(t)
  BY <1>21, KeepOrReturnOwned, GiveUpOwned
<1>22. CASE (\E more \in BOOLEAN : DeliverMessage(t, more)) \/ UndoRewind(t)
  BY <1>22, DeliverMessageOwned, UndoRewindOwned
<1>23. CASE UndoBatch(t)
  BY <1>23, OwnedFrame DEF UndoBatch, Goto, scanVars, ServePcs
<1> QED
  BY <1>2, <1>3, <1>4, <1>5, <1>6, <1>7, <1>8, <1>9, <1>10, <1>11, <1>12, <1>13, <1>14, <1>15, <1>16,
     <1>17, <1>18, <1>19, <1>20, <1>21, <1>22, <1>23 DEF Continue, TranEnds, Checks, Locates, Delivers

-----------------------------------------------------------------------------
(* Puts, acknowledgements and the ends of transactions.                     *)

TranLocks == PutsFill /\ AckedKept /\ WillWake

LEMMA PutsFrame ==
    ASSUME NEW t \in Threads, NEW l, TypeOK, NodesAhead, PutsFill, tail' = tail,
           pc' = [pc EXCEPT ![t] = l], pc[t] \notin PutPcs, l \notin PutPcs,
           \A u \in Threads \ {t} : pos'[u] = pos[u],
           \A n \in Nodes : AtEnd(n)' <=> AtEnd(n),
           \A n \in Nodes : AtEnd(n) => lock'[n] = lock[n]
    PROVE  PutsFill'
<1>1. \A u \in Threads : pc'[u] = IF u = t THEN l ELSE pc[u]
  BY DEF TypeOK
<1>2. \A u \in Threads : pc'[u] \in PutPcs => u # t /\ pc[u] \in PutPcs /\ pc'[u] = pc[u] /\ pos'[u] = pos[u]
  BY <1>1
<1>3. \A u \in Threads : pc[u] \in PutPcs => u # t /\ pc'[u] \in PutPcs /\ pos'[u] = pos[u] /\ pos[u] \in 1..tail
  BY <1>1 DEF NodesAhead, PutPcs
<1>4. 1..tail \subseteq Nodes
  BY Parameters DEF TypeOK
<1>5. \A n \in 1 .. tail' : AtEnd(n)' => \E u \in Threads : pc'[u] \in PutPcs /\ pos'[u] = n
  BY <1>3, <1>4 DEF PutsFill
<1>6. ASSUME NEW u \in Threads, pc'[u] \in PutPcs
      PROVE  AtEnd(pos[u])' /\ lock'[pos'[u]] = (IF pc'[u] = "put" THEN NoThread ELSE u)
  <2>1. pc[u] \in PutPcs /\ pc'[u] = pc[u] /\ pos'[u] = pos[u] /\ pos[u] \in Nodes
    BY <1>2, <1>3, <1>4, <1>6
  <2>2. AtEnd(pos[u]) /\ lock[pos[u]] = (IF pc[u] = "put" THEN NoThread ELSE u)
    BY <2>1 DEF PutsFill
  <2>3. \A n \in Nodes : AtEnd(n) => node'[n].state = "available" /\ ~node'[n].msg
    BY DEF AtEnd
  <2> QED
    BY <2>1, <2>2, <2>3 DEF AtEnd
<1> QED
  BY <1>2, <1>5, <1>6 DEF PutsFill

\* A locked node that looks like the end of the queue is being put.
LEMMA LockedNotEnd ==
    ASSUME TypeOK, NodesAhead, PutsFill, NEW n \in Nodes, lock[n] \in Threads, pc[lock[n]] # "tranput"
    PROVE  ~AtEnd(n)
<1>1. n \in 1..tail
  BY Parameters DEF NodesAhead, TypeOK
<1> QED
  BY <1>1, Parameters DEF PutsFill, PutPcs

LEMMA HeldLocked ==
    ASSUME QueueInv, NEW t \in Threads
    PROVE  /\ Holds(t) \subseteq Nodes /\ \A n \in Holds(t) : lock[n] = t
           /\ t \notin releasing => \A n \in ToSet(acks[t]) : n \in Nodes /\ lock[n] = t
<1>1. Holds(t) \subseteq Nodes
  BY SeqNodes DEF Holds, QueueInv
<1>2. \A n \in Holds(t) : lock[n] = t
  BY <1>1 DEF QueueInv, LocksHeld
<1>3. t \notin releasing => pc[t] # "unlock"
  BY DEF QueueInv, LocksHeld
<1> QED
  BY <1>1, <1>2, <1>3 DEF Holds

LEMMA AckedFrame ==
    ASSUME QueueInv, AckedKept,
           \A u \in Threads \ releasing' : u \notin releasing /\ acks'[u] = acks[u],
           \A n \in Nodes : node[n].msg /\ lock[n] \in Threads \ releasing' => node'[n].msg
    PROVE  AckedKept'
<1> SUFFICES ASSUME NEW u \in Threads \ releasing', NEW n \in ToSet(acks[u])
             PROVE  node'[n].msg
  BY DEF AckedKept
<1>1. n \in Nodes /\ lock[n] = u
  BY HeldLocked
<1> QED
  BY <1>1 DEF AckedKept

LEMMA WakeFrame ==
    ASSUME QueueInv, WillWake, NEW t \in Threads, pc'[t] \notin {"rewind", "unlock"},
           \A u \in Threads \ {t} : /\ pc'[u] = pc[u] /\ todo'[u] = todo[u] /\ puts'[u] = puts[u]
                                    /\ acks'[u] = acks[u] /\ woken'[u] = woken[u],
           \A n \in Nodes : Present(n)' => Present(n) \/ lock[n] \in {t, NoThread}
    PROVE  WillWake'
<1> SUFFICES ASSUME NEW u \in Threads, pc'[u] \in {"rewind", "unlock"}, ~woken'[u]
             PROVE  /\ pc'[u] = "rewind" => todo'[u] = << >>
                    /\ \A n \in Holds(u)' : ~Present(n)'
  BY DEF WillWake
<1>1. u # t
  OBVIOUS
<1>2. Holds(u)' = Holds(u)
  BY <1>1 DEF Holds
<1>3. \A n \in Holds(u) : n \in Nodes /\ lock[n] = u
  BY HeldLocked
<1> QED
  BY <1>1, <1>2, <1>3, Parameters DEF WillWake

\* A step outside the ends of transactions, which changes the state of no
\* message that is locked and neither fills a node nor empties one.
LEMMA TranLocksFrame ==
    ASSUME NEW t \in Threads, NEW l, QueueInv, TranLocks,
           UNCHANGED <<tail, lock, releasing, puts, acks, woken, todo>>,
           pc' = [pc EXCEPT ![t] = l],
           pc[t] \notin PutPcs, l \notin PutPcs \union {"rewind", "unlock"},
           \A u \in Threads \ {t} : pos'[u] = pos[u],
           \A n \in Nodes : node'[n] = node[n] \/ (lock[n] = NoThread /\ ~AtEnd(n) /\ ~AtEnd(n)')
    PROVE  TranLocks'
<1> USE DEF TranLocks
<1>1. \A u \in Threads : pc'[u] = IF u = t THEN l ELSE pc[u]
  BY DEF TypeOK, QueueInv
<1>2. PutsFill'
  <2>1. \A n \in Nodes : AtEnd(n)' <=> AtEnd(n)
    BY DEF AtEnd
  <2>2. TypeOK /\ NodesAhead
    BY DEF QueueInv
  <2> QED
    BY <2>1, <2>2, PutsFrame
<1>3. AckedKept'
  <2>1. \A n \in Nodes : lock[n] \in Threads => node'[n] = node[n]
    BY Parameters
  <2> QED
    BY <2>1, AckedFrame
<1>4. WillWake'
  <2>1. \A n \in Nodes : Present(n)' => Present(n) \/ lock[n] \in {t, NoThread}
    BY DEF Present
  <2> QED
    BY <1>1, <2>1, WakeFrame
<1> QED
  BY <1>2, <1>3, <1>4

LEMMA AssignQSlotTran ==
    ASSUME NEW t \in Threads, NEW inTran \in BOOLEAN, QueueInv, TranLocks, AssignQSlot(t, inTran)
    PROVE  TranLocks'
<1> USE DEF TranLocks
<1> DEFINE m == tail + 1
           l == IF inTran THEN "tranput" ELSE "put"
<1>1. /\ pc[t] = "idle" /\ tail < MaxMsgs /\ tail' = m
      /\ pos' = [pos EXCEPT ![t] = m] /\ pc' = [pc EXCEPT ![t] = l]
      /\ lock' = IF inTran THEN [lock EXCEPT ![m] = t] ELSE lock
      /\ puts' = IF inTran THEN [puts EXCEPT ![t] = Append(puts[t], m)] ELSE puts
      /\ UNCHANGED <<node, releasing, acks, woken, todo>>
  BY DEF AssignQSlot, Goto
<1>2. /\ m \in Nodes /\ tail \in Nat /\ ~(m <= tail) /\ m \in Nat
      /\ 1..m = 1..tail \union {m} /\ 1..tail \subseteq Nodes
  BY <1>1, Parameters DEF QueueInv, TypeOK
<1>3. AtEnd(m) /\ lock[m] = NoThread
  BY <1>2 DEF QueueInv, NodesAhead, AtEnd
<1>4. /\ \A u \in Threads : pc'[u] = IF u = t THEN l ELSE pc[u]
      /\ \A u \in Threads : pos'[u] = IF u = t THEN m ELSE pos[u]
      /\ \A n \in Nodes \ {m} : lock'[n] = lock[n]
      /\ lock'[m] = IF inTran THEN t ELSE NoThread
      /\ \A u \in Threads \ {t} : puts'[u] = puts[u]
  <2>1. /\ lock \in [Nodes -> Threads \union {NoThread}] /\ puts \in [Threads -> Seq(Nodes)]
        /\ pc = [u \in Threads |-> pc[u]] /\ pos = [u \in Threads |-> pos[u]]
    BY DEF QueueInv, TypeOK
  <2> QED
    BY <1>1, <1>2, <1>3, <2>1
<1>5. l \in PutPcs /\ pc[t] \notin PutPcs /\ (l = "put" <=> ~inTran)
  BY <1>1 DEF PutPcs
<1> HIDE DEF m, l
<1>6. \A u \in Threads : pc[u] \in PutPcs => u # t /\ pos[u] \in 1..tail /\ pos[u] # m
  BY <1>2, <1>5 DEF QueueInv, NodesAhead, PutPcs
<1>7. PutsFill'
  <2>1. \A n \in Nodes : AtEnd(n)' <=> AtEnd(n)
    BY <1>1 DEF AtEnd
  <2>2. ASSUME NEW n \in 1..tail', AtEnd(n)'
        PROVE  \E u \in Threads : pc'[u] \in PutPcs /\ pos'[u] = n
    <3>1. CASE n = m
      BY <1>4, <1>5, <3>1
    <3>2. CASE n \in 1..tail
      <4>1. PICK u \in Threads : pc[u] \in PutPcs /\ pos[u] = n
        BY <1>2, <2>1, <2>2, <3>2 DEF PutsFill
      <4> QED
        BY <1>4, <1>6, <4>1
    <3> QED
      BY <1>1, <1>2, <3>1, <3>2
  <2>3. ASSUME NEW u \in Threads, pc'[u] \in PutPcs
        PROVE  AtEnd(pos[u])' /\ lock'[pos'[u]] = (IF pc'[u] = "put" THEN NoThread ELSE u)
    <3>1. CASE u = t
      BY <1>1, <1>3, <1>4, <1>5, <3>1 DEF AtEnd
    <3>2. CASE u # t
      <4>1. /\ pc[u] \in PutPcs /\ pc'[u] = pc[u] /\ pos'[u] = pos[u]
            /\ pos[u] \in Nodes /\ pos[u] # m
        BY <1>2, <1>4, <1>6, <2>3, <3>2
      <4>2. AtEnd(pos[u]) /\ lock[pos[u]] = (IF pc[u] = "put" THEN NoThread ELSE u)
        BY <4>1 DEF PutsFill
      <4> QED
        BY <1>1, <1>4, <4>1, <4>2 DEF AtEnd
    <3> QED
      BY <3>1, <3>2
  <2>4. \A u, v \in Threads : pc'[u] \in PutPcs /\ pc'[v] \in PutPcs /\ pos'[u] = pos'[v] => u = v
    BY <1>4, <1>6 DEF PutsFill
  <2> QED
    BY <2>2, <2>3, <2>4 DEF PutsFill
<1>8. AckedKept'
  BY <1>1 DEF AckedKept
<1>9. WillWake'
  <2>1. pc'[t] \notin {"rewind", "unlock"}
    BY <1>4, <1>5 DEF PutPcs
  <2>2. \A n \in Nodes : Present(n)' => Present(n) \/ lock[n] \in {t, NoThread}
    BY <1>1 DEF Present
  <2> QED
    BY <1>1, <1>4, <2>1, <2>2, WakeFrame
<1> QED
  BY <1>7, <1>8, <1>9

LEMMA FinishPutTran ==
    ASSUME NEW t \in Threads, QueueInv, TranLocks, FinishPut(t)
    PROVE  TranLocks'
<1> USE DEF TranLocks
<1> DEFINE p == pos[t]
           l == IF pc[t] = "put" THEN "check" ELSE "idle"
<1>1. /\ pc[t] \in PutPcs /\ node' = [node EXCEPT ![p].msg = TRUE]
      /\ pos' = [pos EXCEPT ![t] = 0] /\ pc' = [pc EXCEPT ![t] = l]
      /\ UNCHANGED <<tail, lock, releasing, puts, acks, woken, todo>>
  BY DEF FinishPut, Goto, PutPcs
<1>2. l \notin PutPcs \union {"rewind", "unlock"}
  BY DEF PutPcs
<1>3. p \in 1..tail /\ p \in Nodes /\ 1..tail \subseteq Nodes
  BY <1>1, Parameters DEF QueueInv, NodesAhead, PutPcs, TypeOK
<1> HIDE DEF p, l
<1>4. /\ \A u \in Threads : pc'[u] = IF u = t THEN l ELSE pc[u]
      /\ \A u \in Threads \ {t} : pos'[u] = pos[u]
  BY <1>1 DEF QueueInv, TypeOK
<1>5. /\ \A n \in Nodes : node'[n].state = node[n].state
      /\ node'[p].msg /\ \A n \in Nodes \ {p} : node'[n] = node[n]
  BY <1>1, <1>3, NodeMsg DEF QueueInv
<1>6. lock[p] \in {t, NoThread}
  BY <1>1 DEF PutsFill, p
<1>7. PutsFill'
  <2>1. \A u \in Threads \ {t} : pc[u] \in PutPcs => pos[u] # p /\ pos[u] \in Nodes
    BY <1>1, <1>3 DEF PutsFill, p, QueueInv, NodesAhead, PutPcs
  <2>2. ASSUME NEW n \in 1..tail', AtEnd(n)'
        PROVE  \E u \in Threads : pc'[u] \in PutPcs /\ pos'[u] = n
    <3>1. n # p /\ n \in 1..tail /\ n \in Nodes
      BY <1>1, <1>3, <1>5, <2>2 DEF AtEnd
    <3>2. AtEnd(n)
      BY <1>5, <2>2, <3>1 DEF AtEnd
    <3>3. PICK u \in Threads : pc[u] \in PutPcs /\ pos[u] = n
      BY <3>1, <3>2 DEF PutsFill
    <3>4. u # t
      BY <3>1, <3>3 DEF p
    <3> QED
      BY <1>4, <3>3, <3>4
  <2>3. ASSUME NEW u \in Threads, pc'[u] \in PutPcs
        PROVE  AtEnd(pos[u])' /\ lock'[pos'[u]] = (IF pc'[u] = "put" THEN NoThread ELSE u)
    <3>1. u # t /\ pc[u] \in PutPcs /\ pc'[u] = pc[u] /\ pos'[u] = pos[u]
      BY <1>2, <1>4, <2>3
    <3>2. AtEnd(pos[u]) /\ lock[pos[u]] = (IF pc[u] = "put" THEN NoThread ELSE u)
      BY <3>1 DEF PutsFill
    <3>3. node'[pos[u]] = node[pos[u]]
      BY <1>5, <2>1, <3>1
    <3> QED
      BY <1>1, <3>1, <3>2, <3>3 DEF AtEnd
  <2>4. \A u, v \in Threads : pc'[u] \in PutPcs /\ pc'[v] \in PutPcs /\ pos'[u] = pos'[v] => u = v
    BY <1>2, <1>4 DEF PutsFill
  <2> QED
    BY <2>2, <2>3, <2>4 DEF PutsFill
<1>8. AckedKept'
  BY <1>1, <1>5, AckedFrame
<1>9. WillWake'
  <2>1. \A n \in Nodes : Present(n)' => Present(n) \/ lock[n] \in {t, NoThread}
    BY <1>5, <1>6 DEF Present
  <2> QED
    BY <1>1, <1>2, <1>4, <2>1, WakeFrame
<1> QED
  BY <1>7, <1>8, <1>9

\* What Commit and Rollback have in common.
LEMMA EndTran ==
    ASSUME NEW t \in Threads, QueueInv, TranLocks, pc[t] = "idle", pc' = [pc EXCEPT ![t] = "rewind"],
           NEW todos \in Seq(Nodes),
           releasing' = releasing \union {t}, todo' = [todo EXCEPT ![t] = todos],
           woken' = [woken EXCEPT ![t] = (todos # << >>)],
           UNCHANGED <<tail, lock, puts, acks, pos>>,
           \A n \in Nodes : lock[n] # t => node'[n] = node[n],
           \A n \in Holds(t) : ~AtEnd(n)' /\ (Present(n)' => n \in ToSet(todos))
    PROVE  TranLocks'
<1> USE DEF TranLocks
<1>1. /\ \A u \in Threads : pc'[u] = IF u = t THEN "rewind" ELSE pc[u]
      /\ todo'[t] = todos /\ woken'[t] = (todos # << >>)
      /\ \A u \in Threads \ {t} : todo'[u] = todo[u] /\ woken'[u] = woken[u]
  BY DEF QueueInv, TypeOK
<1>2. Holds(t)' = Holds(t) /\ \A u \in Threads \ {t} : Holds(u)' = Holds(u)
  BY <1>1 DEF Holds
<1>3. \A n \in Nodes : lock[n] = t => n \in Holds(t)
  BY DEF QueueInv, LocksHeld
<1>4. PutsFill'
  <2>1. \A n \in Nodes : lock[n] = t => ~AtEnd(n) /\ ~AtEnd(n)'
    BY <1>3, LockedNotEnd DEF QueueInv
  <2>2. \A n \in Nodes : AtEnd(n)' <=> AtEnd(n)
    BY <2>1 DEF AtEnd
  <2>3. pc[t] \notin PutPcs /\ "rewind" \notin PutPcs
    BY DEF PutPcs
  <2> QED
    BY <2>2, <2>3, PutsFrame DEF QueueInv
<1>5. AckedKept'
  BY AckedFrame
<1>6. WillWake'
  <2> SUFFICES ASSUME NEW u \in Threads, pc'[u] \in {"rewind", "unlock"}, ~woken'[u]
               PROVE  /\ pc'[u] = "rewind" => todo'[u] = << >>
                      /\ \A n \in Holds(u)' : ~Present(n)'
    BY DEF WillWake
  <2>1. CASE u = t
    <3>1. todos = << >> /\ ToSet(todos) = {}
      BY <1>1, <2>1, ToSetOfSeq
    <3> QED
      BY <1>1, <1>2, <2>1, <3>1
  <2>2. CASE u # t
    <3>1. \A n \in Holds(u) : n \in Nodes /\ lock[n] = u
      BY HeldLocked
    <3>2. \A n \in Holds(u) : node'[n] = node[n]
      BY <2>2, <3>1
    <3> QED
      BY <1>1, <1>2, <2>2, <3>1, <3>2 DEF WillWake, Present
  <2> QED
    BY <2>1, <2>2
<1> QED
  BY <1>4, <1>5, <1>6

LEMMA CommitTran ==
    ASSUME NEW t \in Threads, QueueInv, TranLocks, Commit(t)
    PROVE  TranLocks'
<1> DEFINE A == ToSet(acks[t])
<1>1. /\ pc[t] = "idle" /\ UNCHANGED <<tail, lock, puts, acks, pos>>
      /\ node' = [n \in Nodes |-> IF n \in A THEN [node[n] EXCEPT !.msg = FALSE] ELSE node[n]]
  BY DEF Commit, scanVars
<1>2. /\ t \notin releasing /\ A \subseteq Nodes /\ \A n \in A : node[n].state = "consumed" /\ lock[n] = t
      /\ Holds(t) = ToSet(puts[t]) \union A
  BY <1>1, SeqNodes, HeldLocked DEF LocksHeld, QueueInv, Holds
<1> HIDE DEF A
<1>3. \A n \in Nodes : node[n] \in [state : States, msg : BOOLEAN]
  BY DEF TypeOK, States, QueueInv
<1>4. \A n \in Nodes : [node[n] EXCEPT !.msg = FALSE] = [state |-> node[n].state, msg |-> FALSE]
  BY <1>3, RecordMsg, Zenon
<1>5. \A n \in A : node'[n].state = "consumed"
  BY <1>1, <1>2, <1>4
<1>6. \A n \in Nodes \ A : node'[n] = node[n]
  BY <1>1
<1>7. \A n \in Nodes : lock[n] # t => node'[n] = node[n]
  BY <1>2, <1>6
<1>8. ASSUME NEW n \in Holds(t) PROVE ~AtEnd(n)' /\ (Present(n)' => n \in ToSet(puts[t]))
  <2>1. CASE n \in A
    BY <1>5, <2>1 DEF AtEnd, Present
  <2>2. CASE n \notin A
    <3>1. n \in Nodes /\ lock[n] = t /\ node'[n] = node[n] /\ n \in ToSet(puts[t])
      BY <1>2, <1>6, <2>2, HeldLocked
    <3>2. ~AtEnd(n)
      BY <1>1, <3>1, LockedNotEnd DEF TranLocks, QueueInv
    <3> QED
      BY <3>1, <3>2 DEF AtEnd
  <2> QED
    BY <2>1, <2>2
<1>9. puts[t] \in Seq(Nodes)
  BY SeqNodes DEF QueueInv
<1> QED
  BY <1>1, <1>7, <1>8, <1>9, EndTran DEF Commit, Goto

LEMMA RollbackTran ==
    ASSUME NEW t \in Threads, QueueInv, TranLocks, Rollback(t)
    PROVE  TranLocks'
<1> DEFINE A == ToSet(acks[t])
           P == ToSet(puts[t])
<1>1. /\ pc[t] = "idle" /\ UNCHANGED <<tail, lock, puts, acks, pos>>
      /\ node' = [n \in Nodes |->
                    CASE n \in P -> [state |-> "consumed", msg |-> FALSE]
                      [] n \in A -> [node[n] EXCEPT !.state = "available"]
                      [] OTHER -> node[n]]
  BY DEF Rollback, scanVars
<1>2. /\ A \subseteq Nodes /\ P \subseteq Nodes /\ P \cap A = {} /\ Holds(t) = P \union A
      /\ t \notin releasing
  BY <1>1, SeqNodes DEF LocksHeld, QueueInv, Holds
<1>3. \A n \in P \union A : lock[n] = t
  BY <1>2, HeldLocked
<1>4. \A n \in A : node[n].msg
  BY <1>2 DEF TranLocks, AckedKept
<1> HIDE DEF A, P
<1>5. \A n \in Nodes : node[n] \in [state : States, msg : BOOLEAN]
  BY DEF TypeOK, States, QueueInv
<1>6. \A n \in Nodes : [node[n] EXCEPT !.state = "available"] = [state |-> "available", msg |-> node[n].msg]
  BY <1>5
<1>7. /\ \A n \in P : node'[n] = [state |-> "consumed", msg |-> FALSE]
      /\ \A n \in A : node'[n] = [state |-> "available", msg |-> node[n].msg]
      /\ \A n \in Nodes \ (P \union A) : node'[n] = node[n]
  BY <1>1, <1>2, <1>6
<1>8. /\ \A n \in P : node'[n].state = "consumed"
      /\ \A n \in A : node'[n].msg
  <2>1. ASSUME NEW v PROVE [state |-> "available", msg |-> v].msg = v
    OBVIOUS
  <2>2. \A n \in A : node'[n].msg = node[n].msg
    BY <1>7, <2>1, Zenon
  <2> QED
    BY <1>4, <1>7, <2>2
<1>9. \A n \in Nodes : lock[n] # t => node'[n] = node[n]
  BY <1>3, <1>7
<1>10. \A n \in Holds(t) : ~AtEnd(n)' /\ (Present(n)' => n \in A)
  BY <1>2, <1>8 DEF AtEnd, Present
<1>11. acks[t] \in Seq(Nodes)
  BY SeqNodes DEF QueueInv
<1> QED
  BY <1>1, <1>9, <1>10, <1>11, EndTran DEF Rollback, Goto, A

LEMMA TranEndsTran ==
    ASSUME NEW t \in Threads, QueueInv, TranLocks, TranEnds(t)
    PROVE  TranLocks'
<1> USE DEF TranLocks
<1>1. TypeOK /\ NodesAhead
  BY DEF QueueInv
<1>2. {"rewind", "unlock", "check", "startable"} \cap PutPcs = {}
  BY DEF PutPcs
<1>3. CASE RewindGetCursor(t)
  <2>1. /\ pc[t] = "rewind" /\ todo[t] # << >> /\ todo' = [todo EXCEPT ![t] = Tail(todo[t])]
        /\ UNCHANGED <<tail, node, lock, releasing, puts, acks, woken, pc, pos>>
    BY <1>3 DEF RewindGetCursor, tranVars, scanVars
  <2>2. woken[t]
    BY <2>1 DEF WillWake
  <2>3. \A u \in Threads \ {t} : todo'[u] = todo[u]
    BY <2>1 DEF QueueInv, TypeOK
  <2>4. PutsFill' /\ AckedKept'
    BY <2>1 DEF PutsFill, AckedKept, AtEnd
  <2>5. WillWake'
    BY <2>1, <2>2, <2>3 DEF WillWake, Holds, Present
  <2> QED
    BY <2>4, <2>5
<1>4. CASE StartComplete(t)
  <2>1. /\ pc[t] = "rewind" /\ todo' = [todo EXCEPT ![t] = Reverse(Locked(t))]
        /\ pc' = [pc EXCEPT ![t] = "unlock"]
        /\ UNCHANGED <<tail, node, lock, releasing, puts, acks, woken, pos>>
    BY <1>4 DEF StartComplete, Goto, tranVars, scanVars
  <2>2. \A u \in Threads : pc'[u] = IF u = t THEN "unlock" ELSE pc[u]
    BY <1>1, <2>1 DEF TypeOK
  <2>3. /\ \A u \in Threads \ {t} : todo'[u] = todo[u]
        /\ todo'[t] = Reverse(Locked(t))
    BY <1>1, <2>1 DEF TypeOK
  <2>4. ToSet(Reverse(Locked(t))) = ToSet(puts[t]) \union ToSet(acks[t])
    <3>1. puts[t] \in Seq(Nodes) /\ acks[t] \in Seq(Nodes)
      BY <1>1, SeqNodes
    <3>2. Locked(t) \in Seq(Nodes) /\ ToSet(Locked(t)) = ToSet(puts[t]) \union ToSet(acks[t])
      BY <3>1, ToSetConcat DEF Locked
    <3> QED
      BY <3>2, ToSetReverse
  <2>5. \A u \in Threads : Holds(u)' = Holds(u)
    <3>1. Holds(t)' = ToSet(todo'[t]) /\ Holds(t) = ToSet(puts[t]) \union ToSet(acks[t])
      BY <2>1, <2>2 DEF Holds
    <3>2. \A u \in Threads \ {t} : Holds(u)' = Holds(u)
      BY <2>1, <2>2, <2>3 DEF Holds
    <3> QED
      BY <2>3, <2>4, <3>1, <3>2
  <2>6. PutsFill'
    BY <1>1, <1>2, <2>1, PutsFrame DEF AtEnd
  <2>7. AckedKept'
    BY <2>1 DEF AckedKept
  <2>8. WillWake'
    BY <2>1, <2>2, <2>3, <2>5 DEF WillWake, Present
  <2> QED
    BY <2>6, <2>7, <2>8
<1>5. CASE Unlock(t)
  <2> DEFINE h == Head(todo[t])
  <2>1. /\ pc[t] = "unlock" /\ todo[t] # << >> /\ todo' = [todo EXCEPT ![t] = Tail(todo[t])]
        /\ lock' = [lock EXCEPT ![h] = NoThread]
        /\ UNCHANGED <<tail, node, releasing, puts, acks, woken, pc, pos>>
    BY <1>5 DEF Unlock, tranVars, scanVars
  <2>2. h \in Holds(t) /\ h \in Nodes /\ lock[h] = t /\ ToSet(Tail(todo[t])) \subseteq ToSet(todo[t])
    <3>1. todo[t] \in Seq(Nodes) /\ todo[t] # << >>
      BY <1>1, <2>1, SeqNodes
    <3>2. h \in ToSet(todo[t]) /\ ToSet(Tail(todo[t])) \subseteq ToSet(todo[t])
      BY <3>1, ToSetTail
    <3> QED
      BY <2>1, <3>2, HeldLocked DEF Holds
  <2>3. ~AtEnd(h)
    BY <1>1, <2>1, <2>2, LockedNotEnd
  <2>4. /\ \A n \in Nodes : n # h => lock'[n] = lock[n]
        /\ \A u \in Threads : todo'[u] = IF u = t THEN Tail(todo[t]) ELSE todo[u]
    BY <1>1, <2>1 DEF TypeOK
  <2>5. PutsFill'
    <3>1. pc' = [pc EXCEPT ![t] = "unlock"]
      BY <1>1, <2>1 DEF TypeOK
    <3>2. \A n \in Nodes : AtEnd(n) => lock'[n] = lock[n]
      BY <2>3, <2>4
    <3> QED
      BY <1>1, <1>2, <2>1, <3>1, <3>2, PutsFrame DEF AtEnd
  <2>6. AckedKept'
    BY <2>1 DEF AckedKept
  <2>7. \A u \in Threads : Holds(u)' \subseteq Holds(u)
    BY <2>1, <2>2, <2>4 DEF Holds
  <2>8. WillWake'
    BY <2>1, <2>7 DEF WillWake, Present
  <2> QED
    BY <2>5, <2>6, <2>8
<1>6. CASE PostRelease(t)
  <2>1. /\ pc[t] = "unlock" /\ releasing' = releasing \ {t}
        /\ puts' = [puts EXCEPT ![t] = << >>] /\ acks' = [acks EXCEPT ![t] = << >>]
        /\ woken' = [woken EXCEPT ![t] = FALSE]
        /\ UNCHANGED <<tail, node, lock, todo, pos>>
    BY <1>6 DEF PostRelease, scanVars
  <2>2. PICK l \in {"check", "startable"} : pc' = [pc EXCEPT ![t] = l]
    BY <1>6 DEF PostRelease, Goto
  <2>3. /\ \A u \in Threads : pc'[u] = IF u = t THEN l ELSE pc[u]
        /\ \A u \in Threads \ {t} : puts'[u] = puts[u] /\ acks'[u] = acks[u] /\ woken'[u] = woken[u]
        /\ acks'[t] = << >>
    BY <1>1, <2>1, <2>2 DEF TypeOK
  <2>4. PutsFill'
    BY <1>1, <1>2, <2>1, <2>2, PutsFrame DEF AtEnd
  <2>5. AckedKept'
    <3>1. ToSet(<< >>) = {}
      BY DEF ToSet
    <3> QED
      BY <2>1, <2>3, <3>1 DEF AckedKept
  <2>6. WillWake'
    <3>1. \A n \in Nodes : Present(n)' => Present(n) \/ lock[n] \in {t, NoThread}
      BY <2>1 DEF Present
    <3>2. pc'[t] \notin {"rewind", "unlock"}
      BY <2>3
    <3> QED
      BY <2>1, <2>3, <3>1, <3>2, WakeFrame
  <2> QED
    BY <2>4, <2>5, <2>6
<1> QED
  BY <1>3, <1>4, <1>5, <1>6 DEF TranEnds

LEMMA AcknowledgeInTranTran ==
    ASSUME NEW t \in Threads, NEW m \in Nodes, QueueInv, TranLocks, AcknowledgeInTran(t, m)
    PROVE  TranLocks'
<1> USE DEF TranLocks
<1>1. /\ pc[t] = "idle" /\ m \in out /\ lock' = [lock EXCEPT ![m] = t]
      /\ acks' = [acks EXCEPT ![t] = Append(acks[t], m)]
      /\ node' = [node EXCEPT ![m].state = "consumed"]
      /\ UNCHANGED <<tail, releasing, pc, puts, woken, todo, pos>>
  BY DEF AcknowledgeInTran, scanVars
<1>2. node[m].state = "delivered" /\ node[m].msg
  BY <1>1 DEF QueueInv, MessagesHeld
<1>3. /\ \A n \in Nodes : node'[n].msg = node[n].msg
      /\ node'[m].state = "consumed" /\ \A n \in Nodes \ {m} : node'[n] = node[n]
  BY <1>1, NodeState DEF QueueInv, States
<1>4. /\ \A n \in Nodes \ {m} : lock'[n] = lock[n]
      /\ \A u \in Threads \ {t} : acks'[u] = acks[u]
      /\ acks'[t] = Append(acks[t], m) /\ pc' = [pc EXCEPT ![t] = "idle"]
  BY <1>1 DEF QueueInv, TypeOK
<1>5. ToSet(acks'[t]) = ToSet(acks[t]) \union {m} /\ ToSet(acks[t]) \subseteq Nodes
  BY <1>4, SeqNodes, ToSetAppend DEF QueueInv
<1>6. PutsFill'
  <2>1. /\ \A n \in Nodes : AtEnd(n)' <=> AtEnd(n)
        /\ \A n \in Nodes : AtEnd(n) => lock'[n] = lock[n]
    BY <1>2, <1>3, <1>4 DEF AtEnd
  <2>2. pc[t] \notin PutPcs /\ "idle" \notin PutPcs
    BY <1>1 DEF PutPcs
  <2> QED
    BY <1>1, <1>4, <2>1, <2>2, PutsFrame DEF QueueInv
<1>7. AckedKept'
  <2> SUFFICES ASSUME NEW u \in Threads \ releasing', NEW n \in ToSet(acks'[u]) PROVE node'[n].msg
    BY DEF AckedKept
  <2>1. n \in Nodes
    BY <1>4, <1>5, SeqNodes DEF QueueInv
  <2>2. node[n].msg
    BY <1>1, <1>2, <1>4, <1>5 DEF AckedKept
  <2> QED
    BY <1>3, <2>1, <2>2
<1>8. WillWake'
  <2>1. \A n \in Nodes : Present(n)' => Present(n) \/ lock[n] \in {t, NoThread}
    BY <1>3 DEF Present
  <2>2. pc'[t] \notin {"rewind", "unlock"}
    BY <1>1
  <2> QED
    BY <1>1, <1>4, <2>1, <2>2, WakeFrame
<1> QED
  BY <1>6, <1>7, <1>8

LEMMA RequestsTran ==
    ASSUME NEW t \in Threads, QueueInv, TranLocks, Requests(t)
    PROVE  TranLocks'
<1>1. {"idle", "startable", "nack", "check"} \cap (PutPcs \union {"rewind", "unlock"}) = {}
  BY DEF PutPcs
<1>2. \A n \in out : n \in Nodes /\ node[n].state = "delivered" /\ node[n].msg /\ lock[n] = NoThread
  BY DEF QueueInv, TypeOK, MessagesHeld
<1>3. ASSUME NEW m \in Nodes, Acknowledge(t, m) PROVE TranLocks'
  <2>1. /\ pc[t] = "idle" /\ m \in out /\ pc' = [pc EXCEPT ![t] = "startable"]
        /\ node' = [node EXCEPT ![m] = [state |-> "consumed", msg |-> FALSE]]
        /\ UNCHANGED <<tail, lock, releasing, puts, acks, woken, todo, pos>>
    BY <1>3 DEF Acknowledge, Goto, tranVars, scanVars
  <2>2. node'[m].state = "consumed" /\ \A n \in Nodes \ {m} : node'[n] = node[n]
    BY <2>1 DEF QueueInv, TypeOK
  <2>3. \A n \in Nodes : node'[n] = node[n] \/ (lock[n] = NoThread /\ ~AtEnd(n) /\ ~AtEnd(n)')
    BY <1>2, <2>1, <2>2 DEF AtEnd
  <2> QED
    BY <1>1, <2>1, <2>3, TranLocksFrame
<1>4. ASSUME NEW m \in Nodes, NackAvailable(t, m) PROVE TranLocks'
  <2>1. /\ pc[t] = "idle" /\ m \in out /\ pc' = [pc EXCEPT ![t] = "nack"]
        /\ node' = [node EXCEPT ![m].state = "available"] /\ pos' = [pos EXCEPT ![t] = m]
        /\ UNCHANGED <<tail, lock, releasing, puts, acks, woken, todo>>
    BY <1>4 DEF NackAvailable, Goto, tranVars
  <2>2. /\ \A n \in Nodes : node'[n].msg = node[n].msg
        /\ \A n \in Nodes \ {m} : node'[n] = node[n]
    BY <2>1, NodeState DEF QueueInv, States
  <2>3. \A n \in Nodes : node'[n] = node[n] \/ (lock[n] = NoThread /\ ~AtEnd(n) /\ ~AtEnd(n)')
    BY <1>2, <2>1, <2>2 DEF AtEnd
  <2>4. \A u \in Threads \ {t} : pos'[u] = pos[u]
    BY <2>1 DEF QueueInv, TypeOK
  <2> QED
    BY <1>1, <2>1, <2>3, <2>4, TranLocksFrame
<1>5. ASSUME NEW c \in Consumers, EnableWaiter(t, c) PROVE TranLocks'
  BY <1>1, <1>5, TranLocksFrame DEF EnableWaiter, Goto, tranVars, scanVars
<1> QED
  BY <1>3, <1>4, <1>5, AssignQSlotTran, CommitTran, RollbackTran, AcknowledgeInTranTran DEF Requests

LEMMA ChecksTran ==
    ASSUME NEW t \in Threads, QueueInv, TranLocks, Checks(t)
    PROVE  TranLocks'
<1> DEFINE Pcs == {"idle", "check", "full", "prevent", "recheck", "allow", "exchange", "look", "lock",
                   "startable"}
<1>1. /\ pc[t] \in Pcs /\ UNCHANGED <<tail, node, lock, releasing, puts, acks, woken, todo, pos>>
  BY DEF Checks, CheckStartable, ExchangePrevention, CheckWaiters, CheckFullDelivery, PreventDelivery,
     RecheckFullDelivery, AllowDelivery, LockWaiter, NoWaiter, tranVars, scanVars
<1>2. \E l \in Pcs : pc' = [pc EXCEPT ![t] = l]
  <2>1. CASE \E c \in Consumers : LockWaiter(t, c)
    <3>1. CASE pc' = pc
      BY <1>1, <3>1 DEF QueueInv, TypeOK
    <3>2. CASE pc' # pc
      BY <2>1, <3>2 DEF LockWaiter, Goto
    <3> QED
      BY <3>1, <3>2
  <2>2. CASE NoWaiter(t)
    BY <2>2 DEF NoWaiter, StartPass, Goto
  <2>3. CASE CheckStartable(t) \/ ExchangePrevention(t) \/ CheckWaiters(t) \/ CheckFullDelivery(t)
    BY <2>3 DEF CheckStartable, ExchangePrevention, CheckWaiters, CheckFullDelivery, Goto
  <2>4. CASE PreventDelivery(t) \/ RecheckFullDelivery(t) \/ AllowDelivery(t)
    BY <2>4 DEF PreventDelivery, RecheckFullDelivery, AllowDelivery, StartPass, Goto
  <2> QED
    BY <2>1, <2>2, <2>3, <2>4 DEF Checks
<1>3. Pcs \cap (PutPcs \union {"rewind", "unlock"}) = {}
  BY DEF PutPcs
<1> HIDE DEF Pcs
<1> QED
  BY <1>1, <1>2, <1>3, TranLocksFrame

LEMMA LocatesTran ==
    ASSUME NEW t \in Threads, QueueInv, TranLocks, Locates(t)
    PROVE  TranLocks'
<1> DEFINE Pcs == {"lock", "mark", "cas", "scan", "keep", "giveup", "full", "deliver", "idle"}
<1>1. Pcs \cap (PutPcs \union {"rewind", "unlock"}) = {}
  BY DEF PutPcs
<1>2. pc[t] \in Pcs /\ UNCHANGED <<tail, lock, releasing, puts, acks, woken, todo>>
  BY DEF Locates, TakeGetLock, TryCursor, SetSearching, ScanForward, KeepOrReturn, GiveUp, tranVars
<1>3. \E l \in Pcs : pc' = [pc EXCEPT ![t] = l]
  <2>1. CASE TakeGetLock(t) \/ TryCursor(t) \/ SetSearching(t)
    BY <2>1 DEF TakeGetLock, TryCursor, MarkDelivered, EndSearch, SetSearching, Goto
  <2>2. CASE ScanForward(t)
    <3>1. CASE pc' = pc
      BY <1>2, <3>1 DEF QueueInv, TypeOK
    <3>2. CASE pc' # pc
      BY <2>2, <3>2 DEF ScanForward, MarkDelivered, EndSearch, Goto
    <3> QED
      BY <3>1, <3>2
  <2>3. CASE KeepOrReturn(t) \/ GiveUp(t)
    BY <2>3 DEF KeepOrReturn, GiveUp, Goto
  <2> QED
    BY <2>1, <2>2, <2>3 DEF Locates
<1>4. \A u \in Threads \ {t} : pos'[u] = pos[u]
  BY DEF Locates, TakeGetLock, TryCursor, MarkDelivered, SetSearching, ScanForward, KeepOrReturn, GiveUp,
     scanVars, QueueInv, TypeOK
<1>5. \A n \in Nodes : node'[n] = node[n] \/ (lock[n] = NoThread /\ ~AtEnd(n) /\ ~AtEnd(n)')
  <2>1. CASE node' = node
    BY <2>1
  <2>2. CASE MarkDelivered(t) /\ pc[t] \in {"mark", "scan"}
    <3>1. pos[t] \in Nodes /\ Gettable(pos[t]) /\ node' = [node EXCEPT ![pos[t]].state = "delivered"]
      BY <2>2 DEF MarkDelivered, QueueInv, GetLockHeld, LocatePcs
    <3>2. node'[pos[t]].state = "delivered" /\ \A n \in Nodes \ {pos[t]} : node'[n] = node[n]
      BY <3>1, NodeState DEF QueueInv, States
    <3> QED
      BY <3>1, <3>2 DEF Gettable, Present, AtEnd
  <2>3. CASE KeepOrReturn(t) /\ node' # node
    <3>1. /\ pos[t] \in Nodes /\ node' = [node EXCEPT ![pos[t]].state = "available"]
          /\ pos[t] \in Carried(t)
      BY <2>3 DEF KeepOrReturn, QueueInv, GetLockHeld, LocatePcs, Carried
    <3>2. /\ \A n \in Nodes : node'[n].msg = node[n].msg
          /\ \A n \in Nodes \ {pos[t]} : node'[n] = node[n]
      BY <3>1, NodeState DEF QueueInv, States
    <3>3. node[pos[t]].state = "delivered" /\ node[pos[t]].msg /\ lock[pos[t]] = NoThread
      BY <3>1 DEF QueueInv, MessagesHeld
    <3> QED
      BY <3>1, <3>2, <3>3 DEF AtEnd
  <2> QED
    BY <2>1, <2>2, <2>3 DEF Locates, TakeGetLock, TryCursor, SetSearching, ScanForward, GiveUp
<1> HIDE DEF Pcs
<1> QED
  BY <1>1, <1>2, <1>3, <1>4, <1>5, TranLocksFrame

LEMMA DeliversTran ==
    ASSUME NEW t \in Threads, QueueInv, TranLocks, Delivers(t)
    PROVE  TranLocks'
<1>1. {"deliver", "undo", "undone", "full"} \cap (PutPcs \union {"rewind", "unlock"}) = {}
  BY DEF PutPcs
<1>2. /\ pc[t] \in {"deliver", "undo", "undone"}
      /\ UNCHANGED <<tail, lock, releasing, puts, acks, woken, todo, pos>>
  BY DEF Delivers, DeliverMessage, UndoBatch, UndoRewind, tranVars, scanVars
<1>3. \E l \in {"deliver", "undo", "undone", "full"} : pc' = [pc EXCEPT ![t] = l]
  BY DEF Delivers, DeliverMessage, UndoBatch, UndoRewind, Release, Goto
<1>4. \A n \in Nodes : node'[n] = node[n] \/ (lock[n] = NoThread /\ ~AtEnd(n) /\ ~AtEnd(n)')
  <2>1. CASE node' = node
    BY <2>1
  <2>2. CASE UndoBatch(t)
    <3>1. /\ pc[t] = "undo"
          /\ node' = [n \in Nodes |-> IF n \in ToSet(batch[t]) THEN [node[n] EXCEPT !.state = "available"]
                                      ELSE node[n]]
      BY <2>2 DEF UndoBatch
    <3>2. \A n \in ToSet(batch[t]) : n \in Carried(t)
      BY <3>1 DEF Carried, InHand
    <3>3. \A n \in ToSet(batch[t]) : node[n].state = "delivered" /\ node[n].msg /\ lock[n] = NoThread
      BY <3>2, CarriedNodes DEF QueueInv, MessagesHeld
    <3>4. ASSUME NEW n \in Nodes, n \in ToSet(batch[t]) PROVE node'[n].msg
      <4>1. node[n] \in [state : States, msg : BOOLEAN]
        BY DEF QueueInv, TypeOK, States
      <4>2. [node[n] EXCEPT !.state = "available"].msg = node[n].msg
        BY <4>1
      <4> QED
        BY <3>1, <3>3, <3>4, <4>2
    <3> QED
      BY <3>1, <3>3, <3>4 DEF AtEnd
  <2> QED
    BY <2>1, <2>2 DEF Delivers, DeliverMessage, UndoRewind
<1> QED
  BY <1>1, <1>2, <1>3, <1>4, TranLocksFrame

LEMMA ContinueTran ==
    ASSUME NEW t \in Threads, QueueInv, TranLocks, Continue(t)
    PROVE  TranLocks'
<1>1. CASE NackRewind(t)
  <2>1. /\ pc[t] = "nack" /\ pc' = [pc EXCEPT ![t] = "check"] /\ pos' = [pos EXCEPT ![t] = 0]
        /\ UNCHANGED <<tail, node, lock, releasing, puts, acks, woken, todo>>
    BY <1>1 DEF NackRewind, Goto, tranVars
  <2>2. \A u \in Threads \ {t} : pos'[u] = pos[u]
    BY <2>1 DEF QueueInv, TypeOK
  <2>3. {"nack", "check"} \cap (PutPcs \union {"rewind", "unlock"}) = {}
    BY DEF PutPcs
  <2> QED
    BY <2>1, <2>2, <2>3, TranLocksFrame
<1> QED
  BY <1>1, FinishPutTran, TranEndsTran, ChecksTran, LocatesTran, DeliversTran DEF Continue

-----------------------------------------------------------------------------
(* The limit of what is in flight.                                          *)

LEMMA LimitFrame ==
    ASSUME NEW t \in Threads, NEW l, TypeOK, LimitKept, pc' = [pc EXCEPT ![t] = l],
           l \notin {"prevent", "recheck"}, prevented' \in {prevented, FALSE}
    PROVE  LimitKept'
<1>1. \A u \in Threads : pc'[u] = IF u = t THEN l ELSE pc[u]
  BY DEF TypeOK
<1> QED
  BY <1>1 DEF LimitKept

LEMMA LimitStep ==
    ASSUME NEW t \in Threads, QueueInv, LimitKept, Requests(t) \/ Continue(t)
    PROVE  LimitKept'
<1> USE DEF QueueInv
<1>1. CASE Requests(t)
  <2>1. CASE \E n \in Nodes : AcknowledgeInTran(t, n)
    BY <2>1 DEF AcknowledgeInTran, LimitKept
  <2>2. CASE (\E inTran \in BOOLEAN : AssignQSlot(t, inTran)) \/ Commit(t) \/ Rollback(t)
    <3>1. prevented' \in {prevented, FALSE} /\ \E l \in {"put", "tranput", "rewind"} : pc' = [pc EXCEPT ![t] = l]
      BY <2>2 DEF AssignQSlot, Commit, Rollback, Goto
    <3> QED
      BY <3>1, LimitFrame
  <2>3. CASE \E n \in Nodes : Acknowledge(t, n) \/ NackAvailable(t, n)
    <3>1. prevented' \in {prevented, FALSE} /\ \E l \in {"startable", "nack"} : pc' = [pc EXCEPT ![t] = l]
      BY <2>3 DEF Acknowledge, NackAvailable, Goto
    <3> QED
      BY <3>1, LimitFrame
  <2>4. CASE \E c \in Consumers : EnableWaiter(t, c)
    BY <2>4, LimitFrame DEF EnableWaiter, Goto
  <2> QED
    BY <1>1, <2>1, <2>2, <2>3, <2>4 DEF Requests
<1>2. CASE FinishPut(t) \/ NackRewind(t)
  <2>1. prevented' \in {prevented, FALSE} /\ \E l \in {"check", "idle"} : pc' = [pc EXCEPT ![t] = l]
    BY <1>2 DEF FinishPut, NackRewind, Goto
  <2> QED
    BY <2>1, LimitFrame
<1>3. CASE TranEnds(t)
  <2>1. CASE RewindGetCursor(t) \/ Unlock(t)
    BY <2>1 DEF RewindGetCursor, Unlock, LimitKept
  <2>2. CASE StartComplete(t) \/ PostRelease(t)
    <3>1. prevented' \in {prevented, FALSE} /\ \E l \in {"unlock", "check", "startable"} : pc' = [pc EXCEPT ![t] = l]
      BY <2>2 DEF StartComplete, PostRelease, Goto
    <3> QED
      BY <3>1, LimitFrame
  <2> QED
    BY <1>3, <2>1, <2>2 DEF TranEnds
<1>4. CASE Checks(t)
  <2>1. CASE CheckStartable(t) \/ ExchangePrevention(t) \/ CheckWaiters(t)
    <3>1. prevented' \in {prevented, FALSE} /\ \E l \in {"exchange", "idle", "check", "full"} : pc' = [pc EXCEPT ![t] = l]
      BY <2>1 DEF CheckStartable, ExchangePrevention, CheckWaiters, Goto
    <3> QED
      BY <3>1, LimitFrame
  <2>2. CASE CheckFullDelivery(t)
    <3>1. CASE TooMany
      <4>1. DeliveryLimit > 0
        BY <3>1 DEF TooMany
      <4>2. DeliveryLimit # 0
        BY <4>1
      <4> QED
        BY <4>2 DEF LimitKept
    <3>2. CASE ~TooMany
      BY <2>2, <3>2, LimitFrame DEF CheckFullDelivery, Goto
    <3> QED
      BY <3>1, <3>2
  <2>3. CASE PreventDelivery(t)
    BY <2>3 DEF PreventDelivery, LimitKept
  <2>4. CASE RecheckFullDelivery(t)
    <3>1. prevented' \in {prevented, FALSE} /\ \E l \in {"idle", "allow"} : pc' = [pc EXCEPT ![t] = l]
      BY <2>4 DEF RecheckFullDelivery, Goto
    <3> QED
      BY <3>1, LimitFrame
  <2>5. CASE AllowDelivery(t)
    BY <2>5, LimitFrame DEF AllowDelivery, StartPass, Goto
  <2>6. CASE \E c \in Consumers : LockWaiter(t, c)
    <3>1. prevented' = prevented /\ (pc' = pc \/ pc' = [pc EXCEPT ![t] = "lock"])
      BY <2>6 DEF LockWaiter, Goto
    <3>2. CASE pc' = pc
      BY <3>1, <3>2 DEF LimitKept
    <3>3. CASE pc' = [pc EXCEPT ![t] = "lock"]
      BY <3>1, <3>3, LimitFrame
    <3> QED
      BY <3>1, <3>2, <3>3
  <2>7. CASE NoWaiter(t)
    BY <2>7, LimitFrame DEF NoWaiter, StartPass, Goto
  <2> QED
    BY <1>4, <2>1, <2>2, <2>3, <2>4, <2>5, <2>6, <2>7 DEF Checks
<1>5. CASE Locates(t)
  <2>1. CASE TakeGetLock(t) \/ SetSearching(t) \/ TryCursor(t)
    <3>1. prevented' \in {prevented, FALSE} /\ \E l \in {"mark", "cas", "scan", "keep", "giveup"} : pc' = [pc EXCEPT ![t] = l]
      BY <2>1 DEF TakeGetLock, SetSearching, TryCursor, MarkDelivered, EndSearch, Goto
    <3> QED
      BY <3>1, LimitFrame
  <2>2. CASE ScanForward(t)
    <3>1. prevented' = prevented /\ (pc' = pc \/ \E l \in {"keep", "giveup"} : pc' = [pc EXCEPT ![t] = l])
      BY <2>2 DEF ScanForward, MarkDelivered, EndSearch, Goto
    <3>2. CASE pc' = pc
      BY <3>1, <3>2 DEF LimitKept
    <3>3. CASE \E l \in {"keep", "giveup"} : pc' = [pc EXCEPT ![t] = l]
      BY <3>1, <3>3, LimitFrame
    <3> QED
      BY <3>1, <3>2, <3>3
  <2>3. CASE KeepOrReturn(t) \/ GiveUp(t)
    <3>1. prevented' \in {prevented, FALSE} /\ \E l \in {"lock", "full", "deliver", "idle"} : pc' = [pc EXCEPT ![t] = l]
      BY <2>3 DEF KeepOrReturn, GiveUp, Goto
    <3> QED
      BY <3>1, LimitFrame
  <2> QED
    BY <1>5, <2>1, <2>2, <2>3 DEF Locates
<1>6. CASE Delivers(t)
  <2>1. prevented' \in {prevented, FALSE} /\ \E l \in {"deliver", "undo", "undone", "full"} : pc' = [pc EXCEPT ![t] = l]
    BY <1>6 DEF Delivers, DeliverMessage, UndoBatch, UndoRewind, Release, Goto
  <2> QED
    BY <2>1, LimitFrame
<1> QED
  BY <1>1, <1>2, <1>3, <1>4, <1>5, <1>6 DEF Continue

-----------------------------------------------------------------------------
(* Who will look.                                                           *)

(* A step of thread t leaves what the other threads know as it is.         *)
OthersStay(t) ==
    \A u \in Threads \ {t} : /\ pc'[u] = pc[u] /\ batch'[u] = batch[u] /\ woken'[u] = woken[u]
                             /\ left'[u] = left[u] /\ met'[u] = met[u] /\ pos'[u] = pos[u]

LEMMA CoversFrame ==
    ASSUME NEW t \in Threads, NEW u \in Threads \ {t}, NEW n, TypeOK, OthersStay(t), Covers(u, n),
           prevented => prevented', pc[u] \in {"mark", "cas"} => getCursor' = getCursor,
           \A c \in Consumers : status'[c] = status[c] \/ (status[c] = "getting" /\ status'[c] = "enabled")
    PROVE  Covers(u, n)'
<1>1. /\ pc'[u] = pc[u] /\ batch'[u] = batch[u] /\ woken'[u] = woken[u]
      /\ left'[u] = left[u] /\ met'[u] = met[u] /\ pos'[u] = pos[u]
  BY DEF OthersStay
<1>2. WillLook(u) => WillLook(u)'
  BY <1>1, ConsumerTypes DEF WillLook
<1> QED
  BY <1>1, <1>2 DEF Covers

\* A step that moves neither the cursor nor a search.
LEMMA CoveredFrame ==
    ASSUME NEW t \in Threads, NEW n \in Nodes, QueueInv, AllCovered, Wanted(n), OthersStay(t),
           UNCHANGED <<prevented, getCursor, short>>,
           pc'[t] \notin LocatePcs,
           \A c \in Consumers : status'[c] = status[c] \/ (status[c] = "getting" /\ status'[c] = "enabled"),
           Covers(t, n) => Covers(t, n)'
    PROVE  Covered(n)'
<1>1. TypeOK
  BY DEF QueueInv
<1>2. CASE \E u \in Threads : Covers(u, n)
  <2>1. PICK u \in Threads : Covers(u, n)
    BY <1>2
  <2>2. Covers(u, n)'
    BY <1>1, <2>1, CoversFrame
  <2> QED
    BY <2>2 DEF Covered
<1>3. CASE Beyond(n)
  <2>1. \A u \in Threads : pc'[u] \in LocatePcs => pc[u] \in LocatePcs /\ pos'[u] = pos[u]
    BY DEF OthersStay
  <2>2. Beyond(n)'
    BY <1>3, <2>1 DEF Beyond
  <2> QED
    BY <2>2 DEF Covered
<1> QED
  BY <1>2, <1>3 DEF AllCovered, Covered

\* A new pass over the consumers finds one to take, or to come back for, or
\* all of them are with threads that are delivering.
LEMMA PassCovers ==
    ASSUME NEW t \in Threads, NEW n \in Nodes, TypeOK', ConsumersOwned',
           pc'[t] = "look", left'[t] = Consumers, met'[t] = {},
           \E c \in Consumers : status'[c] # "disabled"
    PROVE  Covered(n)'
<1>1. PICK c \in Consumers : status'[c] # "disabled"
  OBVIOUS
<1>2. status'[c] \in {"enabled", "getting", "delivering"}
  BY <1>1 DEF TypeOK
<1>3. CASE status'[c] \in {"enabled", "getting"}
  <2>1. WillLook(t)'
    BY <1>3 DEF WillLook
  <2> QED
    BY <2>1 DEF Covers, Covered
<1>4. CASE status'[c] = "delivering"
  <2>1. PICK u \in Threads : batch'[u] # << >>
    BY <1>4 DEF ConsumersOwned
  <2> QED
    BY <2>1 DEF Covers, Covered
<1> QED
  BY <1>2, <1>3, <1>4

\* A search that ends before message n met a put that is unfinished: one
\* outside a transaction looks itself, the other is remembered.
LEMMA EndCovered ==
    ASSUME NEW t \in Threads, NEW n \in Nodes, QueueInv, SupportInv, Gettable(n),
           pc[t] \in {"mark", "scan"}, AtEnd(pos[t]), pos[t] <= n, OthersStay(t),
           pc'[t] = "giveup", short' = (IF lock[pos[t]] = NoThread THEN 0 ELSE pos[t]),
           getCursor' <= pos[t]
    PROVE  Covered(n)'
<1>1. pos[t] \in Nodes /\ \A u \in Threads \ {t} : pc[u] \notin LocatePcs
  BY GetLockOwner DEF LocatePcs
<1>2. pos[t] # n
  BY DEF AtEnd, Gettable, Present
<1>3. pos[t] < n /\ pos[t] > 0
  BY <1>1, <1>2, Parameters
<1>4. n <= tail
  BY Parameters DEF Gettable, Present, QueueInv, NodesAhead, TypeOK
<1>5. pos[t] \in 1..tail
  BY <1>1, <1>3, <1>4, Parameters DEF QueueInv, TypeOK
<1>6. PICK u \in Threads : pc[u] \in PutPcs /\ pos[u] = pos[t]
  BY <1>5 DEF SupportInv, PutsFill
<1>7. u # t /\ pc'[u] = pc[u]
  BY <1>6 DEF PutPcs, OthersStay
<1>8. CASE pc[u] = "put"
  BY <1>7, <1>8 DEF Covers, Covered
<1>9. CASE pc[u] = "tranput"
  <2>1. lock[pos[t]] = u /\ u # NoThread
    BY <1>6, <1>9, Parameters DEF SupportInv, PutsFill
  <2>2. short' = pos[t]
    BY <2>1
  <2>3. \A v \in Threads : pc'[v] \notin LocatePcs
    BY <1>1 DEF OthersStay, LocatePcs
  <2>4. Beyond(n)'
    BY <1>3, <2>2, <2>3 DEF Beyond
  <2> QED
    BY <2>4 DEF Covered
<1> QED
  BY <1>6, <1>8, <1>9 DEF PutPcs

\* A search that is behind message n, or that message n is behind.
LEMMA SearchCovered ==
    ASSUME NEW t \in Threads, NEW n \in Nodes, QueueInv, AllCovered, Wanted(n), OthersStay(t),
           pc[t] \in LocatePcs, pc[t] # "keep", ~(pos[t] <= n), UNCHANGED <<prevented, status>>,
           batch'[t] = batch[t]
    PROVE  Covered(n)'
<1>1. TypeOK /\ \A u \in Threads \ {t} : pc[u] \notin LocatePcs
  BY GetLockOwner DEF QueueInv
<1>2. ~Beyond(n)
  BY DEF Beyond
<1>3. PICK u \in Threads : Covers(u, n)
  BY <1>2 DEF AllCovered, Covered
<1>4. CASE u = t
  <2>1. batch[t] # << >>
    BY <1>3, <1>4 DEF Covers, LocatePcs
  <2> QED
    BY <2>1 DEF Covers, Covered
<1>5. CASE u # t
  <2>1. pc[u] \notin {"mark", "cas"}
    BY <1>1, <1>5 DEF LocatePcs
  <2>2. Covers(u, n)'
    BY <1>1, <1>3, <1>5, <2>1, CoversFrame
  <2> QED
    BY <2>2 DEF Covered
<1> QED
  BY <1>4, <1>5

LEMMA AssignQSlotCovers ==
    ASSUME NEW t \in Threads, NEW inTran \in BOOLEAN, QueueInv, SupportInv, AllCovered,
           AssignQSlot(t, inTran)
    PROVE  AllCovered'
<1> SUFFICES ASSUME NEW n \in Nodes, Wanted(n)' PROVE Covered(n)'
  BY DEF AllCovered
<1>1. CASE ~inTran
  <2>1. pc'[t] = "put"
    BY <1>1 DEF AssignQSlot, Goto, QueueInv, TypeOK
  <2> QED
    BY <2>1 DEF Covers, Covered
<1>2. CASE inTran
  <2>1. /\ pc[t] = "idle" /\ pc' = [pc EXCEPT ![t] = "tranput"] /\ tail' = tail + 1 /\ tail < MaxMsgs
        /\ lock' = [lock EXCEPT ![tail + 1] = t] /\ inflight' = inflight + 1
        /\ pos' = [pos EXCEPT ![t] = tail + 1]
        /\ UNCHANGED <<node, getCursor, status, prevented, woken, batch, left, met, short>>
    BY <1>2 DEF AssignQSlot, Goto
  <2>2. OthersStay(t) /\ pc'[t] = "tranput"
    BY <2>1 DEF OthersStay, QueueInv, TypeOK
  <2>3. lock[n] = NoThread
    <3>1. lock'[n] = NoThread
      BY DEF Wanted, Gettable
    <3> QED
      BY <2>1, <3>1, Parameters DEF QueueInv, TypeOK
  <2>4. TooMany => TooMany'
    <3>1. inflight \in Nat /\ DeliveryLimit \in Nat
      BY QueueParameters DEF QueueInv, TypeOK
    <3> QED
      BY <2>1, <3>1 DEF TooMany
  <2>5. Wanted(n)
    BY <2>1, <2>3, <2>4 DEF Wanted, Gettable, Present
  <2>6. ~Covers(t, n)
    BY <2>1 DEF Covers, SupportInv, ConsumersOwned, ServePcs, LocatePcs
  <2> QED
    BY <2>1, <2>2, <2>5, <2>6, CoveredFrame DEF LocatePcs
<1> QED
  BY <1>1, <1>2

LEMMA FinishPutCovers ==
    ASSUME NEW t \in Threads, QueueInv, SupportInv, AllCovered, FinishPut(t)
    PROVE  AllCovered'
<1> SUFFICES ASSUME NEW n \in Nodes, Wanted(n)' PROVE Covered(n)'
  BY DEF AllCovered
<1>1. CASE pc[t] = "put"
  <2>1. pc'[t] = "check"
    BY <1>1 DEF FinishPut, Goto, QueueInv, TypeOK
  <2> QED
    BY <2>1 DEF Covers, Covered
<1>2. CASE pc[t] = "tranput"
  <2>1. /\ node' = [node EXCEPT ![pos[t]].msg = TRUE] /\ pos' = [pos EXCEPT ![t] = 0]
        /\ pc' = [pc EXCEPT ![t] = "idle"]
        /\ UNCHANGED <<lock, getCursor, status, inflight, prevented, woken, batch, left, met, short>>
    BY <1>2 DEF FinishPut, Goto
  <2>2. OthersStay(t) /\ pc'[t] = "idle"
    BY <2>1 DEF OthersStay, QueueInv, TypeOK
  <2>3. lock[pos[t]] = t /\ pos[t] \in Nodes
    BY <1>2, Parameters DEF SupportInv, PutsFill, PutPcs, QueueInv, NodesAhead, TypeOK
  <2>4. n # pos[t]
    BY <2>1, <2>3, Parameters DEF Wanted, Gettable
  <2>5. node'[n] = node[n]
    BY <2>1, <2>3, <2>4, NodeMsg DEF QueueInv
  <2>6. Wanted(n)
    BY <2>1, <2>5 DEF Wanted, Gettable, Present, TooMany
  <2>7. ~Covers(t, n)
    BY <1>2 DEF Covers, SupportInv, ConsumersOwned, ServePcs, LocatePcs
  <2> QED
    BY <2>1, <2>2, <2>6, <2>7, CoveredFrame DEF LocatePcs
<1> QED
  BY <1>1, <1>2 DEF FinishPut

\* A transaction that ends without waking anybody made nothing available.
LEMMA EndTranCovers ==
    ASSUME NEW t \in Threads, NEW w \in BOOLEAN, QueueInv, SupportInv, AllCovered, pc[t] = "idle",
           pc' = [pc EXCEPT ![t] = "rewind"], woken' = [woken EXCEPT ![t] = w],
           UNCHANGED <<lock, getCursor, status, prevented, pos, batch, left, met, short>>,
           \A n \in Nodes : lock[n] = NoThread => node'[n] = node[n]
    PROVE  AllCovered'
<1> SUFFICES ASSUME NEW n \in Nodes, Wanted(n)' PROVE Covered(n)'
  BY DEF AllCovered
<1>1. OthersStay(t) /\ pc'[t] = "rewind"
  BY DEF OthersStay, QueueInv, TypeOK
<1>2. CASE prevented
  BY <1>1, <1>2 DEF Covers, Covered
<1>3. CASE ~prevented
  <2>1. Wanted(n)
    BY <1>3 DEF Wanted, Gettable, Present
  <2>2. ~Covers(t, n)
    BY DEF Covers, SupportInv, ConsumersOwned, ServePcs, LocatePcs
  <2> QED
    BY <1>1, <2>1, <2>2, CoveredFrame DEF LocatePcs
<1> QED
  BY <1>2, <1>3

LEMMA CommitCovers ==
    ASSUME NEW t \in Threads, QueueInv, SupportInv, AllCovered, Commit(t) \/ Rollback(t)
    PROVE  AllCovered'
<1>1. t \notin releasing /\ pc[t] = "idle" /\ pc' = [pc EXCEPT ![t] = "rewind"]
  BY DEF Commit, Rollback, Goto, QueueInv, LocksHeld
<1>2. \A n \in ToSet(puts[t]) \union ToSet(acks[t]) : lock[n] # NoThread
  BY <1>1, HeldLocked, Parameters DEF Holds
<1>3. CASE Commit(t)
  <2>1. \A n \in Nodes : lock[n] = NoThread => node'[n] = node[n]
    BY <1>2, <1>3 DEF Commit
  <2>2. (puts[t] # << >>) \in BOOLEAN
    OBVIOUS
  <2> QED
    BY <1>1, <1>3, <2>1, <2>2, EndTranCovers DEF Commit, scanVars
<1>4. CASE Rollback(t)
  <2>1. \A n \in Nodes : lock[n] = NoThread => node'[n] = node[n]
    BY <1>2, <1>4 DEF Rollback
  <2>2. (acks[t] # << >>) \in BOOLEAN
    OBVIOUS
  <2> QED
    BY <1>1, <1>4, <2>1, <2>2, EndTranCovers DEF Rollback, scanVars
<1> QED
  BY <1>3, <1>4

LEMMA TranEndsCovers ==
    ASSUME NEW t \in Threads, QueueInv, SupportInv, AllCovered, TranEnds(t)
    PROVE  AllCovered'
<1> SUFFICES ASSUME NEW n \in Nodes, Wanted(n)' PROVE Covered(n)'
  BY DEF AllCovered
<1>1. CASE RewindGetCursor(t)
  <2>1. pc'[t] = "rewind" /\ woken'[t]
    BY <1>1 DEF RewindGetCursor, tranVars, SupportInv, WillWake
  <2> QED
    BY <2>1 DEF Covers, Covered
<1>2. CASE StartComplete(t)
  <2>1. /\ pc[t] = "rewind" /\ pc' = [pc EXCEPT ![t] = "unlock"]
        /\ UNCHANGED <<node, lock, getCursor, status, inflight, prevented, woken, pos, batch, left, met, short>>
    BY <1>2 DEF StartComplete, Goto, tranVars, scanVars
  <2>2. OthersStay(t) /\ pc'[t] = "unlock"
    BY <2>1 DEF OthersStay, QueueInv, TypeOK
  <2>3. Wanted(n)
    BY <2>1 DEF Wanted, Gettable, Present, TooMany
  <2>4. Covers(t, n) => Covers(t, n)'
    BY <2>1, <2>2 DEF Covers
  <2> QED
    BY <2>1, <2>2, <2>3, <2>4, CoveredFrame DEF LocatePcs
<1>3. CASE Unlock(t)
  <2>1. /\ pc[t] = "unlock" /\ todo[t] # << >> /\ lock' = [lock EXCEPT ![Head(todo[t])] = NoThread]
        /\ UNCHANGED <<node, getCursor, status, inflight, prevented, woken, pos, batch, left, met, short, pc>>
    BY <1>3 DEF Unlock, tranVars, scanVars
  <2>2. CASE n = Head(todo[t])
    <3>1. Head(todo[t]) \in Holds(t)
      BY <2>1, SeqNodes, ToSetTail DEF Holds, QueueInv
    <3>2. Present(n)
      BY <2>1 DEF Wanted, Gettable, Present
    <3>3. woken[t]
      BY <2>1, <2>2, <3>1, <3>2 DEF SupportInv, WillWake
    <3> QED
      BY <2>1, <3>3 DEF Covers, Covered
  <2>3. CASE n # Head(todo[t])
    <3>1. lock'[n] = lock[n]
      BY <2>1, <2>3 DEF QueueInv, TypeOK
    <3>2. Wanted(n)
      BY <2>1, <3>1 DEF Wanted, Gettable, Present, TooMany
    <3>3. OthersStay(t)
      BY <2>1 DEF OthersStay
    <3>4. Covers(t, n) => Covers(t, n)'
      BY <2>1 DEF Covers
    <3> QED
      BY <2>1, <3>2, <3>3, <3>4, CoveredFrame DEF LocatePcs
  <2> QED
    BY <2>2, <2>3
<1>4. CASE PostRelease(t)
  <2>1. /\ pc[t] = "unlock" /\ pc' = [pc EXCEPT ![t] = IF woken[t] THEN "check" ELSE "startable"]
        /\ woken' = [woken EXCEPT ![t] = FALSE]
        /\ UNCHANGED <<node, lock, getCursor, status, inflight, prevented, pos, batch, left, met, short>>
    BY <1>4 DEF PostRelease, Goto, scanVars
  <2>2. OthersStay(t) /\ pc'[t] = IF woken[t] THEN "check" ELSE "startable"
    BY <2>1 DEF OthersStay, QueueInv, TypeOK
  <2>3. Wanted(n)
    BY <2>1 DEF Wanted, Gettable, Present, TooMany
  <2>4. Covers(t, n) => Covers(t, n)'
    BY <2>1, <2>2 DEF Covers
  <2> QED
    BY <2>1, <2>2, <2>3, <2>4, CoveredFrame DEF LocatePcs
<1> QED
  BY <1>1, <1>2, <1>3, <1>4 DEF TranEnds

LEMMA ClientsCover ==
    ASSUME NEW t \in Threads, NEW m \in Nodes, QueueInv, SupportInv, AllCovered,
           Acknowledge(t, m) \/ AcknowledgeInTran(t, m)
    PROVE  AllCovered'
<1> SUFFICES ASSUME NEW n \in Nodes, Wanted(n)' PROVE Covered(n)'
  BY DEF AllCovered
<1>1. pc[t] = "idle" /\ ~Covers(t, n)
  BY DEF Acknowledge, AcknowledgeInTran, Covers, SupportInv, ConsumersOwned, ServePcs, LocatePcs
<1>2. CASE Acknowledge(t, m)
  <2>1. /\ pc' = [pc EXCEPT ![t] = "startable"]
        /\ node' = [node EXCEPT ![m] = [state |-> "consumed", msg |-> FALSE]]
        /\ UNCHANGED <<lock, getCursor, status, prevented, woken, pos, batch, left, met, short>>
    BY <1>2 DEF Acknowledge, Goto, tranVars, scanVars
  <2>2. OthersStay(t) /\ pc'[t] = "startable"
    BY <2>1 DEF OthersStay, QueueInv, TypeOK
  <2>3. CASE prevented
    BY <2>1, <2>2, <2>3 DEF Covers, Covered
  <2>4. CASE ~prevented
    <3>1. n = m => node'[n].state = "consumed"
      BY <2>1 DEF QueueInv, TypeOK
    <3>2. n # m
      BY <3>1 DEF Wanted, Gettable, Present
    <3>3. node'[n] = node[n]
      BY <2>1, <3>2 DEF QueueInv, TypeOK
    <3>4. Wanted(n)
      BY <2>1, <2>4, <3>3 DEF Wanted, Gettable, Present
    <3> QED
      BY <1>1, <2>1, <2>2, <3>4, CoveredFrame DEF LocatePcs
  <2> QED
    BY <2>3, <2>4
<1>3. CASE AcknowledgeInTran(t, m)
  <2>1. /\ lock' = [lock EXCEPT ![m] = t]
        /\ node' = [node EXCEPT ![m].state = "consumed"]
        /\ UNCHANGED <<getCursor, status, inflight, prevented, woken, pos, batch, left, met, short, pc>>
    BY <1>3 DEF AcknowledgeInTran, scanVars
  <2>2. OthersStay(t)
    BY <2>1 DEF OthersStay
  <2>3. n # m
    BY <2>1, Parameters DEF Wanted, Gettable, QueueInv, TypeOK
  <2>4. node'[n] = node[n] /\ lock'[n] = lock[n]
    BY <2>1, <2>3, NodeState DEF States, QueueInv, TypeOK
  <2>5. Wanted(n)
    BY <2>1, <2>4 DEF Wanted, Gettable, Present, TooMany
  <2> QED
    BY <1>1, <2>1, <2>2, <2>5, CoveredFrame DEF LocatePcs
<1> QED
  BY <1>2, <1>3

\* After these steps the thread itself is going to look.
LEMMA LooksItself ==
    ASSUME NEW t \in Threads,
           \/ pc'[t] \in {"put", "nack", "check", "full", "prevent", "allow", "lock", "keep"}
           \/ batch'[t] # << >>
    PROVE  AllCovered'
BY DEF Covers, Covered, AllCovered

LEMMA RequestsCover ==
    ASSUME NEW t \in Threads, QueueInv, SupportInv, AllCovered, Requests(t)
    PROVE  AllCovered'
<1>1. ASSUME NEW n \in Nodes, NackAvailable(t, n) PROVE AllCovered'
  <2>1. pc'[t] = "nack"
    BY <1>1 DEF NackAvailable, Goto, QueueInv, TypeOK
  <2> QED
    BY <2>1, LooksItself
<1>2. ASSUME NEW c \in Consumers, EnableWaiter(t, c) PROVE AllCovered'
  <2>1. pc'[t] = "check"
    BY <1>2 DEF EnableWaiter, Goto, QueueInv, TypeOK
  <2> QED
    BY <2>1, LooksItself
<1> QED
  BY <1>1, <1>2, AssignQSlotCovers, CommitCovers, ClientsCover DEF Requests

\* The step that only goes from one point to another.
LEMMA MoveCovers ==
    ASSUME NEW t \in Threads, NEW l, QueueInv, AllCovered, pc' = [pc EXCEPT ![t] = l], l \notin LocatePcs,
           UNCHANGED <<node, lock, getCursor, status, inflight, prevented, woken, pos, batch, left, met, short>>,
           \A n \in Nodes : Wanted(n) /\ Covers(t, n) => Covers(t, n)'
    PROVE  AllCovered'
<1> SUFFICES ASSUME NEW n \in Nodes, Wanted(n)' PROVE Covered(n)'
  BY DEF AllCovered
<1>1. OthersStay(t) /\ pc'[t] = l
  BY DEF OthersStay, QueueInv, TypeOK
<1>2. Wanted(n)
  BY DEF Wanted, Gettable, Present, TooMany
<1> QED
  BY <1>1, <1>2, CoveredFrame

LEMMA StartableCovers ==
    ASSUME NEW t \in Threads, QueueInv, SupportInv, AllCovered,
           CheckStartable(t) \/ ExchangePrevention(t)
    PROVE  AllCovered'
<1>1. batch[t] = << >>
  BY DEF CheckStartable, ExchangePrevention, SupportInv, ConsumersOwned, ServePcs, LocatePcs
<1>2. inflight \in Nat /\ DeliveryLimit \in Nat
  BY QueueParameters DEF QueueInv, TypeOK
<1>3. CASE CheckStartable(t)
  <2> DEFINE l == IF prevented /\ inflight < DeliveryLimit THEN "exchange" ELSE "idle"
  <2>1. /\ pc[t] = "startable" /\ pc' = [pc EXCEPT ![t] = l]
        /\ UNCHANGED <<node, lock, getCursor, status, inflight, prevented, woken, pos, batch, left, met, short>>
    BY <1>3 DEF CheckStartable, Goto, tranVars, scanVars
  <2>2. pc'[t] = l /\ l \notin LocatePcs
    BY <2>1 DEF QueueInv, TypeOK, LocatePcs
  <2>3. ASSUME NEW n \in Nodes, Wanted(n), Covers(t, n) PROVE Covers(t, n)'
    <3>1. prevented
      BY <1>1, <2>1, <2>3 DEF Covers
    <3>2. ~TooMany /\ DeliveryLimit # 0
      BY <2>3, <3>1 DEF Wanted, SupportInv, LimitKept
    <3>3. inflight < DeliveryLimit
      BY <1>2, <3>2 DEF TooMany
    <3>4. pc'[t] = "exchange" /\ prevented'
      BY <2>1, <2>2, <3>1, <3>3
    <3> QED
      BY <3>4 DEF Covers
  <2> HIDE DEF l
  <2> QED
    BY <2>1, <2>2, <2>3, MoveCovers
<1>4. CASE ExchangePrevention(t) /\ prevented
  <2>1. pc'[t] = "check"
    BY <1>4 DEF ExchangePrevention, Goto, QueueInv, TypeOK
  <2> QED
    BY <2>1, LooksItself
<1>5. CASE ExchangePrevention(t) /\ ~prevented
  <2>1. prevented' = prevented
    BY <1>5 DEF ExchangePrevention, QueueInv, TypeOK
  <2>2. /\ pc[t] = "exchange" /\ pc' = [pc EXCEPT ![t] = "idle"] /\ "idle" \notin LocatePcs
        /\ UNCHANGED <<node, lock, getCursor, status, inflight, woken, pos, batch, left, met, short>>
    BY <1>5 DEF ExchangePrevention, Goto, tranVars, scanVars, LocatePcs
  <2>3. \A n \in Nodes : ~Covers(t, n)
    BY <1>1, <1>5, <2>2 DEF Covers
  <2> QED
    BY <2>1, <2>2, <2>3, MoveCovers
<1> QED
  BY <1>3, <1>4, <1>5

LEMMA FullChecksCover ==
    ASSUME NEW t \in Threads, QueueInv, QueueInv', SupportInv, SupportInv', AllCovered,
           \/ CheckWaiters(t) \/ CheckFullDelivery(t) \/ PreventDelivery(t) \/ RecheckFullDelivery(t)
           \/ AllowDelivery(t)
    PROVE  AllCovered'
<1>1. CASE CheckWaiters(t)
  <2>1. CASE bufferedMsgs # {}
    <3>1. pc'[t] = "full"
      BY <1>1, <2>1 DEF CheckWaiters, Goto, QueueInv, TypeOK
    <3> QED
      BY <3>1, LooksItself
  <2>2. CASE bufferedMsgs = {}
    <3>1. ASSUME NEW n \in Nodes, Wanted(n)' PROVE FALSE
      <4>1. Present(n) /\ UNCHANGED <<node, lock, tail>>
        BY <1>1, <3>1 DEF CheckWaiters, Wanted, Gettable, Present
      <4>2. n \in 1..tail
        BY <4>1, Parameters DEF QueueInv, NodesAhead, Present, TypeOK
      <4> QED
        BY <2>2, <4>1, <4>2 DEF bufferedMsgs, Present
    <3> QED
      BY <3>1 DEF AllCovered
  <2> QED
    BY <2>1, <2>2
<1>2. CASE CheckFullDelivery(t)
  <2>1. pc'[t] \in {"prevent", "allow"}
    BY <1>2 DEF CheckFullDelivery, Goto, QueueInv, TypeOK
  <2> QED
    BY <2>1, LooksItself
<1>3. CASE PreventDelivery(t)
  <2>1. pc'[t] = "recheck" /\ prevented'
    BY <1>3 DEF PreventDelivery, Goto, QueueInv, TypeOK
  <2> QED
    BY <2>1 DEF Covers, Covered, AllCovered
<1>4. CASE RecheckFullDelivery(t) /\ ~TooMany
  <2>1. pc'[t] = "allow"
    BY <1>4 DEF RecheckFullDelivery, Goto, QueueInv, TypeOK
  <2> QED
    BY <2>1, LooksItself
<1>5. CASE RecheckFullDelivery(t) /\ TooMany
  <2>1. /\ pc[t] = "recheck" /\ pc' = [pc EXCEPT ![t] = "idle"] /\ "idle" \notin LocatePcs
        /\ UNCHANGED <<node, lock, getCursor, status, inflight, prevented, woken, pos, batch, left, met, short>>
    BY <1>5 DEF RecheckFullDelivery, Goto, tranVars, scanVars, LocatePcs
  <2>2. batch[t] = << >>
    BY <2>1 DEF SupportInv, ConsumersOwned, ServePcs, LocatePcs
  <2>3. \A n \in Nodes : Wanted(n) => ~Covers(t, n)
    BY <1>5, <2>1, <2>2 DEF Covers, Wanted
  <2> QED
    BY <2>1, <2>3, MoveCovers
<1>6. CASE AllowDelivery(t)
  <2>1. pc'[t] = "look" /\ left'[t] = Consumers /\ met'[t] = {}
    BY <1>6 DEF AllowDelivery, StartPass, Goto, QueueInv, TypeOK
  <2> QED
    BY <2>1, PassCovers DEF AllCovered, Wanted, QueueInv, SupportInv
<1> QED
  BY <1>1, <1>2, <1>3, <1>4, <1>5, <1>6

LEMMA LockWaiterCovers ==
    ASSUME NEW t \in Threads, NEW c \in Consumers, QueueInv, SupportInv, AllCovered, LockWaiter(t, c)
    PROVE  AllCovered'
<1>1. CASE status[c] = "enabled"
  <2>1. pc'[t] = "lock"
    BY <1>1 DEF LockWaiter, Goto, QueueInv, TypeOK
  <2> QED
    BY <2>1, LooksItself
<1>2. CASE status[c] = "delivering"
  <2>1. PICK u \in Threads : batch[u] # << >>
    BY <1>2 DEF SupportInv, ConsumersOwned
  <2>2. batch'[u] # << >>
    BY <2>1 DEF LockWaiter
  <2> QED
    BY <2>2, LooksItself
<1>3. CASE status[c] \in {"disabled", "getting"}
  <2>1. /\ pc[t] = "look" /\ c \in left[t]
        /\ left' = [left EXCEPT ![t] = left[t] \ {c}]
        /\ met' = [met EXCEPT ![t] = met[t] \union ({status[c]} \ {"disabled"})]
        /\ UNCHANGED <<node, lock, getCursor, status, inflight, prevented, woken, pos, batch, short, pc>>
    BY <1>3 DEF LockWaiter, tranVars
  <2>2. /\ OthersStay(t) /\ left'[t] = left[t] \ {c}
        /\ met'[t] = met[t] \union ({status[c]} \ {"disabled"})
    BY <2>1 DEF OthersStay, QueueInv, TypeOK
  <2>3. WillLook(t) => WillLook(t)'
    <3>1. CASE \E d \in left[t] : status[d] = "enabled"
      BY <1>3, <2>1, <2>2, <3>1 DEF WillLook
    <3>2. CASE /\ "delivering" \notin met[t]
               /\ met[t] # {} \/ \E d \in left[t] : status[d] = "getting"
      <4>1. "delivering" \notin met'[t]
        BY <1>3, <2>2, <3>2
      <4>2. met'[t] # {} \/ \E d \in left'[t] : status'[d] = "getting"
        <5>1. CASE status[c] = "getting"
          BY <2>2, <5>1
        <5>2. CASE status[c] = "disabled"
          BY <2>1, <2>2, <3>2, <5>2
        <5> QED
          BY <1>3, <5>1, <5>2
      <4> QED
        BY <4>1, <4>2 DEF WillLook
    <3> QED
      BY <3>1, <3>2 DEF WillLook
  <2>4. \A n \in Nodes : Covers(t, n) => Covers(t, n)'
    BY <2>1, <2>3 DEF Covers
  <2>5. \A n \in Nodes : Wanted(n)' => Wanted(n)
    BY <2>1 DEF Wanted, Gettable, Present, TooMany
  <2>6. pc'[t] \notin LocatePcs
    BY <2>1 DEF LocatePcs
  <2> QED
    BY <2>1, <2>2, <2>4, <2>5, <2>6, CoveredFrame DEF AllCovered
<1> QED
  BY <1>1, <1>2, <1>3 DEF QueueInv, TypeOK

LEMMA NoWaiterCovers ==
    ASSUME NEW t \in Threads, QueueInv, QueueInv', SupportInv, SupportInv', AllCovered, NoWaiter(t)
    PROVE  AllCovered'
<1>1. CASE met[t] = {"getting"}
  <2>1. pc'[t] = "look" /\ left'[t] = Consumers /\ met'[t] = {}
    BY <1>1 DEF NoWaiter, StartPass, Goto, QueueInv, TypeOK
  <2> QED
    BY <2>1, PassCovers DEF AllCovered, Wanted, QueueInv, SupportInv
<1>2. CASE met[t] # {"getting"}
  <2>1. /\ pc[t] = "look" /\ left[t] = {} /\ met' = [met EXCEPT ![t] = {}]
        /\ pc' = [pc EXCEPT ![t] = "idle"]
        /\ UNCHANGED <<node, lock, getCursor, status, inflight, prevented, woken, pos, batch, left, short>>
    BY <1>2 DEF NoWaiter, Goto, tranVars
  <2>2. OthersStay(t) /\ pc'[t] = "idle"
    BY <2>1 DEF OthersStay, QueueInv, TypeOK
  <2>3. batch[t] = << >> /\ met[t] \subseteq {"getting", "delivering"}
    BY <2>1 DEF SupportInv, ConsumersOwned, ServePcs, LocatePcs, QueueInv, TypeOK
  <2>4. ~WillLook(t)
    BY <1>2, <2>1, <2>3 DEF WillLook
  <2>5. \A n \in Nodes : ~Covers(t, n)
    BY <2>1, <2>3, <2>4 DEF Covers
  <2>6. \A n \in Nodes : Wanted(n)' => Wanted(n)
    BY <2>1 DEF Wanted, Gettable, Present, TooMany
  <2> QED
    BY <2>1, <2>2, <2>5, <2>6, CoveredFrame DEF AllCovered, LocatePcs
<1> QED
  BY <1>1, <1>2

\* The cursor is at no later node than any message that can be got, but for
\* one whose thread is about to rewind, and will look.
LEMMA TakeGetLockCovers ==
    ASSUME NEW t \in Threads, QueueInv, SupportInv, AllCovered, TakeGetLock(t)
    PROVE  AllCovered'
<1> SUFFICES ASSUME NEW n \in Nodes, Wanted(n)' PROVE Covered(n)'
  BY DEF AllCovered
<1>1. /\ pc[t] = "lock" /\ getlock = NoThread /\ pc' = [pc EXCEPT ![t] = "mark"]
      /\ pos' = [pos EXCEPT ![t] = getCursor]
      /\ UNCHANGED <<node, lock, getCursor, batch>>
  BY DEF TakeGetLock, Goto
<1>2. pc'[t] = "mark" /\ pos'[t] = getCursor
  BY <1>1 DEF QueueInv, TypeOK
<1>3. CASE getCursor <= n
  BY <1>1, <1>2, <1>3 DEF Covers, Covered
<1>4. CASE ~(getCursor <= n)
  <2>1. n < getCursor /\ Gettable(n)
    BY <1>1, <1>4, Parameters DEF Wanted, Gettable, Present, QueueInv, TypeOK
  <2>2. PICK u \in Threads : n \in AboutToRewind(u)
    BY <1>1, <2>1, InvCursor DEF CursorNotPastMessages
  <2>3. pc[u] \in {"nack", "undone"} /\ (pc[u] = "undone" => batch[u] # << >>)
    BY <2>2 DEF AboutToRewind, QueueInv, BatchesInOrder
  <2>4. pc'[u] = pc[u] /\ batch'[u] = batch[u]
    BY <1>1, <2>3 DEF QueueInv, TypeOK
  <2> QED
    BY <2>3, <2>4 DEF Covers, Covered
<1> QED
  BY <1>3, <1>4

LEMMA TryCursorCovers ==
    ASSUME NEW t \in Threads, QueueInv, SupportInv, AllCovered, TryCursor(t)
    PROVE  AllCovered'
<1>1. /\ pc[t] = "mark" /\ pc[t] \in LocatePcs /\ pos[t] \in Nodes /\ getCursor <= pos[t]
      /\ \A u \in Threads \ {t} : pc[u] \notin LocatePcs
  BY GetLockOwner DEF TryCursor, LocatePcs, QueueInv, GetLockHeld
<1>2. CASE MarkDelivered(t)
  <2>1. pc'[t] = "keep"
    BY <1>2 DEF MarkDelivered, Goto, QueueInv, TypeOK
  <2> QED
    BY <2>1, LooksItself
<1>3. ASSUME ~MarkDelivered(t), NEW n \in Nodes, Wanted(n)' PROVE Covered(n)'
  <2>1. /\ UNCHANGED <<node, lock, getCursor, status, inflight, prevented, woken, pos, batch, left, met>>
        /\ \/ pc' = [pc EXCEPT ![t] = "cas"] /\ short' = short
           \/ /\ AtEnd(pos[t]) /\ pc' = [pc EXCEPT ![t] = "giveup"]
              /\ short' = IF lock[pos[t]] = NoThread THEN 0 ELSE pos[t]
    BY <1>3 DEF TryCursor, EndSearch, Goto, tranVars
  <2>2. OthersStay(t)
    BY <2>1 DEF OthersStay, QueueInv, TypeOK
  <2>3. Wanted(n)
    BY <1>3, <2>1 DEF Wanted, Gettable, Present, TooMany
  <2>4. CASE ~(pos[t] <= n)
    BY <1>1, <2>1, <2>2, <2>3, <2>4, SearchCovered
  <2>5. CASE pos[t] <= n /\ AtEnd(pos[t]) /\ pc' = [pc EXCEPT ![t] = "giveup"]
             /\ short' = IF lock[pos[t]] = NoThread THEN 0 ELSE pos[t]
    <3>1. pc'[t] = "giveup" /\ getCursor' <= pos[t] /\ Gettable(n)
      BY <1>1, <2>1, <2>3, <2>5 DEF QueueInv, TypeOK, Wanted
    <3> QED
      BY <1>1, <2>2, <2>5, <3>1, EndCovered
  <2>6. CASE pos[t] <= n /\ pc' = [pc EXCEPT ![t] = "cas"] /\ short' = short
    <3>1. pc'[t] = "cas"
      BY <2>6 DEF QueueInv, TypeOK
    <3>2. CASE Beyond(n)
      <4>1. Beyond(n)'
        BY <1>1, <2>1, <2>2, <2>6, <3>1, <3>2 DEF Beyond, OthersStay
      <4> QED
        BY <4>1 DEF Covered
    <3>3. CASE ~Beyond(n)
      <4>1. PICK u \in Threads : Covers(u, n)
        BY <2>3, <3>3 DEF AllCovered, Covered
      <4>2. CASE u = t
        BY <1>1, <2>1, <3>1, <4>1, <4>2 DEF Covers, Covered
      <4>3. CASE u # t
        <5>1. Covers(u, n)'
          BY <2>1, <2>2, <4>1, <4>3, CoversFrame DEF QueueInv
        <5> QED
          BY <5>1 DEF Covered
      <4> QED
        BY <4>2, <4>3
    <3> QED
      BY <3>2, <3>3
  <2> QED
    BY <2>1, <2>4, <2>5, <2>6
<1> QED
  BY <1>2, <1>3 DEF AllCovered

LEMMA SetSearchingCovers ==
    ASSUME NEW t \in Threads, QueueInv, SupportInv, AllCovered, SetSearching(t)
    PROVE  AllCovered'
<1> SUFFICES ASSUME NEW n \in Nodes, Wanted(n)' PROVE Covered(n)'
  BY DEF AllCovered
<1>1. /\ pc[t] = "cas" /\ pc[t] \in LocatePcs
      /\ UNCHANGED <<node, lock, status, inflight, prevented, woken, pos, batch, left, met, short>>
  BY DEF SetSearching, tranVars, scanVars, LocatePcs
<1>2. OthersStay(t)
  BY <1>1 DEF OthersStay, SetSearching, Goto, QueueInv, TypeOK
<1>3. Wanted(n)
  BY <1>1 DEF Wanted, Gettable, Present, TooMany
<1>4. CASE ~(pos[t] <= n)
  BY <1>1, <1>2, <1>3, <1>4, SearchCovered
<1>5. CASE pos[t] <= n /\ getCursor = pos[t]
  <2>1. pc'[t] = "scan"
    BY <1>5 DEF SetSearching, Goto, QueueInv, TypeOK
  <2> QED
    BY <1>1, <1>5, <2>1 DEF Covers, Covered
<1>6. CASE getCursor # pos[t]
  <2>1. pc'[t] = "giveup" /\ getCursor' = getCursor
    BY <1>6 DEF SetSearching, Goto, QueueInv, TypeOK
  <2>2. Covers(t, n) => Covers(t, n)'
    BY <1>1, <1>6 DEF Covers
  <2> QED
    BY <1>1, <1>2, <1>3, <2>1, <2>2, CoveredFrame DEF LocatePcs
<1> QED
  BY <1>4, <1>5, <1>6

LEMMA ScanForwardCovers ==
    ASSUME NEW t \in Threads, QueueInv, SupportInv, AllCovered, ScanForward(t)
    PROVE  AllCovered'
<1>1. pc[t] = "scan" /\ pc[t] \in LocatePcs /\ pos[t] \in Nodes
  BY GetLockOwner DEF ScanForward, LocatePcs
<1>2. CASE MarkDelivered(t)
  <2>1. pc'[t] = "keep"
    BY <1>2 DEF MarkDelivered, Goto, QueueInv, TypeOK
  <2> QED
    BY <2>1, LooksItself
<1>3. ASSUME ~MarkDelivered(t), NEW n \in Nodes, Wanted(n)' PROVE Covered(n)'
  <2>1. /\ UNCHANGED <<node, lock, status, inflight, prevented, woken, batch, left, met>>
        /\ \/ Skipped(pos[t]) /\ pc' = pc /\ pos' = [pos EXCEPT ![t] = pos[t] + 1]
           \/ /\ AtEnd(pos[t]) /\ pc' = [pc EXCEPT ![t] = "giveup"] /\ pos' = pos
              /\ short' = IF lock[pos[t]] = NoThread THEN 0 ELSE pos[t]
              /\ getCursor' = IF pos[t] <= getCursor THEN pos[t] ELSE getCursor
    BY <1>3 DEF ScanForward, EndSearch, UpdateGetCursor, Goto, tranVars
  <2>2. OthersStay(t)
    BY <2>1 DEF OthersStay, QueueInv, TypeOK
  <2>3. Wanted(n)
    BY <1>3, <2>1 DEF Wanted, Gettable, Present, TooMany
  <2>4. CASE ~(pos[t] <= n)
    BY <1>1, <2>1, <2>2, <2>3, <2>4, SearchCovered
  <2>5. CASE pos[t] <= n /\ AtEnd(pos[t]) /\ pc' = [pc EXCEPT ![t] = "giveup"]
             /\ short' = (IF lock[pos[t]] = NoThread THEN 0 ELSE pos[t])
             /\ getCursor' = (IF pos[t] <= getCursor THEN pos[t] ELSE getCursor)
    <3>1. getCursor \in Nat /\ pos[t] \in Nat
      BY <1>1, Parameters DEF QueueInv, TypeOK
    <3>2. pc'[t] = "giveup" /\ getCursor' <= pos[t] /\ Gettable(n)
      BY <2>3, <2>5, <3>1 DEF QueueInv, TypeOK, Wanted
    <3> QED
      BY <1>1, <2>2, <2>5, <3>2, EndCovered
  <2>6. CASE pos[t] <= n /\ Skipped(pos[t]) /\ pc' = pc /\ pos' = [pos EXCEPT ![t] = pos[t] + 1]
    <3>1. pos[t] # n
      BY <2>3, <2>6 DEF Skipped, Wanted, Gettable
    <3>2. pos'[t] = pos[t] + 1 /\ pos[t] + 1 <= n
      BY <1>1, <2>6, <3>1, Parameters DEF QueueInv, TypeOK
    <3> QED
      BY <1>1, <2>6, <3>2 DEF Covers, Covered
  <2> QED
    BY <2>1, <2>4, <2>5, <2>6
<1> QED
  BY <1>2, <1>3 DEF AllCovered

LEMMA KeepOrReturnCovers ==
    ASSUME NEW t \in Threads, QueueInv, KeepOrReturn(t)
    PROVE  AllCovered'
<1>1. CASE Kept(t)
  <2>1. batch'[t] = Append(batch[t], pos[t]) /\ pos[t] \in Nodes /\ batch[t] \in Seq(Nodes)
    BY <1>1, SeqNodes DEF KeepOrReturn, QueueInv, TypeOK, GetLockHeld, LocatePcs
  <2>2. batch'[t] # << >>
    BY <2>1, ToSetAppend, ToSetOfSeq
  <2> QED
    BY <2>2, LooksItself
<1>2. CASE ~Kept(t) /\ batch[t] = << >>
  <2>1. pc'[t] = "full"
    BY <1>2 DEF KeepOrReturn, Goto, QueueInv, TypeOK
  <2> QED
    BY <2>1, LooksItself
<1>3. CASE ~Kept(t) /\ batch[t] # << >>
  <2>1. batch' = batch
    BY <1>3 DEF KeepOrReturn
  <2> QED
    BY <1>3, <2>1, LooksItself
<1> QED
  BY <1>1, <1>2, <1>3

LEMMA GiveUpCovers ==
    ASSUME NEW t \in Threads, QueueInv, SupportInv, AllCovered, GiveUp(t)
    PROVE  AllCovered'
<1>1. CASE batch[t] # << >>
  <2>1. batch' = batch
    BY DEF GiveUp
  <2> QED
    BY <1>1, <2>1, LooksItself
<1>2. CASE batch[t] = << >>
  <2>1. /\ pc[t] = "giveup" /\ pos' = [pos EXCEPT ![t] = 0] /\ pc' = [pc EXCEPT ![t] = "idle"]
        /\ status' = [status EXCEPT ![cons[t]] = "enabled"]
        /\ UNCHANGED <<node, lock, getCursor, inflight, prevented, woken, batch, left, met, short>>
    BY <1>2 DEF GiveUp, Goto, tranVars
  <2>2. OthersStay(t) /\ pc'[t] = "idle"
    BY <2>1 DEF OthersStay, QueueInv, TypeOK
  <2>3. cons[t] \in Consumers /\ status[cons[t]] = "getting"
    BY <1>2, <2>1, ConsumerTypes DEF SupportInv, ConsumersOwned, ServePcs, QueueInv
  <2>4. \A c \in Consumers : status'[c] = status[c] \/ (status[c] = "getting" /\ status'[c] = "enabled")
    BY <2>1, <2>3 DEF QueueInv, TypeOK
  <2>5. \A n \in Nodes : Wanted(n)' => Wanted(n)
    BY <2>1, <2>3 DEF Wanted, Gettable, Present, TooMany
  <2>6. \A n \in Nodes : ~Covers(t, n)
    BY <1>2, <2>1 DEF Covers
  <2> QED
    BY <2>1, <2>2, <2>4, <2>5, <2>6, CoveredFrame DEF AllCovered, LocatePcs
<1> QED
  BY <1>1, <1>2

LEMMA DeliversCover ==
    ASSUME NEW t \in Threads, QueueInv, Delivers(t)
    PROVE  AllCovered'
<1>1. batch'[t] # << >> \/ pc'[t] = "full"
  <2>1. CASE \E more \in BOOLEAN : DeliverMessage(t, more)
    <3>1. batch'[t] = << >> => pc' = [pc EXCEPT ![t] = "full"]
      BY <2>1 DEF DeliverMessage, Release, Goto
    <3> QED
      BY <3>1 DEF QueueInv, TypeOK
  <2>2. CASE UndoBatch(t)
    BY <2>2 DEF UndoBatch, scanVars, QueueInv, BatchesInOrder
  <2>3. CASE UndoRewind(t)
    BY <2>3 DEF UndoRewind, Release, Goto, QueueInv, TypeOK
  <2> QED
    BY <2>1, <2>2, <2>3 DEF Delivers
<1> QED
  BY <1>1, LooksItself

LEMMA ContinueCovers ==
    ASSUME NEW t \in Threads, QueueInv, QueueInv', SupportInv, SupportInv', AllCovered, Continue(t)
    PROVE  AllCovered'
<1>1. CASE NackRewind(t)
  <2>1. pc'[t] = "check"
    BY <1>1 DEF NackRewind, Goto, QueueInv, TypeOK
  <2> QED
    BY <2>1, LooksItself
<1>2. CASE Checks(t)
  BY <1>2, StartableCovers, FullChecksCover, LockWaiterCovers, NoWaiterCovers DEF Checks
<1>3. CASE Locates(t)
  BY <1>3, TakeGetLockCovers, TryCursorCovers, SetSearchingCovers, ScanForwardCovers,
     KeepOrReturnCovers, GiveUpCovers DEF Locates
<1> QED
  BY <1>1, <1>2, <1>3, FinishPutCovers, TranEndsCovers, DeliversCover DEF Continue

-----------------------------------------------------------------------------
CoverInv == SupportInv /\ AllCovered

LEMMA CoverInit == Init => CoverInv
<1> SUFFICES ASSUME Init PROVE CoverInv
  OBVIOUS
<1>1. \A t \in Threads : /\ pc[t] = "idle" /\ cons[t] = NoThread /\ batch[t] = << >>
                         /\ acks[t] = << >> /\ pos[t] = 0
  BY DEF Init
<1>2. tail = 0 /\ prevented = FALSE /\ 1..tail = {}
  BY DEF Init
<1>3. \A c \in Consumers : status[c] = "disabled"
  BY DEF Init
<1>4. ConsumersOwned
  BY <1>1, <1>3 DEF ConsumersOwned, ServePcs, LocatePcs
<1>5. PutsFill /\ WillWake
  BY <1>1, <1>2 DEF PutsFill, PutPcs, WillWake
<1>6. AckedKept
  BY <1>1 DEF AckedKept, ToSet
<1>7. LimitKept
  BY <1>1, <1>2 DEF LimitKept
<1>8. AllCovered
  BY <1>3 DEF AllCovered, Wanted
<1> QED
  BY <1>4, <1>5, <1>6, <1>7, <1>8 DEF CoverInv, SupportInv

LEMMA CoverNext == QueueInv /\ QueueInv' /\ CoverInv /\ [Next]_vars => CoverInv'
<1> SUFFICES ASSUME QueueInv, QueueInv', CoverInv, [Next]_vars PROVE CoverInv'
  OBVIOUS
<1>1. SupportInv /\ AllCovered /\ ConsumersOwned /\ TranLocks /\ LimitKept
  BY DEF CoverInv, SupportInv, TranLocks
<1>2. ASSUME NEW t \in Threads, Requests(t) PROVE CoverInv'
  <2>1. SupportInv'
    BY <1>1, <1>2, RequestsOwned, RequestsTran, LimitStep DEF SupportInv, TranLocks
  <2> QED
    BY <1>1, <1>2, <2>1, RequestsCover DEF CoverInv
<1>3. ASSUME NEW t \in Threads, Continue(t) PROVE CoverInv'
  <2>1. SupportInv'
    BY <1>1, <1>3, ContinueOwned, ContinueTran, LimitStep DEF SupportInv, TranLocks
  <2> QED
    BY <1>1, <1>3, <2>1, ContinueCovers DEF CoverInv
<1>4. CASE UNCHANGED vars
  BY <1>4 DEF vars, CoverInv, SupportInv, ConsumersOwned, PutsFill, AckedKept, WillWake, LimitKept,
     AllCovered, Wanted, Covered, Covers, WillLook, Beyond, Gettable, Present, AtEnd, Holds, TooMany
<1> QED
  BY <1>2, <1>3, <1>4 DEF Next, Finished

LEMMA CoverInvariant == Spec => []CoverInv
<1> QED
  BY QueueInvariant, CoverInit, CoverNext, PTL DEF Spec

LEMMA InvTrapped == QueueInv /\ CoverInv => NothingTrapped
<1> SUFFICES ASSUME QueueInv, CoverInv, Quiet, NEW n \in Nodes, ~(short > 0 /\ short < n), ~Served(n)
             PROVE  FALSE
  BY DEF NothingTrapped
<1>1. \E c \in Consumers : status[c] # "disabled"
  BY DEF Served
<1>2. Wanted(n)
  BY <1>1 DEF Served, Wanted
<1>3. \A t \in Threads : pc[t] = "idle" /\ batch[t] = << >>
  BY DEF Quiet, CoverInv, SupportInv, ConsumersOwned, ServePcs, LocatePcs
<1>4. \A t \in Threads : ~Covers(t, n)
  BY <1>3 DEF Covers
<1>5. ~Beyond(n)
  BY DEF Beyond
<1> QED
  BY <1>2, <1>4, <1>5 DEF CoverInv, AllCovered, Covered

(***************************************************************************)
(* iemq_checkWaiters, iemq_lockWillingWaiter, iemq_rewindGetCursor: no     *)
(* message is out of reach of the consumers.  None that can be got is      *)
(* behind the get cursor, and when every thread has left the queue none is *)
(* left with a consumer waiting for it, unless so much is in flight that   *)
(* an acknowledgement will restart delivery, or a search took an           *)
(* unfinished transactional put before it for the end of the queue.        *)
(***************************************************************************)
THEOREM MessagesWithinReach == Spec => []NothingOutOfReach
<1>1. QueueInv /\ CoverInv => NothingOutOfReach
  BY InvCursor, InvTrapped DEF NothingOutOfReach
<1> QED
  BY <1>1, QueueInvariant, CoverInvariant, PTL
=============================================================================

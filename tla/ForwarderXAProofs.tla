-------------------------- MODULE ForwarderXAProofs --------------------------
(***************************************************************************)
(* Proofs about ForwarderXA: whatever breaks, a message that the sending   *)
(* server gives up has been committed by the receiving server, once.       *)
(***************************************************************************)
EXTENDS ForwarderXA, FiniteSetTheorems, TLAPS

-----------------------------------------------------------------------------
(* What is on the connection and which engine calls are under way.         *)

LettersR == {s2r[i] : i \in DOMAIN s2r}
LettersS == {r2s[i] : i \in DOMAIN r2s}
RLetter(t, g) == \E x \in LettersR : x.t = t /\ x.g = g
SLetter(t, g) == \E x \in LettersS : x.t = t /\ x.g = g
Confirmed(g) == \E x \in LettersR : x.t = "PrepareReply" /\ x.g = g /\ x.ok
Named(g, m) == \E x \in LettersS : x.t = "Prepare" /\ x.g = g /\ m \in x.msgs
ConnRep == \E x \in LettersS : x.t = "ConnectReply"
SOp(o, g) == Op(o, g) \in sOps
ROp(o, g) == Op(o, g) \in rOps

\* The letters of the two directions of the connection, and the engine calls.
ToR == [t : {"RMessage"}, g : Msgs] \cup [t : {"PrepareReply"}, g : Gtrids, ok : BOOLEAN]
         \cup [t : {"CommitReply"}, g : Gtrids] \cup [t : {"Recover"}, g : Gtrids \cup {NoXA}]
ToS == [t : {"ConnectReply"}, auto : BOOLEAN] \cup [t : {"Start"}, g : {NoXA}]
         \cup [t : {"Prepare"}, g : Gtrids, msgs : SUBSET Msgs]
         \cup [t : {"Commit", "CommitRecover", "RollRecover"}, g : Gtrids]
SCalls == [op : {"create", "ack", "prepare", "Commit", "CommitRecover", "RollRecover"}, g : Gtrids]
            \cup [op : {"resume"}, g : {NoXA}]
RCalls == [op : {"create", "prepare", "commit", "recoverCommit"}, g : Gtrids]

Typed == /\ TypeOK
         /\ s2r \in Seq(ToR) /\ r2s \in Seq(ToS)
         /\ sOps \subseteq SCalls /\ rOps \subseteq RCalls
         /\ received \in [Msgs -> Nat]

(* Letters of which there is one at most.                                  *)
RecTypes == {"ConnectReply", "CommitRecover", "RollRecover", "Start"}
OnceR == \A i, j \in DOMAIN s2r : i # j =>
    /\ ~(s2r[i].t = "Recover" /\ s2r[j].t = "Recover")
    /\ s2r[i].t = s2r[j].t /\ s2r[i].t \in {"RMessage", "PrepareReply"} => s2r[i].g # s2r[j].g
OnceS == \A i, j \in DOMAIN r2s : i # j =>
    /\ ~(r2s[i].t \in RecTypes /\ r2s[j].t \in RecTypes)
    /\ r2s[i].t = "Prepare" /\ r2s[j].t = "Prepare" => r2s[i].g # r2s[j].g

-----------------------------------------------------------------------------
(* Where a transaction is in its round through the two servers.            *)
Gathered(g) == g = currentXA \/ g \in xaList
Collecting(g) == Gathered(g) \/ ROp("create", g)
Asked(g) == SLetter("Prepare", g)
Claimed(g) == SOp("create", g) \/ SOp("ack", g)
Acking(g) == Claimed(g) \/ SOp("prepare", g)
Hold(g) == sBranch[g] = "prepared" \/ SOp("prepare", g)
Answered(g) == RLetter("PrepareReply", g)
Preparing(g) == ROp("prepare", g)
TellRec(g) == \/ SLetter("CommitRecover", g) \/ SOp("CommitRecover", g)
              \/ SLetter("RollRecover", g) \/ SOp("RollRecover", g)
TellCommit(g) == \/ SLetter("Commit", g) \/ SOp("Commit", g)
                 \/ SLetter("CommitRecover", g) \/ SOp("CommitRecover", g)
TellRoll(g) == SLetter("RollRecover", g) \/ SOp("RollRecover", g)
Telling(g) == TellCommit(g) \/ TellRoll(g)
Told(g) == RLetter("CommitReply", g)
Asking == \E g \in Gtrids \cup {NoXA} : RLetter("Recover", g)

(* The decision to commit is taken; branch R is not committed yet; either. *)
Bound == {"prepared", "committing"}
Dec(g) == rBranch[g] \in {"prepared", "committing", "heuristic", "forgetting"}
Active(g) == rBranch[g] \in {"inflight", "prepared", "committing"}

(* The recovery of a connection: one question or answer is under way.      *)
Recovery == Asking \/ ConnRep \/ \E g \in Gtrids : TellRec(g)

(* Messages may flow, or do.                                               *)
Flowing ==
    \/ \E m \in Msgs : RLetter("RMessage", m)
    \/ RLetter("Recover", NoXA)
    \/ currentXA # NoXA /\ rMsgs[currentXA] # {}
    \/ linkUp /\ (started \/ SLetter("Start", NoXA))

-----------------------------------------------------------------------------
(* The inductive invariant.                                                *)

LinkPlaced ==
    /\ linkUp => sConn = "open" /\ rConn = "open"
    /\ rConn # "open" => s2r = <<>>
    /\ sConn # "open" => r2s = <<>>
    /\ sConn \in {"closed", "connecting"} =>
           /\ sOps = {} /\ ~started /\ recoveryList = {}
           /\ \A g \in Gtrids : sBranch[g] # "inflight"
    /\ rConn = "closed" =>
           /\ puts = {} /\ xaList = {} /\ currentXA = NoXA
           /\ \A g \in Gtrids : /\ ~ROp("create", g) /\ ~Preparing(g) /\ ~ROp("commit", g)
                                /\ rBranch[g] # "inflight"
    /\ ~rUp => /\ rConn = "closed" /\ rOps = {}
               /\ \A g \in Gtrids : /\ receiverXA[g] = "no"
                                    /\ rBranch[g] \in {"none", "prepared", "heuristic"}
    /\ rUp => \A g \in Gtrids : rBranch[g] # "prepared"

(* Sequence numbers are not used again while anything is left of them.     *)
Numbered ==
    /\ rUp => \A g \in Gtrids : g > seqn =>
           /\ rBranch[g] = "none" /\ receiverXA[g] = "no" /\ ~Collecting(g) /\ ~Preparing(g)
           /\ ~ROp("commit", g) /\ ~ROp("recoverCommit", g)
    /\ Flowing => \A g \in Gtrids : g > seqn =>
           sBranch[g] = "none" /\ ~Asked(g) /\ ~Acking(g) /\ ~Answered(g) /\ ~Telling(g)
    /\ \A g \in Gtrids : Told(g) \/ (linkUp /\ Telling(g)) => g <= seqn

(* A transaction is at one place of its round.                             *)
Placed == \A g \in Gtrids :
    /\ Collecting(g) => ~Asked(g) /\ ~Acking(g) /\ ~Answered(g) /\ ~Preparing(g)
    /\ Asked(g) => ~Acking(g) /\ ~Answered(g) /\ ~Preparing(g) /\ ~Telling(g) /\ ~Told(g)
    /\ Acking(g) => ~Answered(g) /\ ~Preparing(g) /\ ~Telling(g) /\ ~Told(g)
    /\ Answered(g) => ~Preparing(g) /\ ~Telling(g) /\ ~Told(g)
    /\ Preparing(g) => ~Telling(g) /\ ~Told(g)
    /\ rBranch[g] = "inflight" \/ ROp("create", g) => commits[g] = 0 /\ ~Told(g) /\ ~TellCommit(g)

(* While a connection recovers nothing else is under way on it.            *)
Quiet ==
    /\ ~started /\ ~SLetter("Start", NoXA) /\ puts = {} /\ xaList = {}
    /\ \A m \in Msgs : ~RLetter("RMessage", m)
    /\ \A g \in Gtrids :
           /\ ~Asked(g) /\ ~Acking(g) /\ ~Answered(g) /\ ~Preparing(g)
           /\ ~ROp("create", g) /\ ~ROp("commit", g)
           /\ ~SLetter("Commit", g) /\ ~SOp("Commit", g)
           /\ rBranch[g] = "inflight" => rMsgs[g] = {}
           /\ sBranch[g] # "inflight"

(* The question or answer is one.                                          *)
OneToken ==
    /\ Asking => ~ConnRep /\ \A g \in Gtrids : ~TellRec(g)
    /\ ConnRep => sOps = {} /\ s2r = <<>>
    /\ \A g, h \in Gtrids :
           /\ ~((SLetter("CommitRecover", g) \/ SLetter("RollRecover", g))
                /\ (SOp("CommitRecover", h) \/ SOp("RollRecover", h)))
           /\ ~(SOp("CommitRecover", g) /\ SOp("RollRecover", h))
           /\ SOp("CommitRecover", g) /\ SOp("CommitRecover", h) => g = h
           /\ SOp("RollRecover", g) /\ SOp("RollRecover", h) => g = h

Recovers ==
    /\ Recovery => Quiet
    /\ RLetter("Recover", NoXA) => \A g \in Gtrids : sBranch[g] = "none"
    /\ sConn = "open" /\ Recovery /\ ~ConnRep =>
           \A g \in Gtrids : sBranch[g] # "none" =>
               g \in recoveryList \/ RLetter("Recover", g) \/ TellRec(g)

(* Branch S against the engine calls of the sender.                        *)
BranchS == \A g \in Gtrids :
    /\ sBranch[g] = "prepared" \/ Acking(g) => g \in senderXA
    /\ SOp("create", g) \/ Asked(g) => sBranch[g] = "none"
    /\ SOp("ack", g) \/ SOp("prepare", g) => sBranch[g] = "inflight"
    /\ ~(SOp("ack", g) /\ SOp("prepare", g))
    /\ Telling(g) => sBranch[g] # "inflight"
    /\ Told(g) => sBranch[g] # "prepared"
    /\ linkUp /\ ~Recovery /\ Collecting(g) => sBranch[g] = "none"

(* Branch S against the sender's queue.                                    *)
Claims ==
    \A g, h \in Gtrids, m \in Msgs :
       /\ Named(g, m) => where[m] = "sent"
       /\ Claimed(g) /\ m \in sMsgs[g] => where[m] = "sent"
       /\ Hold(g) /\ m \in sMsgs[g] => where[m] = "acked"
       /\ Named(g, m) => ~(Claimed(h) /\ m \in sMsgs[h])
       /\ g # h => /\ ~(Named(g, m) /\ Named(h, m))
                   /\ ~(Claimed(g) /\ m \in sMsgs[g] /\ Claimed(h) /\ m \in sMsgs[h])
                   /\ ~(Hold(g) /\ m \in sMsgs[g] /\ Hold(h) /\ m \in sMsgs[h])

(* Branch R against the engine calls of the receiver.                      *)
BranchR == \A g \in Gtrids :
    /\ ROp("create", g) => rBranch[g] = "none" /\ ~Gathered(g) /\ currentXA # NoXA
    /\ Gathered(g) => rBranch[g] = "inflight"
    /\ g = currentXA => g \notin xaList
    /\ ROp("commit", g) \/ ROp("recoverCommit", g) => rBranch[g] = "committing"
    /\ ~(ROp("commit", g) /\ ROp("recoverCommit", g))
    /\ Asked(g) \/ Acking(g) => ~Dec(g)
    /\ Answered(g) \/ Preparing(g) => rBranch[g] = "inflight"
    /\ receiverXA[g] = "prepared" => rBranch[g] \in {"committing", "heuristic"}

(* A message is in one transaction of the receiver, and not yet committed. *)
Apart == \A m \in Msgs :
    /\ RLetter("RMessage", m) => received[m] = 0
    /\ \A g \in Gtrids :
         /\ Active(g) /\ m \in rMsgs[g] => received[m] = 0 /\ ~RLetter("RMessage", m)
         /\ Active(g) /\ ~Gathered(g) /\ m \in rMsgs[g] => m \notin puts
         /\ rBranch[g] \in {"heuristic", "forgetting"} /\ m \in rMsgs[g] => received[m] > 0
    /\ \A g, h \in Gtrids :
         Active(g) /\ Active(h) /\ g # h => ~(m \in rMsgs[g] /\ m \in rMsgs[h])

(* While the connection is whole both ends mean the same messages.         *)
Same ==
    linkUp =>
      /\ \A g \in Gtrids :
           /\ Asked(g) \/ Acking(g) => rBranch[g] = "inflight"
           /\ Acking(g) => sMsgs[g] = rMsgs[g]
           /\ \A m \in Msgs :
                /\ Asked(g) => (Named(g, m) <=> m \in rMsgs[g])
                /\ Gathered(g) /\ m \in rMsgs[g] => where[m] = "sent"
                /\ rBranch[g] = "inflight" /\ m \in rMsgs[g] => where[m] # "queued"
      /\ \A m \in Msgs : RLetter("RMessage", m) => where[m] = "sent"

(* What each branch may count on from the other.                           *)
Agreed == \A g \in Gtrids :
    /\ Preparing(g) \/ Confirmed(g) => sBranch[g] = "prepared" /\ sMsgs[g] = rMsgs[g]
    /\ sBranch[g] = "prepared" /\ Dec(g) => /\ sMsgs[g] = rMsgs[g] /\ rBranch[g] # "forgetting"
                                            /\ rUp => receiverXA[g] = "prepared"
    /\ sBranch[g] = "prepared" /\ ~Dec(g) =>
           \A m \in sMsgs[g] : /\ received[m] = 0
                               /\ \A h \in Gtrids : rBranch[h] \in Bound => m \notin rMsgs[h]
    /\ TellCommit(g) /\ sBranch[g] = "prepared" => Dec(g)
    /\ TellRoll(g) /\ sBranch[g] = "prepared" => ~Dec(g)
    /\ ROp("commit", g) /\ commits[g] >= 1 => sBranch[g] # "prepared"

(* When Start is on its way nothing is, and no branch S is in doubt.       *)
Starting ==
    linkUp /\ SLetter("Start", NoXA) =>
        /\ ~started /\ puts = {}
        /\ \A m \in Msgs : ~RLetter("RMessage", m)
        /\ \A g \in Gtrids :
               /\ sBranch[g] # "prepared" /\ ~Asked(g) /\ ~Acking(g) /\ ~ROp("create", g)
               /\ g = currentXA => rMsgs[g] = {}

(* On a started connection the decision on a prepared branch S is coming.  *)
Deciding ==
    linkUp /\ started =>
        \A g \in Gtrids : sBranch[g] = "prepared" =>
            Answered(g) \/ Preparing(g) \/ SLetter("Commit", g) \/ SOp("Commit", g)

(* A consumer is suspended only on a connection, and will be resumed.      *)
Resuming ==
    /\ sConn \in {"closed", "connecting"} => ~suspended
    /\ suspended /\ sConn = "open" => preparedXA > MinXA \/ SOp("resume", NoXA)

ForwardInv == /\ Typed /\ OnceR /\ OnceS /\ LinkPlaced /\ Numbered /\ Placed /\ OneToken
              /\ Recovers /\ BranchS /\ Claims /\ BranchR /\ Apart /\ Same /\ Agreed
              /\ NoDuplicate /\ NothingLost /\ DecidedIsHeld /\ Starting /\ Deciding /\ Resuming

-----------------------------------------------------------------------------
(* Letters and engine calls.                                               *)

(* The records are equal when their fields are.                            *)
LEMMA OpEq == \A o, p, g, h : Op(o, g) = Op(p, h) <=> o = p /\ g = h
  BY DEF Op

(* What the fields of the letters may be.                                  *)
LEMMA ToRFields ==
  ASSUME NEW x \in ToR
  PROVE  /\ x.t \in {"RMessage", "PrepareReply", "CommitReply", "Recover"}
         /\ x.t = "RMessage" => x.g \in Msgs
         /\ x.t = "PrepareReply" => x.g \in Gtrids /\ x.ok \in BOOLEAN
         /\ x.t = "CommitReply" => x.g \in Gtrids
         /\ x.t = "Recover" => x.g \in Gtrids \cup {NoXA}
  BY DEF ToR

(* The letters for the sender carry the fields their type has.             *)
LEMMA ToSFields ==
  ASSUME NEW x \in ToS
  PROVE  /\ x.t \in {"ConnectReply", "Start", "Prepare", "Commit", "CommitRecover", "RollRecover"}
         /\ x.t = "Start" => x.g = NoXA
         /\ x.t = "Prepare" => x.g \in Gtrids /\ x.msgs \subseteq Msgs
         /\ x.t \in {"Commit", "CommitRecover", "RollRecover"} => x.g \in Gtrids
         /\ x.t = "ConnectReply" => x.auto \in BOOLEAN
  BY DEF ToS

(* What the sender writes on the connection is a letter for the receiver.  *)
LEMMA WireToR ==
  /\ \A g \in Gtrids : Wire("CommitReply", g) \in ToR
  /\ \A g \in Gtrids \cup {NoXA} : Wire("Recover", g) \in ToR
  /\ \A m \in Msgs : Wire("RMessage", m) \in ToR
  /\ \A g \in Gtrids, b \in BOOLEAN : [t |-> "PrepareReply", g |-> g, ok |-> b] \in ToR
  BY DEF ToR, Wire

(* What the receiver writes on the connection is a letter for the sender.  *)
LEMMA WireToS ==
  /\ \A g \in Gtrids : /\ Wire("Commit", g) \in ToS /\ Wire("CommitRecover", g) \in ToS
                       /\ Wire("RollRecover", g) \in ToS
  /\ Wire("Start", NoXA) \in ToS
  /\ \A g \in Gtrids, M \in SUBSET Msgs : [t |-> "Prepare", g |-> g, msgs |-> M] \in ToS
  /\ \A b \in BOOLEAN : [t |-> "ConnectReply", auto |-> b] \in ToS
  BY DEF ToS, Wire

(* A short letter is its type and its transaction.                         *)
LEMMA WireFields == \A u, g : Wire(u, g).t = u /\ Wire(u, g).g = g
  BY DEF Wire

(* What a step does to the letters for the receiver.                       *)
LEMMA RSame ==
  ASSUME s2r' = s2r
  PROVE  /\ \A u, g : RLetter(u, g)' <=> RLetter(u, g)
         /\ \A g : Confirmed(g)' <=> Confirmed(g)
         /\ OnceR => OnceR'
  BY DEF RLetter, Confirmed, LettersR, OnceR

(* Nothing is under way to the receiver on an empty connection.            *)
LEMMA REmpty ==
  ASSUME s2r = <<>>
  PROVE  /\ \A u, g : ~RLetter(u, g)
         /\ \A g : ~Confirmed(g)
  BY DEF RLetter, Confirmed, LettersR

(* A connection that is dropped takes its letters with it.                 *)
LEMMA RNone ==
  ASSUME s2r' = <<>>
  PROVE  /\ \A u, g : ~RLetter(u, g)'
         /\ \A g : ~Confirmed(g)'
         /\ OnceR' /\ s2r' \in Seq(ToR)
  BY DEF RLetter, Confirmed, LettersR, OnceR

(* Appending one letter adds it to the letters and moves none.             *)
LEMMA RMove ==
  ASSUME s2r \in Seq(ToR), NEW x \in ToR, s2r' = s2r \o <<x>>
  PROVE  /\ LettersR' = LettersR \cup {x}
         /\ s2r' \in Seq(ToR) /\ DOMAIN s2r' = 1..(Len(s2r) + 1) /\ DOMAIN s2r = 1..Len(s2r)
         /\ Len(s2r) \in Nat
         /\ \A i \in DOMAIN s2r : s2r'[i] = s2r[i] /\ s2r[i] \in LettersR
         /\ s2r'[Len(s2r) + 1] = x
<1>1. /\ s2r' \in Seq(ToR) /\ DOMAIN s2r' = 1..(Len(s2r) + 1) /\ DOMAIN s2r = 1..Len(s2r)
      /\ Len(s2r) \in Nat
      /\ \A i \in DOMAIN s2r : s2r'[i] = s2r[i]
      /\ s2r'[Len(s2r) + 1] = x
  OBVIOUS
<1>2. \A i \in DOMAIN s2r : s2r[i] \in LettersR
  BY DEF LettersR
<1>3. LettersR' \subseteq LettersR \cup {x}
  BY <1>1 DEF LettersR
<1>4. LettersR \cup {x} \subseteq LettersR'
  <2>1. x \in LettersR'
    BY <1>1, Len(s2r) + 1 \in DOMAIN s2r' DEF LettersR
  <2>2. ASSUME NEW y \in LettersR PROVE y \in LettersR'
    <3>1. PICK i \in DOMAIN s2r : y = s2r[i]
      BY DEF LettersR
    <3>2. i \in DOMAIN s2r' /\ y = s2r'[i]
      BY <1>1, <3>1
    <3> QED BY <3>2 DEF LettersR
  <2> QED BY <2>1, <2>2
<1> QED BY <1>1, <1>2, <1>3, <1>4

(* Sending one letter on a whole connection keeps letters unique.          *)
LEMMA RSendUp ==
  ASSUME s2r \in Seq(ToR), OnceR, NEW x \in ToR, s2r' = s2r \o <<x>>,
         x.t = "Recover" => ~Asking,
         x.t \in {"RMessage", "PrepareReply"} => ~RLetter(x.t, x.g)
  PROVE  /\ \A u, g : RLetter(u, g)' <=> RLetter(u, g) \/ (u = x.t /\ g = x.g)
         /\ \A g : Confirmed(g)' <=> Confirmed(g) \/ (x.t = "PrepareReply" /\ g = x.g /\ x.ok)
         /\ OnceR' /\ s2r' \in Seq(ToR)
<1>1. LettersR' = LettersR \cup {x}
  BY RMove
<1>2. \A u, g : RLetter(u, g)' <=> RLetter(u, g) \/ (u = x.t /\ g = x.g)
  BY <1>1 DEF RLetter
<1>3. \A g : Confirmed(g)' <=> Confirmed(g) \/ (x.t = "PrepareReply" /\ g = x.g /\ x.ok)
  BY <1>1 DEF Confirmed
<1>4. /\ DOMAIN s2r' = 1..(Len(s2r) + 1) /\ DOMAIN s2r = 1..Len(s2r) /\ Len(s2r) \in Nat
      /\ \A i \in DOMAIN s2r : s2r'[i] = s2r[i] /\ s2r[i] \in LettersR
      /\ s2r'[Len(s2r) + 1] = x /\ s2r' \in Seq(ToR)
  BY RMove
<1>5. \A y \in LettersR : x.t = "Recover" => y.t # "Recover"
  <2>1. \A y \in LettersR : y \in ToR
    BY DEF LettersR
  <2> QED BY <2>1, ToRFields DEF Asking, RLetter
<1>6. \A y \in LettersR : x.t \in {"RMessage", "PrepareReply"} => ~(y.t = x.t /\ y.g = x.g)
  BY DEF RLetter
<1>7. OnceR'
  <2>1. SUFFICES ASSUME NEW i \in DOMAIN s2r', NEW j \in DOMAIN s2r', i # j
                 PROVE  /\ ~(s2r'[i].t = "Recover" /\ s2r'[j].t = "Recover")
                        /\ s2r'[i].t = s2r'[j].t /\ s2r'[i].t \in {"RMessage", "PrepareReply"}
                             => s2r'[i].g # s2r'[j].g
    BY DEF OnceR
  <2>2. CASE i \in DOMAIN s2r /\ j \in DOMAIN s2r
    BY <2>1, <2>2, <1>4 DEF OnceR
  <2>3. CASE i \in DOMAIN s2r /\ j = Len(s2r) + 1
    BY <2>3, <1>4, <1>5, <1>6
  <2>4. CASE j \in DOMAIN s2r /\ i = Len(s2r) + 1
    BY <2>4, <1>4, <1>5, <1>6
  <2> QED BY <2>1, <2>2, <2>3, <2>4, <1>4
<1> QED BY <1>2, <1>3, <1>4, <1>7

(* The same, whether the connection is whole or the letter is lost.        *)
LEMMA RSend ==
  ASSUME s2r \in Seq(ToR), OnceR, NEW x \in ToR, ToReceiver(<<x>>),
         linkUp /\ x.t = "Recover" => ~Asking,
         linkUp /\ x.t \in {"RMessage", "PrepareReply"} => ~RLetter(x.t, x.g)
  PROVE  /\ \A u, g : RLetter(u, g)' <=> RLetter(u, g) \/ (linkUp /\ u = x.t /\ g = x.g)
         /\ \A g : Confirmed(g)' <=>
                     Confirmed(g) \/ (linkUp /\ x.t = "PrepareReply" /\ g = x.g /\ x.ok)
         /\ OnceR' /\ s2r' \in Seq(ToR)
<1>1. CASE linkUp
  <2>1. s2r' = s2r \o <<x>>
    BY <1>1 DEF ToReceiver
  <2> QED BY <1>1, <2>1, RSendUp
<1>2. CASE ~linkUp
  <2>1. s2r' = s2r
    BY <1>2 DEF ToReceiver
  <2> QED BY <1>2, <2>1, RSame
<1> QED BY <1>1, <1>2

(* Reading the first letter takes away that letter and no other.           *)
LEMMA RTail ==
  ASSUME s2r \in Seq(ToR), OnceR, s2r # <<>>, NEW x, x = Head(s2r), s2r' = Tail(s2r)
  PROVE  /\ x \in ToR /\ RLetter(x.t, x.g)
         /\ \A u, g : RLetter(u, g)' => RLetter(u, g)
         /\ \A u, g : RLetter(u, g) /\ ~(u = x.t /\ g = x.g) => RLetter(u, g)'
         /\ x.t \in {"RMessage", "PrepareReply", "Recover"} => ~RLetter(x.t, x.g)'
         /\ x.t = "Recover" => \A g : ~RLetter("Recover", g)'
         /\ \A g : Confirmed(g)' => Confirmed(g)
         /\ x.t = "PrepareReply" /\ x.ok => Confirmed(x.g)
         /\ OnceR' /\ s2r' \in Seq(ToR)
<1>1. /\ Len(s2r) \in Nat \ {0} /\ DOMAIN s2r = 1..Len(s2r) /\ x = s2r[1] /\ x \in ToR
      /\ s2r' \in Seq(ToR) /\ DOMAIN s2r' = 1..(Len(s2r) - 1)
      /\ \A i \in DOMAIN s2r' : s2r'[i] = s2r[i + 1] /\ i + 1 \in DOMAIN s2r
  OBVIOUS
<1>2. x \in LettersR
  BY <1>1, 1 \in DOMAIN s2r DEF LettersR
<1>3. LettersR' \subseteq LettersR
  BY <1>1 DEF LettersR
<1>4. ASSUME NEW y \in LettersR, y # x PROVE y \in LettersR'
  <2>1. PICK i \in DOMAIN s2r : y = s2r[i]
    BY DEF LettersR
  <2>2. i - 1 \in DOMAIN s2r' /\ s2r'[i - 1] = y
    BY <2>1, <1>1, <1>4
  <2> QED BY <2>2 DEF LettersR
<1>5. ASSUME NEW y \in LettersR'
      PROVE  /\ ~(x.t = "Recover" /\ y.t = "Recover")
             /\ x.t = y.t /\ x.t \in {"RMessage", "PrepareReply"} => x.g # y.g
  <2>1. PICK i \in DOMAIN s2r' : y = s2r'[i]
    BY <1>5 DEF LettersR
  <2>2. y = s2r[i + 1] /\ i + 1 \in DOMAIN s2r /\ i + 1 # 1 /\ 1 \in DOMAIN s2r
    BY <2>1, <1>1
  <2> QED BY <2>2, <1>1 DEF OnceR
<1>6. OnceR'
  <2>1. SUFFICES ASSUME NEW i \in DOMAIN s2r', NEW j \in DOMAIN s2r', i # j
                 PROVE  /\ ~(s2r'[i].t = "Recover" /\ s2r'[j].t = "Recover")
                        /\ s2r'[i].t = s2r'[j].t /\ s2r'[i].t \in {"RMessage", "PrepareReply"}
                             => s2r'[i].g # s2r'[j].g
    BY DEF OnceR
  <2>2. /\ s2r'[i] = s2r[i + 1] /\ s2r'[j] = s2r[j + 1] /\ i + 1 # j + 1
        /\ i + 1 \in DOMAIN s2r /\ j + 1 \in DOMAIN s2r
    BY <1>1, <2>1
  <2> QED BY <2>2 DEF OnceR
<1>7. RLetter(x.t, x.g) /\ \A u, g : RLetter(u, g)' => RLetter(u, g)
  BY <1>2, <1>3 DEF RLetter
<1>8. \A u, g : RLetter(u, g) /\ ~(u = x.t /\ g = x.g) => RLetter(u, g)'
  BY <1>4 DEF RLetter
<1>9. /\ x.t \in {"RMessage", "PrepareReply", "Recover"} => ~RLetter(x.t, x.g)'
      /\ x.t = "Recover" => \A g : ~RLetter("Recover", g)'
  BY <1>5 DEF RLetter
<1>10. /\ \A g : Confirmed(g)' => Confirmed(g)
       /\ x.t = "PrepareReply" /\ x.ok => Confirmed(x.g)
  BY <1>2, <1>3 DEF Confirmed
<1> QED BY <1>1, <1>6, <1>7, <1>8, <1>9, <1>10

(* A CommitReply and the next Recover of the recovery.                     *)
LEMMA RSendTwo ==
  ASSUME s2r \in Seq(ToR), OnceR, NEW g \in Gtrids, NEW k \in Gtrids \cup {NoXA},
         ToReceiver(<<Wire("CommitReply", g)>> \o <<Wire("Recover", k)>>),
         linkUp => ~Asking
  PROVE  /\ \A u, h : RLetter(u, h)' <=> \/ RLetter(u, h)
                                         \/ linkUp /\ u = "CommitReply" /\ h = g
                                         \/ linkUp /\ u = "Recover" /\ h = k
         /\ \A h : Confirmed(h)' <=> Confirmed(h)
         /\ OnceR' /\ s2r' \in Seq(ToR)
<1>1. CASE ~linkUp
  <2>1. s2r' = s2r
    BY <1>1 DEF ToReceiver
  <2> QED BY <1>1, <2>1, RSame
<1>2. CASE linkUp
  <2> DEFINE x == Wire("CommitReply", g)
             y == Wire("Recover", k)
  <2>1. x \in ToR /\ y \in ToR /\ x.t = "CommitReply" /\ x.g = g /\ y.t = "Recover" /\ y.g = k
    BY WireToR, WireFields
  <2>2. s2r' = s2r \o (<<x>> \o <<y>>)
    BY <1>2 DEF ToReceiver
  <2> HIDE DEF x, y
  <2>3. /\ s2r' \in Seq(ToR) /\ Len(s2r) \in Nat
        /\ DOMAIN s2r' = 1..(Len(s2r) + 2) /\ DOMAIN s2r = 1..Len(s2r)
        /\ \A i \in DOMAIN s2r : s2r'[i] = s2r[i]
        /\ s2r'[Len(s2r) + 1] = x /\ s2r'[Len(s2r) + 2] = y
    BY <2>1, <2>2
  <2>4. LettersR' = LettersR \cup {x, y}
    <3>1. x \in LettersR' /\ y \in LettersR'
      BY <2>3, Len(s2r) + 1 \in DOMAIN s2r', Len(s2r) + 2 \in DOMAIN s2r' DEF LettersR
    <3>2. \A z \in LettersR : z \in LettersR'
      BY <2>3 DEF LettersR
    <3>3. \A z \in LettersR' : z \in LettersR \cup {x, y}
      BY <2>3 DEF LettersR
    <3> QED BY <3>1, <3>2, <3>3
  <2>5. \A u, h : RLetter(u, h)' <=> \/ RLetter(u, h)
                                     \/ u = "CommitReply" /\ h = g
                                     \/ u = "Recover" /\ h = k
    BY <2>1, <2>4 DEF RLetter
  <2>6. \A h : Confirmed(h)' <=> Confirmed(h)
    BY <2>1, <2>4 DEF Confirmed
  <2>7. \A i \in DOMAIN s2r : s2r[i].t # "Recover"
    <3>1. \A i \in DOMAIN s2r : s2r[i] \in ToR /\ s2r[i] \in LettersR
      BY DEF LettersR
    <3> QED BY <1>2, <3>1, ToRFields DEF Asking, RLetter
  <2>8. OnceR'
    <3>1. SUFFICES ASSUME NEW i \in DOMAIN s2r', NEW j \in DOMAIN s2r', i # j
                   PROVE  /\ ~(s2r'[i].t = "Recover" /\ s2r'[j].t = "Recover")
                          /\ s2r'[i].t = s2r'[j].t /\ s2r'[i].t \in {"RMessage", "PrepareReply"}
                               => s2r'[i].g # s2r'[j].g
      BY DEF OnceR
    <3>2. CASE i \in DOMAIN s2r /\ j \in DOMAIN s2r
      BY <3>1, <3>2, <2>3 DEF OnceR
    <3>3. ASSUME NEW n \in DOMAIN s2r', n \notin DOMAIN s2r
          PROVE  s2r'[n].t = "CommitReply" \/ (s2r'[n].t = "Recover" /\ n = Len(s2r) + 2)
      <4>1. n = Len(s2r) + 1 \/ n = Len(s2r) + 2
        BY <3>3, <2>3
      <4> QED BY <4>1, <2>1, <2>3
    <3>4. \A n \in DOMAIN s2r : s2r'[n].t # "Recover"
      BY <2>3, <2>7
    <3>5. ~(s2r'[i].t = "Recover" /\ s2r'[j].t = "Recover")
      BY <3>1, <3>3, <3>4
    <3>6. s2r'[i].t = s2r'[j].t /\ s2r'[i].t \in {"RMessage", "PrepareReply"}
             => i \in DOMAIN s2r /\ j \in DOMAIN s2r
      BY <3>3
    <3> QED BY <3>2, <3>5, <3>6
  <2> QED BY <1>2, <2>3, <2>5, <2>6, <2>8
<1> QED BY <1>1, <1>2

(* What a step does to the letters for the sender.                         *)
LEMMA SSame ==
  ASSUME r2s' = r2s
  PROVE  /\ \A u, g : SLetter(u, g)' <=> SLetter(u, g)
         /\ \A g, m : Named(g, m)' <=> Named(g, m)
         /\ ConnRep' <=> ConnRep
         /\ OnceS => OnceS'
  BY DEF SLetter, Named, ConnRep, LettersS, OnceS

(* Nothing is under way to the sender on an empty connection.              *)
LEMMA SEmpty ==
  ASSUME r2s = <<>>
  PROVE  /\ \A u, g : ~SLetter(u, g)
         /\ \A g, m : ~Named(g, m)
         /\ ~ConnRep
  BY DEF SLetter, Named, ConnRep, LettersS

(* A connection that is dropped takes its letters with it.                 *)
LEMMA SNone ==
  ASSUME r2s' = <<>>
  PROVE  /\ \A u, g : ~SLetter(u, g)'
         /\ \A g, m : ~Named(g, m)'
         /\ ~ConnRep' /\ OnceS' /\ r2s' \in Seq(ToS)
  BY DEF SLetter, Named, ConnRep, LettersS, OnceS

(* The connection begins with the ConnectReply.                            *)
LEMMA SFirst ==
  ASSUME NEW b \in BOOLEAN, r2s' = <<[t |-> "ConnectReply", auto |-> b]>>
  PROVE  /\ \A g : \A u \in {"Start", "Prepare", "Commit", "CommitRecover", "RollRecover"} :
               ~SLetter(u, g)'
         /\ \A g, m : ~Named(g, m)'
         /\ ConnRep' /\ OnceS' /\ r2s' \in Seq(ToS)
<1> DEFINE x == [t |-> "ConnectReply", auto |-> b]
<1>1. x \in ToS /\ x.t = "ConnectReply"
  BY WireToS
<1> HIDE DEF x
<1>2. r2s' = <<x>>
  BY DEF x
<1>3. r2s' \in Seq(ToS) /\ DOMAIN r2s' = {1} /\ r2s'[1] = x
  BY <1>1, <1>2
<1>4. LettersS' = {x}
  BY <1>3 DEF LettersS
<1>5. OnceS'
  BY <1>3 DEF OnceS
<1>6. ConnRep' /\ \A g, m : ~Named(g, m)'
  BY <1>1, <1>4 DEF ConnRep, Named
<1>7. \A g : \A u \in {"Start", "Prepare", "Commit", "CommitRecover", "RollRecover"} : ~SLetter(u, g)'
  BY <1>1, <1>4 DEF SLetter
<1> QED BY <1>3, <1>5, <1>6, <1>7

(* Appending one letter adds it to the letters and moves none.             *)
LEMMA SMove ==
  ASSUME r2s \in Seq(ToS), NEW x \in ToS, r2s' = r2s \o <<x>>
  PROVE  /\ LettersS' = LettersS \cup {x}
         /\ r2s' \in Seq(ToS) /\ DOMAIN r2s' = 1..(Len(r2s) + 1) /\ DOMAIN r2s = 1..Len(r2s)
         /\ Len(r2s) \in Nat
         /\ \A i \in DOMAIN r2s : r2s'[i] = r2s[i] /\ r2s[i] \in LettersS
         /\ r2s'[Len(r2s) + 1] = x
<1>1. /\ r2s' \in Seq(ToS) /\ DOMAIN r2s' = 1..(Len(r2s) + 1) /\ DOMAIN r2s = 1..Len(r2s)
      /\ Len(r2s) \in Nat
      /\ \A i \in DOMAIN r2s : r2s'[i] = r2s[i]
      /\ r2s'[Len(r2s) + 1] = x
  OBVIOUS
<1>2. \A i \in DOMAIN r2s : r2s[i] \in LettersS
  BY DEF LettersS
<1>3. LettersS' \subseteq LettersS \cup {x}
  BY <1>1 DEF LettersS
<1>4. LettersS \cup {x} \subseteq LettersS'
  <2>1. x \in LettersS'
    BY <1>1, Len(r2s) + 1 \in DOMAIN r2s' DEF LettersS
  <2>2. ASSUME NEW y \in LettersS PROVE y \in LettersS'
    <3>1. PICK i \in DOMAIN r2s : y = r2s[i]
      BY DEF LettersS
    <3>2. i \in DOMAIN r2s' /\ y = r2s'[i]
      BY <1>1, <3>1
    <3> QED BY <3>2 DEF LettersS
  <2> QED BY <2>1, <2>2
<1> QED BY <1>1, <1>2, <1>3, <1>4

(* Sending one letter on a whole connection keeps letters unique.          *)
LEMMA SSendUp ==
  ASSUME r2s \in Seq(ToS), OnceS, NEW x \in ToS, r2s' = r2s \o <<x>>,
         x.t \in RecTypes => /\ ~ConnRep /\ ~SLetter("Start", NoXA)
                             /\ \A g \in Gtrids : /\ ~SLetter("CommitRecover", g)
                                                  /\ ~SLetter("RollRecover", g),
         x.t = "Prepare" => ~SLetter("Prepare", x.g)
  PROVE  /\ \A u, g : SLetter(u, g)' <=> SLetter(u, g) \/ (u = x.t /\ g = x.g)
         /\ \A g, m : Named(g, m)' <=> Named(g, m) \/ (x.t = "Prepare" /\ g = x.g /\ m \in x.msgs)
         /\ x.t # "ConnectReply" => (ConnRep' <=> ConnRep)
         /\ OnceS' /\ r2s' \in Seq(ToS)
<1>1. LettersS' = LettersS \cup {x}
  BY SMove
<1>2. \A u, g : SLetter(u, g)' <=> SLetter(u, g) \/ (u = x.t /\ g = x.g)
  BY <1>1 DEF SLetter
<1>3. \A g, m : Named(g, m)' <=> Named(g, m) \/ (x.t = "Prepare" /\ g = x.g /\ m \in x.msgs)
  BY <1>1 DEF Named
<1>4. x.t # "ConnectReply" => (ConnRep' <=> ConnRep)
  BY <1>1 DEF ConnRep
<1>5. /\ DOMAIN r2s' = 1..(Len(r2s) + 1) /\ DOMAIN r2s = 1..Len(r2s) /\ Len(r2s) \in Nat
      /\ \A i \in DOMAIN r2s : r2s'[i] = r2s[i] /\ r2s[i] \in LettersS
      /\ r2s'[Len(r2s) + 1] = x /\ r2s' \in Seq(ToS)
  BY SMove
<1>6. \A y \in LettersS : x.t \in RecTypes => y.t \notin RecTypes
  <2>1. \A y \in LettersS : y \in ToS
    BY DEF LettersS
  <2> QED BY <2>1, ToSFields DEF SLetter, ConnRep, RecTypes
<1>7. \A y \in LettersS : x.t = "Prepare" => ~(y.t = "Prepare" /\ y.g = x.g)
  BY DEF SLetter
<1>8. OnceS'
  <2>1. SUFFICES ASSUME NEW i \in DOMAIN r2s', NEW j \in DOMAIN r2s', i # j
                 PROVE  /\ ~(r2s'[i].t \in RecTypes /\ r2s'[j].t \in RecTypes)
                        /\ r2s'[i].t = "Prepare" /\ r2s'[j].t = "Prepare" => r2s'[i].g # r2s'[j].g
    BY DEF OnceS
  <2>2. CASE i \in DOMAIN r2s /\ j \in DOMAIN r2s
    BY <2>1, <2>2, <1>5 DEF OnceS
  <2>3. CASE i \in DOMAIN r2s /\ j = Len(r2s) + 1
    BY <2>3, <1>5, <1>6, <1>7
  <2>4. CASE j \in DOMAIN r2s /\ i = Len(r2s) + 1
    BY <2>4, <1>5, <1>6, <1>7
  <2> QED BY <2>1, <2>2, <2>3, <2>4, <1>5
<1> QED BY <1>2, <1>3, <1>4, <1>5, <1>8

(* The same, whether the connection is whole or the letter is lost.        *)
LEMMA SSend ==
  ASSUME r2s \in Seq(ToS), OnceS, NEW x \in ToS, ToSender(<<x>>), x.t # "ConnectReply",
         linkUp /\ x.t \in RecTypes => /\ ~ConnRep /\ ~SLetter("Start", NoXA)
                                       /\ \A g \in Gtrids : /\ ~SLetter("CommitRecover", g)
                                                            /\ ~SLetter("RollRecover", g),
         linkUp /\ x.t = "Prepare" => ~SLetter("Prepare", x.g)
  PROVE  /\ \A u, g : SLetter(u, g)' <=> SLetter(u, g) \/ (linkUp /\ u = x.t /\ g = x.g)
         /\ \A g, m : Named(g, m)' <=>
                        Named(g, m) \/ (linkUp /\ x.t = "Prepare" /\ g = x.g /\ m \in x.msgs)
         /\ ConnRep' <=> ConnRep
         /\ OnceS' /\ r2s' \in Seq(ToS)
<1>1. CASE linkUp
  <2>1. r2s' = r2s \o <<x>>
    BY <1>1 DEF ToSender
  <2> QED BY <1>1, <2>1, SSendUp
<1>2. CASE ~linkUp
  <2>1. r2s' = r2s
    BY <1>2 DEF ToSender
  <2> QED BY <1>2, <2>1, SSame
<1> QED BY <1>1, <1>2

(* Reading the first letter takes away that letter and no other.           *)
LEMMA STail ==
  ASSUME r2s \in Seq(ToS), OnceS, r2s # <<>>, NEW x, x = Head(r2s), r2s' = Tail(r2s)
  PROVE  /\ x \in ToS /\ SLetter(x.t, x.g)
         /\ \A u, g : SLetter(u, g)' => SLetter(u, g)
         /\ \A u, g : SLetter(u, g) /\ ~(u = x.t /\ g = x.g) => SLetter(u, g)'
         /\ \A g, m : Named(g, m)' => Named(g, m)
         /\ \A g, m : Named(g, m) /\ ~(x.t = "Prepare" /\ g = x.g) => Named(g, m)'
         /\ x.t = "Prepare" => /\ ~SLetter("Prepare", x.g)' /\ \A m : ~Named(x.g, m)'
                               /\ \A m : Named(x.g, m) <=> m \in x.msgs
         /\ x.t \in RecTypes => /\ ~ConnRep'
                                /\ \A g : ~SLetter("CommitRecover", g)' /\ ~SLetter("RollRecover", g)'
         /\ x.t = "Start" => ~SLetter("Start", NoXA)'
         /\ x.t = "ConnectReply" => ConnRep
         /\ ConnRep' => ConnRep
         /\ x.t # "ConnectReply" => (ConnRep' <=> ConnRep)
         /\ OnceS' /\ r2s' \in Seq(ToS)
<1>1. /\ Len(r2s) \in Nat \ {0} /\ DOMAIN r2s = 1..Len(r2s) /\ x = r2s[1] /\ x \in ToS
      /\ r2s' \in Seq(ToS) /\ DOMAIN r2s' = 1..(Len(r2s) - 1)
      /\ \A i \in DOMAIN r2s' : r2s'[i] = r2s[i + 1] /\ i + 1 \in DOMAIN r2s
  OBVIOUS
<1>2. x \in LettersS
  BY <1>1, 1 \in DOMAIN r2s DEF LettersS
<1>3. LettersS' \subseteq LettersS
  BY <1>1 DEF LettersS
<1>4. ASSUME NEW y \in LettersS, y # x PROVE y \in LettersS'
  <2>1. PICK i \in DOMAIN r2s : y = r2s[i]
    BY DEF LettersS
  <2>2. i - 1 \in DOMAIN r2s' /\ r2s'[i - 1] = y
    BY <2>1, <1>1, <1>4
  <2> QED BY <2>2 DEF LettersS
<1>5. ASSUME NEW y \in LettersS'
      PROVE  /\ ~(x.t \in RecTypes /\ y.t \in RecTypes)
             /\ x.t = "Prepare" /\ y.t = "Prepare" => x.g # y.g
  <2>1. PICK i \in DOMAIN r2s' : y = r2s'[i]
    BY <1>5 DEF LettersS
  <2>2. y = r2s[i + 1] /\ i + 1 \in DOMAIN r2s /\ i + 1 # 1 /\ 1 \in DOMAIN r2s
    BY <2>1, <1>1
  <2> QED BY <2>2, <1>1 DEF OnceS
<1>6. OnceS'
  <2>1. SUFFICES ASSUME NEW i \in DOMAIN r2s', NEW j \in DOMAIN r2s', i # j
                 PROVE  /\ ~(r2s'[i].t \in RecTypes /\ r2s'[j].t \in RecTypes)
                        /\ r2s'[i].t = "Prepare" /\ r2s'[j].t = "Prepare" => r2s'[i].g # r2s'[j].g
    BY DEF OnceS
  <2>2. /\ r2s'[i] = r2s[i + 1] /\ r2s'[j] = r2s[j + 1] /\ i + 1 # j + 1
        /\ i + 1 \in DOMAIN r2s /\ j + 1 \in DOMAIN r2s
    BY <1>1, <2>1
  <2> QED BY <2>2 DEF OnceS
<1>7. SLetter(x.t, x.g) /\ \A u, g : SLetter(u, g)' => SLetter(u, g)
  BY <1>2, <1>3 DEF SLetter
<1>8. \A u, g : SLetter(u, g) /\ ~(u = x.t /\ g = x.g) => SLetter(u, g)'
  BY <1>4 DEF SLetter
<1>9. /\ \A g, m : Named(g, m)' => Named(g, m)
      /\ \A g, m : Named(g, m) /\ ~(x.t = "Prepare" /\ g = x.g) => Named(g, m)'
  BY <1>3, <1>4 DEF Named
<1>10. x.t = "Prepare" => ~SLetter("Prepare", x.g)' /\ \A m : ~Named(x.g, m)'
  BY <1>5 DEF SLetter, Named
<1>11. x.t = "Prepare" => \A m : Named(x.g, m) <=> m \in x.msgs
  <2>1. \A y \in LettersS : x.t = "Prepare" /\ y.t = "Prepare" /\ y.g = x.g => y = x
    BY <1>4, <1>5
  <2> QED BY <1>2, <2>1 DEF Named
<1>12. x.t \in RecTypes =>
         ~ConnRep' /\ \A g : ~SLetter("CommitRecover", g)' /\ ~SLetter("RollRecover", g)'
  BY <1>5 DEF ConnRep, SLetter, RecTypes
<1>14. x.t = "Start" => ~SLetter("Start", NoXA)'
  BY <1>5 DEF SLetter, RecTypes
<1>13. /\ x.t = "ConnectReply" => ConnRep
       /\ ConnRep' => ConnRep
       /\ x.t # "ConnectReply" => (ConnRep' <=> ConnRep)
  BY <1>2, <1>3, <1>4 DEF ConnRep
<1> QED BY <1>1, <1>6, <1>7, <1>8, <1>9, <1>10, <1>11, <1>12, <1>13, <1>14

(* Engine calls.                                                           *)
LEMMA CallsS ==
  /\ \A o \in {"create", "ack", "prepare", "Commit", "CommitRecover", "RollRecover"}, g \in Gtrids :
        Op(o, g) \in SCalls
  /\ Op("resume", NoXA) \in SCalls
  /\ \A x \in SCalls : x = Op(x.op, x.g) /\ (x.op # "resume" => x.g \in Gtrids)
  /\ \A x \in SCalls : x.g \in Gtrids \cup {NoXA}
  BY DEF SCalls, Op

(* An engine call of the receiver is its kind and its transaction.         *)
LEMMA CallsR ==
  /\ \A o \in {"create", "prepare", "commit", "recoverCommit"}, g \in Gtrids : Op(o, g) \in RCalls
  /\ \A x \in RCalls : /\ x = Op(x.op, x.g) /\ x.g \in Gtrids
                       /\ x.op \in {"create", "prepare", "commit", "recoverCommit"}
  BY DEF RCalls, Op

(* Transactions are numbered from one.                                     *)
LEMMA GtridsNat == Gtrids \subseteq Nat \ {0} /\ NoXA \notin Gtrids /\ NoXA = 0
  BY DEF Gtrids, NoXA

(* A step that leaves the sender's calls leaves what they are about.       *)
LEMMA SOpSame ==
  ASSUME sOps' = sOps
  PROVE  \A o, g : SOp(o, g)' <=> SOp(o, g)
  BY DEF SOp

(* A step that leaves the receiver's calls leaves what they are about.     *)
LEMMA ROpSame ==
  ASSUME rOps' = rOps
  PROVE  \A o, g : ROp(o, g)' <=> ROp(o, g)
  BY DEF ROp

(* A successful PrepareReply is a PrepareReply.                            *)
LEMMA ConfirmedIsAnswer == \A g : Confirmed(g) => Answered(g)
  BY DEF Confirmed, Answered, RLetter

(* A Recover letter is a question of the recovery.                         *)
LEMMA AskingSome == \A g \in Gtrids \cup {NoXA} : RLetter("Recover", g) => Asking
  BY DEF Asking

(* A fault that may happen keeps the count within its bound.               *)
LEMMA FaultsBounded ==
  ASSUME TypeOK, faults < MaxFaults, faults' = faults + 1
  PROVE  faults' \in 0..MaxFaults
<1>1. MaxFaults \in Nat
  BY ForwarderAssumption
<1>2. faults \in 0..MaxFaults
  BY DEF TypeOK
<1> QED BY <1>1, <1>2

(* The recovery list gives up its transactions one by one.                 *)
LEMMA NextOne ==
  ASSUME NEW list, list \subseteq Gtrids
  PROVE  /\ NextOf(list) \in Gtrids \cup {NoXA} /\ (NextOf(list) = NoXA <=> list = {})
         /\ RestOf(list) \subseteq list
         /\ \A g \in list : g \in RestOf(list) \/ g = NextOf(list)
         /\ Recovering(list) \in {0, 1}
<1>1. CASE list = {}
  BY <1>1 DEF NextOf, RestOf, Recovering
<1>2. CASE list # {}
  <2>1. NextOf(list) \in list
    BY <1>2 DEF NextOf
  <2> QED BY <1>2, <2>1, GtridsNat DEF RestOf, Recovering
<1> QED BY <1>1, <1>2

(* A suspended consumer is resumed when few transactions are prepared.     *)
LEMMA Resumes ==
  ASSUME NEW n \in Nat
  PROVE  ResumeAfter(n) \subseteq {Op("resume", NoXA)} /\ OneFewer(n) \in Nat
  BY DEF ResumeAfter, OneFewer

(* The tail of replyCommit and replyRollbackPrepared resumes the consumer. *)
LEMMA CommitResumes ==
  ASSUME Typed, Resuming, NEW o, NEW g \in Gtrids, o # "resume",
         sOps' = (sOps \ {Op(o, g)}) \cup ResumeAfter(preparedXA),
         preparedXA' \in Nat, preparedXA' >= OneFewer(preparedXA),
         sConn' = sConn, suspended' = suspended
  PROVE  Resuming'
<1>1. /\ preparedXA \in Nat /\ MinXA \in Nat
      /\ sConn \in {"closed", "connecting"} => ~suspended
  BY ForwarderAssumption DEF Typed, TypeOK, Resuming
<1>2. SUFFICES ASSUME suspended, sConn = "open", ~(preparedXA' > MinXA)
               PROVE  SOp("resume", NoXA)'
  BY <1>1 DEF Resuming
<1>3. CASE preparedXA = 0
  <2>1. Op("resume", NoXA) \in sOps
    BY <1>1, <1>2, <1>3 DEF Resuming, SOp
  <2> QED BY <2>1, OpEq DEF SOp
<1>4. CASE preparedXA > 0
  <2>1. ResumeAfter(preparedXA) = {Op("resume", NoXA)}
    BY <1>1, <1>2, <1>4 DEF ResumeAfter, OneFewer
  <2> QED BY <2>1 DEF SOp
<1> QED BY <1>1, <1>3, <1>4

(* Branch S ends.                                                          *)
LEMMA EndBranch ==
  ASSUME Typed, BranchS, NEW g \in Gtrids, NEW state \in {"gone", "queued"}, Telling(g),
         EndBranchS(g, state)
  PROVE  /\ \A k \in Gtrids : sBranch'[k] = IF k = g THEN "none" ELSE sBranch[k]
         /\ \A m \in Msgs : where'[m] = IF sBranch[g] = "prepared" /\ m \in sMsgs[g]
                                        THEN state ELSE where[m]
         /\ sBranch' \in [Gtrids -> {"none", "inflight", "prepared"}]
         /\ where' \in [Msgs -> {"absent", "queued", "sent", "acked", "gone"}]
         /\ sBranch[g] \in {"none", "prepared"}
<1>1. sBranch[g] \in {"none", "prepared"}
  BY DEF Typed, TypeOK, BranchS
<1> QED BY <1>1 DEF Typed, TypeOK, EndBranchS

(* What is left of the sender's work without its client state.             *)
LEMMA Requeued ==
  ASSUME Typed, RequeueUnprepared
  PROVE  /\ \A g \in Gtrids : sBranch'[g] = IF sBranch[g] = "prepared" THEN "prepared" ELSE "none"
         /\ \A m \in Msgs : where'[m] = IF \/ where[m] \in {"absent", "gone"}
                                           \/ \E g \in Gtrids : sBranch[g] = "prepared" /\ m \in sMsgs[g]
                                        THEN where[m] ELSE "queued"
         /\ sBranch' \in [Gtrids -> {"none", "inflight", "prepared"}]
         /\ where' \in [Msgs -> {"absent", "queued", "sent", "acked", "gone"}]
<1> DEFINE kept == UNION {sMsgs[g] : g \in {h \in Gtrids : sBranch[h] = "prepared"}}
<1>1. \A m : m \in kept <=> \E g \in Gtrids : sBranch[g] = "prepared" /\ m \in sMsgs[g]
  OBVIOUS
<1>2. /\ sBranch' = [g \in Gtrids |-> IF sBranch[g] = "prepared" THEN "prepared" ELSE "none"]
      /\ where' = [m \in Msgs |-> IF where[m] \in {"absent", "gone"} \/ m \in kept
                                  THEN where[m] ELSE "queued"]
  BY DEF RequeueUnprepared
<1> HIDE DEF kept
<1>3. where \in [Msgs -> {"absent", "queued", "sent", "acked", "gone"}]
  BY DEF Typed, TypeOK
<1> QED BY <1>1, <1>2, <1>3

(* A commit of branch R puts its messages into the receiver's topics.      *)
LEMMA DeliverOne ==
  ASSUME Typed, NEW g \in Gtrids, received' = Deliver({g})
  PROVE  /\ \A m \in Msgs : received'[m] = IF m \in rMsgs[g] THEN received[m] + 1 ELSE received[m]
         /\ received' \in [Msgs -> Nat]
<1>1. ASSUME NEW m \in Msgs
      PROVE  Cardinality({h \in {g} : m \in rMsgs[h]}) = IF m \in rMsgs[g] THEN 1 ELSE 0
  <2>1. CASE m \in rMsgs[g]
    <3>1. {h \in {g} : m \in rMsgs[h]} = {g}
      BY <2>1
    <3> QED BY <2>1, <3>1, FS_Singleton
  <2>2. CASE m \notin rMsgs[g]
    <3>1. {h \in {g} : m \in rMsgs[h]} = {}
      BY <2>2
    <3> QED BY <2>2, <3>1, FS_EmptySet
  <2> QED BY <2>1, <2>2
<1>2. \A m \in Msgs : received[m] \in Nat
  BY DEF Typed
<1> QED BY <1>1, <1>2 DEF Deliver

(* The second of the two replies unlinks the transaction.                  *)
LEMMA Counted ==
  ASSUME Typed, NEW g \in Gtrids, NEW b \in {"none", "inflight", "prepared", "committing",
                                             "heuristic", "forgetting"},
         CountCommit(g, [rBranch EXCEPT ![g] = b])
  PROVE  /\ \A k \in Gtrids : k # g => /\ rBranch'[k] = rBranch[k] /\ commits'[k] = commits[k]
                                       /\ receiverXA'[k] = receiverXA[k]
         /\ \/ receiverXA[g] = "no" /\ receiverXA'[g] = "no" /\ rBranch'[g] = b
            \/ /\ commits[g] = 0 /\ commits'[g] = 1 /\ rBranch'[g] = b
               /\ receiverXA'[g] = receiverXA[g]
            \/ /\ commits[g] >= 1 /\ receiverXA'[g] = "no"
               /\ rBranch'[g] = IF b = "heuristic" THEN "forgetting" ELSE b
         /\ rBranch' \in [Gtrids -> {"none", "inflight", "prepared", "committing", "heuristic",
                                     "forgetting"}]
         /\ commits' \in [Gtrids -> 0..2]
         /\ receiverXA' \in [Gtrids -> {"no", "linked", "prepared"}]
<1>1. /\ rBranch \in [Gtrids -> {"none", "inflight", "prepared", "committing", "heuristic",
                                 "forgetting"}]
      /\ commits \in [Gtrids -> 0..2]
      /\ receiverXA \in [Gtrids -> {"no", "linked", "prepared"}]
  BY DEF Typed, TypeOK
<1>2. PICK c : c = [rBranch EXCEPT ![g] = b]
  OBVIOUS
<1>3. /\ c \in [Gtrids -> {"none", "inflight", "prepared", "committing", "heuristic", "forgetting"}]
      /\ c[g] = b /\ \A k \in Gtrids : k # g => c[k] = rBranch[k]
  BY <1>1, <1>2
<1>4. CASE receiverXA[g] = "no"
  <2>1. rBranch' = c /\ commits' = commits /\ receiverXA' = receiverXA
    BY <1>2, <1>4 DEF CountCommit
  <2> QED BY <1>1, <1>3, <1>4, <2>1
<1>5. CASE receiverXA[g] # "no" /\ commits[g] >= 1
  <2>1. /\ commits' = [commits EXCEPT ![g] = 2]
        /\ receiverXA' = [receiverXA EXCEPT ![g] = "no"]
        /\ rBranch' = [c EXCEPT ![g] = IF c[g] = "heuristic" THEN "forgetting" ELSE c[g]]
    BY <1>2, <1>5 DEF CountCommit
  <2> QED BY <1>1, <1>3, <1>5, <2>1
<1>6. CASE receiverXA[g] # "no" /\ ~(commits[g] >= 1)
  <2>1. /\ commits' = [commits EXCEPT ![g] = 1]
        /\ receiverXA' = [receiverXA EXCEPT ![g] = receiverXA[g]]
        /\ rBranch' = [c EXCEPT ![g] = c[g]]
    BY <1>2, <1>6 DEF CountCommit
  <2>2. commits[g] = 0
    BY <1>1, <1>6
  <2> QED BY <1>1, <1>3, <1>6, <2>1, <2>2
<1> QED BY <1>4, <1>5, <1>6

(* A commit of an empty branch R delivers nothing.                         *)
LEMMA DeliverNone ==
  ASSUME Typed, received' = Deliver({})
  PROVE  received' = received
<1>1. ASSUME NEW m \in Msgs
      PROVE  Cardinality({h \in {} : m \in rMsgs[h]}) = 0
  <2>1. {h \in {} : m \in rMsgs[h]} = {}
    OBVIOUS
  <2> QED BY <2>1, FS_EmptySet
<1>2. received \in [Msgs -> Nat]
  BY DEF Typed
<1> QED BY <1>1, <1>2 DEF Deliver

(* A commit of one branch R leaves the messages of the others alone.       *)
LEMMA DeliverApart ==
  ASSUME Typed, NEW S, S \subseteq Gtrids, received' = Deliver(S),
         \A m \in Msgs : \A g, h \in S : m \in rMsgs[g] /\ m \in rMsgs[h] => g = h
  PROVE  /\ \A m \in Msgs : received'[m] = IF \E g \in S : m \in rMsgs[g]
                                           THEN received[m] + 1 ELSE received[m]
         /\ received' \in [Msgs -> Nat]
<1>1. ASSUME NEW m \in Msgs
      PROVE  Cardinality({h \in S : m \in rMsgs[h]}) = IF \E g \in S : m \in rMsgs[g] THEN 1 ELSE 0
  <2>1. CASE \E g \in S : m \in rMsgs[g]
    <3>1. PICK g \in S : m \in rMsgs[g]
      BY <2>1
    <3>2. {h \in S : m \in rMsgs[h]} = {g}
      BY <3>1
    <3> QED BY <2>1, <3>2, FS_Singleton
  <2>2. CASE ~\E g \in S : m \in rMsgs[g]
    <3>1. {h \in S : m \in rMsgs[h]} = {}
      BY <2>2
    <3> QED BY <2>2, <3>1, FS_EmptySet
  <2> QED BY <2>1, <2>2
<1>2. \A m \in Msgs : received[m] \in Nat
  BY DEF Typed
<1> QED BY <1>1, <1>2 DEF Deliver

(* fwdCreateXA takes the next sequence number.                             *)
LEMMA Created ==
  ASSUME Typed, NEW g \in Gtrids, NewXA(g, receiverXA, commits), rOps' = rOps \cup {Op("create", g)}
  PROVE  /\ seqn' = g /\ g > seqn /\ seqn \in Nat /\ g \in Nat
         /\ \A k \in Gtrids : /\ receiverXA'[k] = IF k = g THEN "linked" ELSE receiverXA[k]
                              /\ commits'[k] = IF k = g THEN 0 ELSE commits[k]
         /\ receiverXA' \in [Gtrids -> {"no", "linked", "prepared"}]
         /\ commits' \in [Gtrids -> 0..2]
         /\ \A o, k : ROp(o, k)' <=> ROp(o, k) \/ (o = "create" /\ k = g)
         /\ rOps' \subseteq RCalls /\ \A x \in rOps' : x.g \in Gtrids
<1>1. /\ seqn \in Nat /\ g \in Nat /\ rOps \subseteq RCalls
      /\ receiverXA \in [Gtrids -> {"no", "linked", "prepared"}] /\ commits \in [Gtrids -> 0..2]
  BY GtridsNat DEF Typed, TypeOK
<1>2. /\ g = seqn + 1 /\ seqn' = g /\ receiverXA' = [receiverXA EXCEPT ![g] = "linked"]
      /\ commits' = [commits EXCEPT ![g] = 0]
  BY DEF NewXA
<1>3. /\ receiverXA' \in [Gtrids -> {"no", "linked", "prepared"}]
      /\ \A k \in Gtrids : receiverXA'[k] = IF k = g THEN "linked" ELSE receiverXA[k]
  BY <1>1, <1>2
<1>4. /\ commits' \in [Gtrids -> 0..2]
      /\ \A k \in Gtrids : commits'[k] = IF k = g THEN 0 ELSE commits[k]
  BY <1>1, <1>2
<1>5. \A o, k : ROp(o, k)' <=> ROp(o, k) \/ (o = "create" /\ k = g)
  BY OpEq DEF ROp
<1>6. rOps' \subseteq RCalls /\ \A x \in rOps' : x.g \in Gtrids
  BY <1>1, CallsR
<1> QED BY <1>1, <1>2, <1>3, <1>4, <1>5, <1>6

(* Nothing is left of a number above the last one while messages flow.     *)
LEMMA Unused ==
  ASSUME Typed, Numbered, Flowing, rUp, NEW g \in Gtrids, g > seqn
  PROVE  /\ rBranch[g] = "none" /\ receiverXA[g] = "no" /\ ~Collecting(g) /\ ~Preparing(g)
         /\ ~ROp("commit", g) /\ ~ROp("recoverCommit", g)
         /\ sBranch[g] = "none" /\ ~Asked(g) /\ ~Acking(g) /\ ~Answered(g) /\ ~Telling(g)
         /\ ~Told(g)
<1>1. seqn \in Nat /\ g \in Nat
  BY GtridsNat DEF Typed, TypeOK
<1>2. ~Told(g)
  BY <1>1 DEF Numbered
<1> QED BY <1>2 DEF Numbered

(* A transaction whose Prepare names a message is asked to prepare.        *)
LEMMA NamedIsAsked == \A g, m : Named(g, m) => Asked(g)
  BY DEF Named, Asked, SLetter

(* sendPrepareXA: the letter names what the transaction has collected.     *)
LEMMA SendsPrepare ==
  ASSUME Typed, OnceS, NEW c \in Gtrids, ~Asked(c), ToSender(PrepareMsg(c))
  PROVE  /\ \A u, k : SLetter(u, k)' <=> SLetter(u, k) \/ (linkUp /\ u = "Prepare" /\ k = c)
         /\ \A k, n : Named(k, n)' <=> Named(k, n) \/ (linkUp /\ k = c /\ n \in rMsgs[c])
         /\ ConnRep' <=> ConnRep
         /\ OnceS' /\ r2s' \in Seq(ToS) /\ (linkUp \/ r2s' = r2s)
<1>1. PICK x : x = [t |-> "Prepare", g |-> c, msgs |-> rMsgs[c]]
  OBVIOUS
<1>2. rMsgs[c] \in SUBSET Msgs
  BY DEF Typed, TypeOK
<1>3. x \in ToS /\ x.t = "Prepare" /\ x.g = c /\ x.msgs = rMsgs[c] /\ x.t \notin RecTypes
  BY <1>1, <1>2, WireToS DEF RecTypes
<1>4. ToSender(<<x>>) /\ (linkUp \/ r2s' = r2s)
  BY <1>1 DEF PrepareMsg, ToSender
<1> QED BY <1>3, <1>4, SSend DEF Typed, Asked

(* Who else names or claims a message of a transaction that collects.      *)
LEMMA NamedApart ==
  ASSUME Placed, Apart, Same, linkUp, NEW c \in Gtrids, rBranch[c] = "inflight", Gathered(c),
         NEW m \in Msgs, m \in rMsgs[c]
  PROVE  /\ where[m] = "sent"
         /\ \A h \in Gtrids : ~Named(h, m) /\ ~(Acking(h) /\ m \in sMsgs[h])
<1>1. ~Asked(c) /\ ~Acking(c)
  BY DEF Placed, Collecting
<1>2. \A h \in Gtrids : (Named(h, m) \/ (Acking(h) /\ m \in sMsgs[h])) =>
                          h # c /\ rBranch[h] = "inflight" /\ m \in rMsgs[h]
  BY <1>1, NamedIsAsked DEF Same
<1>3. where[m] = "sent"
  BY DEF Same
<1> QED BY <1>2, <1>3 DEF Apart, Active

-----------------------------------------------------------------------------
(* Every action keeps the invariant.                                       *)

(* Connecting: the sender opens a connection to the receiver.              *)
LEMMA ConnectKeeps ==
  ASSUME ForwardInv, Connect
  PROVE  ForwardInv'
<1>i. /\ Typed /\ OnceR /\ OnceS /\ LinkPlaced /\ Numbered /\ Placed /\ OneToken
      /\ Recovers /\ BranchS /\ Claims /\ BranchR /\ Apart /\ Same /\ Agreed
      /\ NoDuplicate /\ NothingLost /\ DecidedIsHeld /\ Starting /\ Deciding /\ Resuming
  BY DEF ForwardInv
<1>u. /\ s2r' = s2r /\ r2s' = r2s /\ linkUp' = linkUp /\ where' = where /\ sBranch' = sBranch
      /\ sMsgs' = sMsgs /\ senderXA' = senderXA /\ recoveryList' = recoveryList
      /\ started' = started /\ sOps' = sOps
      /\ preparedXA' = preparedXA /\ suspended' = suspended /\ rUp' = rUp /\ rConn' = rConn
      /\ rBranch' = rBranch
      /\ rMsgs' = rMsgs /\ receiverXA' = receiverXA /\ commits' = commits
      /\ currentXA' = currentXA /\ xaList' = xaList
      /\ puts' = puts /\ rOps' = rOps /\ seqn' = seqn /\ received' = received /\ faults' = faults
  BY DEF Connect, link, receiverVars
<1>r. /\ \A u, k : RLetter(u, k)' <=> RLetter(u, k)
      /\ \A k : Confirmed(k)' <=> Confirmed(k)
      /\ OnceR' /\ s2r' \in Seq(ToR)
  BY <1>i, <1>u, RSame DEF Typed
<1>s. /\ \A u, k : SLetter(u, k)' <=> SLetter(u, k)
      /\ \A k, n : Named(k, n)' <=> Named(k, n)
      /\ ConnRep' <=> ConnRep
      /\ OnceS' /\ r2s' \in Seq(ToS)
  BY <1>i, <1>u, SSame DEF Typed
<1>o. \A o, k : SOp(o, k)' <=> SOp(o, k)
  BY <1>u, SOpSame
<1>p. \A o, k : ROp(o, k)' <=> ROp(o, k)
  BY <1>u, ROpSame
<1>a. sConn = "closed" /\ sConn' = "connecting"
  BY DEF Connect
<1>1. Typed'
  BY <1>i, <1>u, <1>r, <1>s, <1>a DEF Typed, TypeOK
<1>2. LinkPlaced'
  BY <1>i, <1>u, <1>r, <1>s, <1>p, <1>a DEF LinkPlaced, Preparing
<1>3. Numbered'
  BY <1>i, <1>u, <1>r, <1>s, <1>o, <1>p DEF Numbered, Asked, Acking, Answered, Preparing,
     Telling, Told, Collecting, Flowing, Gathered, TellCommit, TellRoll, Claimed
<1>4. Placed'
  BY <1>i, <1>u, <1>r, <1>s, <1>o, <1>p DEF Placed, Asked, Acking, Answered, Preparing,
     TellCommit, Telling, Told, Collecting, Gathered, TellRoll, Claimed
<1>5. OneToken'
  BY <1>i, <1>u, <1>r, <1>s, <1>o DEF OneToken, TellRec, Asking
<1>6. Recovers'
  BY <1>i, <1>u, <1>r, <1>s, <1>o, <1>p, <1>a DEF Recovers, TellRec, Recovery, Quiet, Asked,
     Acking, Answered, Preparing, Claimed, Asking
<1>7. BranchS'
  BY <1>i, <1>u, <1>r, <1>s, <1>o, <1>p DEF BranchS, Asked, Acking, Telling, Told, Collecting,
     Recovery, TellRec, Asking, Gathered, TellCommit, TellRoll, Claimed
<1>8. Claims'
  BY <1>i, <1>u, <1>s, <1>o DEF Claims, Claimed, Hold
<1>9. BranchR'
  BY <1>i, <1>u, <1>r, <1>s, <1>o, <1>p DEF BranchR, Asked, Acking, Answered, Preparing,
     Gathered, Dec, Claimed
<1>10. Apart'
  BY <1>i, <1>u, <1>r DEF Apart, Gathered, Active
<1>11. Same'
  BY <1>i, <1>u, <1>r, <1>s, <1>o DEF Same, Asked, Acking, Gathered, Claimed
<1>12. Agreed'
  BY <1>i, <1>u, <1>r, <1>s, <1>o, <1>p DEF Agreed, Preparing, TellCommit, TellRoll, Dec, Bound
<1>13. NoDuplicate'
  BY <1>i, <1>u DEF NoDuplicate
<1>14. NothingLost'
  BY <1>i, <1>u DEF NothingLost
<1>15. DecidedIsHeld'
  BY <1>i, <1>u DEF DecidedIsHeld
<1>16. Starting'
  BY <1>i, <1>u, <1>r, <1>s, <1>o, <1>p DEF Starting, Asked, Acking, Claimed
<1>17. Deciding'
  BY <1>i, <1>u, <1>r, <1>s, <1>o, <1>p DEF Deciding, Answered, Preparing
<1>18. Resuming'
  BY <1>i, <1>u, <1>o, <1>a DEF Resuming
<1> QED
  BY <1>1, <1>2, <1>3, <1>4, <1>5, <1>6, <1>7, <1>8, <1>9, <1>10, <1>11, <1>12, <1>13, <1>14,
     <1>15, <1>16, <1>17, <1>18, <1>r, <1>s DEF ForwardInv

(* ism_fwd_startDelivery: the resume of a suspended consumer.              *)
LEMMA StartDeliveryKeeps ==
  ASSUME ForwardInv, StartDelivery
  PROVE  ForwardInv'
<1>i. /\ Typed /\ OnceR /\ OnceS /\ LinkPlaced /\ Numbered /\ Placed /\ OneToken
      /\ Recovers /\ BranchS /\ Claims /\ BranchR /\ Apart /\ Same /\ Agreed
      /\ NoDuplicate /\ NothingLost /\ DecidedIsHeld /\ Starting /\ Deciding /\ Resuming
  BY DEF ForwardInv
<1>u. /\ s2r' = s2r /\ r2s' = r2s /\ linkUp' = linkUp /\ where' = where /\ sBranch' = sBranch
      /\ sMsgs' = sMsgs /\ senderXA' = senderXA /\ recoveryList' = recoveryList
      /\ sConn' = sConn /\ started' = started
      /\ preparedXA' = preparedXA /\ rUp' = rUp /\ rConn' = rConn /\ rBranch' = rBranch
      /\ rMsgs' = rMsgs
      /\ receiverXA' = receiverXA /\ commits' = commits /\ currentXA' = currentXA
      /\ xaList' = xaList /\ puts' = puts
      /\ rOps' = rOps /\ seqn' = seqn /\ received' = received /\ faults' = faults
  BY DEF StartDelivery, link, receiverVars
<1>r. /\ \A u, k : RLetter(u, k)' <=> RLetter(u, k)
      /\ \A k : Confirmed(k)' <=> Confirmed(k)
      /\ OnceR' /\ s2r' \in Seq(ToR)
  BY <1>i, <1>u, RSame DEF Typed
<1>s. /\ \A u, k : SLetter(u, k)' <=> SLetter(u, k)
      /\ \A k, n : Named(k, n)' <=> Named(k, n)
      /\ ConnRep' <=> ConnRep
      /\ OnceS' /\ r2s' \in Seq(ToS)
  BY <1>i, <1>u, SSame DEF Typed
<1>p. \A o, k : ROp(o, k)' <=> ROp(o, k)
  BY <1>u, ROpSame
<1>a. sOps' \subseteq sOps /\ suspended' = FALSE
  BY DEF StartDelivery
<1>b. \A o, k : o # "resume" => (SOp(o, k)' <=> SOp(o, k))
  BY OpEq, CallsS, <1>i DEF StartDelivery, SOp, Ops, Typed
<1>c. \A o, k : SOp(o, k)' => SOp(o, k)
  BY <1>a DEF SOp
<1>1. Typed'
  BY <1>i, <1>u, <1>r, <1>s, <1>a DEF Typed, TypeOK
<1>2. LinkPlaced'
  BY <1>i, <1>u, <1>r, <1>s, <1>p, <1>a DEF LinkPlaced, Preparing
<1>3. Numbered'
  BY <1>i, <1>u, <1>r, <1>s, <1>p, <1>b, <1>c DEF Numbered, Asked, Acking, Answered, Preparing,
     Telling, Told, Collecting, Flowing, Gathered, TellCommit, TellRoll, Claimed
<1>4. Placed'
  BY <1>i, <1>u, <1>r, <1>s, <1>p, <1>b, <1>c DEF Placed, Asked, Acking, Answered, Preparing,
     TellCommit, Telling, Told, Collecting, Gathered, TellRoll, Claimed
<1>5. OneToken'
  BY <1>i, <1>u, <1>r, <1>s, <1>a, <1>b, <1>c DEF OneToken, TellRec, Asking
<1>6. Recovers'
  BY <1>i, <1>u, <1>r, <1>s, <1>p, <1>b, <1>c DEF Recovers, TellRec, Recovery, Quiet, Asked,
     Acking, Answered, Preparing, Claimed, Asking
<1>7. BranchS'
  BY <1>i, <1>u, <1>r, <1>s, <1>p, <1>b, <1>c DEF BranchS, Asked, Acking, Telling, Told,
     Collecting, Recovery, TellRec, Asking, Gathered, TellCommit, TellRoll, Claimed
<1>8. Claims'
  BY <1>i, <1>u, <1>s, <1>b, <1>c DEF Claims, Claimed, Hold
<1>9. BranchR'
  BY <1>i, <1>u, <1>r, <1>s, <1>p, <1>b, <1>c DEF BranchR, Asked, Acking, Answered, Preparing,
     Gathered, Dec, Claimed
<1>10. Apart'
  BY <1>i, <1>u, <1>r DEF Apart, Gathered, Active
<1>11. Same'
  BY <1>i, <1>u, <1>r, <1>s, <1>b, <1>c DEF Same, Asked, Acking, Gathered, Claimed
<1>12. Agreed'
  BY <1>i, <1>u, <1>r, <1>s, <1>p, <1>b, <1>c DEF Agreed, Preparing, TellCommit, TellRoll, Dec,
     Bound
<1>13. NoDuplicate'
  BY <1>i, <1>u DEF NoDuplicate
<1>14. NothingLost'
  BY <1>i, <1>u DEF NothingLost
<1>15. DecidedIsHeld'
  BY <1>i, <1>u DEF DecidedIsHeld
<1>16. Starting'
  BY <1>i, <1>u, <1>r, <1>s, <1>p, <1>b, <1>c DEF Starting, Asked, Acking, Claimed
<1>17. Deciding'
  BY <1>i, <1>u, <1>r, <1>s, <1>p, <1>b, <1>c DEF Deciding, Answered, Preparing
<1>18. Resuming'
  BY <1>i, <1>u, <1>a, <1>b, <1>c DEF Resuming
<1> QED
  BY <1>1, <1>2, <1>3, <1>4, <1>5, <1>6, <1>7, <1>8, <1>9, <1>10, <1>11, <1>12, <1>13, <1>14,
     <1>15, <1>16, <1>17, <1>18, <1>r, <1>s DEF ForwardInv

(* The sender's end of the connection begins to close.                     *)
LEMMA SClosingKeeps ==
  ASSUME ForwardInv, SClosing
  PROVE  ForwardInv'
<1>i. /\ Typed /\ OnceR /\ OnceS /\ LinkPlaced /\ Numbered /\ Placed /\ OneToken
      /\ Recovers /\ BranchS /\ Claims /\ BranchR /\ Apart /\ Same /\ Agreed
      /\ NoDuplicate /\ NothingLost /\ DecidedIsHeld /\ Starting /\ Deciding /\ Resuming
  BY DEF ForwardInv
<1>u. /\ s2r' = s2r /\ linkUp' = linkUp /\ where' = where /\ sBranch' = sBranch /\ sMsgs' = sMsgs
      /\ senderXA' = senderXA /\ recoveryList' = recoveryList /\ started' = started
      /\ sOps' = sOps /\ preparedXA' = preparedXA
      /\ suspended' = suspended /\ rUp' = rUp /\ rConn' = rConn /\ rBranch' = rBranch
      /\ rMsgs' = rMsgs
      /\ receiverXA' = receiverXA /\ commits' = commits /\ currentXA' = currentXA
      /\ xaList' = xaList /\ puts' = puts
      /\ rOps' = rOps /\ seqn' = seqn /\ received' = received /\ faults' = faults
  BY DEF SClosing, receiverVars
<1>r. /\ \A u, k : RLetter(u, k)' <=> RLetter(u, k)
      /\ \A k : Confirmed(k)' <=> Confirmed(k)
      /\ OnceR' /\ s2r' \in Seq(ToR)
  BY <1>i, <1>u, RSame DEF Typed
<1>o. \A o, k : SOp(o, k)' <=> SOp(o, k)
  BY <1>u, SOpSame
<1>p. \A o, k : ROp(o, k)' <=> ROp(o, k)
  BY <1>u, ROpSame
<1>a. /\ sConn = "open" /\ ~linkUp
      /\ sConn' = "closing" /\ r2s' = <<>>
  BY DEF SClosing
<1>s. /\ \A u, k : ~SLetter(u, k)'
      /\ \A k, n : ~Named(k, n)'
      /\ ~ConnRep' /\ OnceS' /\ r2s' \in Seq(ToS)
  BY SNone, <1>a
<1>1. Typed'
  BY <1>i, <1>u, <1>r, <1>a, <1>s DEF Typed, TypeOK
<1>2. LinkPlaced'
  BY <1>i, <1>u, <1>r, <1>p, <1>a, <1>s DEF LinkPlaced, Preparing
<1>3. Numbered'
  BY <1>i, <1>u, <1>r, <1>o, <1>p, <1>a, <1>s DEF Numbered, Asked, Acking, Answered, Preparing,
     Telling, Told, Collecting, Flowing, Gathered, TellCommit, TellRoll, Claimed
<1>4. Placed'
  BY <1>i, <1>u, <1>r, <1>o, <1>p, <1>s DEF Placed, Asked, Acking, Answered, Preparing,
     TellCommit, Telling, Told, Collecting, Gathered, TellRoll, Claimed
<1>5. OneToken'
  BY <1>i, <1>u, <1>r, <1>o, <1>s DEF OneToken, TellRec, Asking
<1>6. Recovers'
  BY <1>i, <1>u, <1>r, <1>o, <1>p, <1>a, <1>s DEF Recovers, TellRec, Recovery, Quiet, Asked,
     Acking, Answered, Preparing, Claimed, Asking
<1>7. BranchS'
  BY <1>i, <1>u, <1>r, <1>o, <1>p, <1>a, <1>s DEF BranchS, Asked, Acking, Telling, Told,
     Collecting, Recovery, TellRec, Asking, Gathered, TellCommit, TellRoll, Claimed
<1>8. Claims'
  BY <1>i, <1>u, <1>o, <1>s DEF Claims, Claimed, Hold
<1>9. BranchR'
  BY <1>i, <1>u, <1>r, <1>o, <1>p, <1>s DEF BranchR, Asked, Acking, Answered, Preparing,
     Gathered, Dec, Claimed
<1>10. Apart'
  BY <1>i, <1>u, <1>r DEF Apart, Gathered, Active
<1>11. Same'
  BY <1>i, <1>u, <1>r, <1>o, <1>a, <1>s DEF Same, Asked, Acking, Gathered, Claimed
<1>12. Agreed'
  BY <1>i, <1>u, <1>r, <1>o, <1>p, <1>s DEF Agreed, Preparing, TellCommit, TellRoll, Dec, Bound
<1>13. NoDuplicate'
  BY <1>i, <1>u DEF NoDuplicate
<1>14. NothingLost'
  BY <1>i, <1>u DEF NothingLost
<1>15. DecidedIsHeld'
  BY <1>i, <1>u DEF DecidedIsHeld
<1>16. Starting'
  BY <1>i, <1>u, <1>r, <1>o, <1>p, <1>a, <1>s DEF Starting, Asked, Acking, Claimed
<1>17. Deciding'
  BY <1>i, <1>u, <1>r, <1>o, <1>p, <1>a, <1>s DEF Deciding, Answered, Preparing
<1>18. Resuming'
  BY <1>i, <1>u, <1>o, <1>a DEF Resuming
<1> QED
  BY <1>1, <1>2, <1>3, <1>4, <1>5, <1>6, <1>7, <1>8, <1>9, <1>10, <1>11, <1>12, <1>13, <1>14,
     <1>15, <1>16, <1>17, <1>18, <1>r, <1>s DEF ForwardInv

(* The receiver's end of the connection begins to close.                   *)
LEMMA RClosingKeeps ==
  ASSUME ForwardInv, RClosing
  PROVE  ForwardInv'
<1>i. /\ Typed /\ OnceR /\ OnceS /\ LinkPlaced /\ Numbered /\ Placed /\ OneToken
      /\ Recovers /\ BranchS /\ Claims /\ BranchR /\ Apart /\ Same /\ Agreed
      /\ NoDuplicate /\ NothingLost /\ DecidedIsHeld /\ Starting /\ Deciding /\ Resuming
  BY DEF ForwardInv
<1>u. /\ r2s' = r2s /\ linkUp' = linkUp /\ where' = where /\ sBranch' = sBranch /\ sMsgs' = sMsgs
      /\ senderXA' = senderXA /\ recoveryList' = recoveryList /\ sConn' = sConn
      /\ started' = started /\ sOps' = sOps
      /\ preparedXA' = preparedXA /\ suspended' = suspended /\ rUp' = rUp /\ rBranch' = rBranch
      /\ rMsgs' = rMsgs
      /\ receiverXA' = receiverXA /\ commits' = commits /\ currentXA' = currentXA
      /\ xaList' = xaList /\ puts' = puts
      /\ rOps' = rOps /\ seqn' = seqn /\ received' = received /\ faults' = faults
  BY DEF RClosing, senderVars
<1>s. /\ \A u, k : SLetter(u, k)' <=> SLetter(u, k)
      /\ \A k, n : Named(k, n)' <=> Named(k, n)
      /\ ConnRep' <=> ConnRep
      /\ OnceS' /\ r2s' \in Seq(ToS)
  BY <1>i, <1>u, SSame DEF Typed
<1>o. \A o, k : SOp(o, k)' <=> SOp(o, k)
  BY <1>u, SOpSame
<1>p. \A o, k : ROp(o, k)' <=> ROp(o, k)
  BY <1>u, ROpSame
<1>a. /\ rConn = "open" /\ ~linkUp
      /\ rConn' = "closing" /\ s2r' = <<>>
  BY DEF RClosing
<1>r. /\ \A u, k : ~RLetter(u, k)'
      /\ \A k : ~Confirmed(k)'
      /\ OnceR' /\ s2r' \in Seq(ToR)
  BY RNone, <1>a
<1>1. Typed'
  BY <1>i, <1>u, <1>s, <1>a, <1>r DEF Typed, TypeOK
<1>2. LinkPlaced'
  BY <1>i, <1>u, <1>s, <1>p, <1>a, <1>r DEF LinkPlaced, Preparing
<1>3. Numbered'
  BY <1>i, <1>u, <1>s, <1>o, <1>p, <1>a, <1>r DEF Numbered, Asked, Acking, Answered, Preparing,
     Telling, Told, Collecting, Flowing, Gathered, TellCommit, TellRoll, Claimed
<1>4. Placed'
  BY <1>i, <1>u, <1>s, <1>o, <1>p, <1>r DEF Placed, Asked, Acking, Answered, Preparing,
     TellCommit, Telling, Told, Collecting, Gathered, TellRoll, Claimed
<1>5. OneToken'
  BY <1>i, <1>u, <1>s, <1>o, <1>a, <1>r DEF OneToken, TellRec, Asking
<1>6. Recovers'
  BY <1>i, <1>u, <1>s, <1>o, <1>p, <1>a, <1>r DEF Recovers, OneToken, TellRec, Recovery, Quiet,
     Asked, Acking, Answered, Preparing, Claimed, Asking
<1>7. BranchS'
  BY <1>i, <1>u, <1>s, <1>o, <1>p, <1>a, <1>r DEF BranchS, Asked, Acking, Telling, Told,
     Collecting, Recovery, TellRec, Asking, Gathered, TellCommit, TellRoll, Claimed
<1>8. Claims'
  BY <1>i, <1>u, <1>s, <1>o DEF Claims, Claimed, Hold
<1>9. BranchR'
  BY <1>i, <1>u, <1>s, <1>o, <1>p, <1>r DEF BranchR, Asked, Acking, Answered, Preparing,
     Gathered, Dec, Claimed
<1>10. Apart'
  BY <1>i, <1>u, <1>r DEF Apart, Gathered, Active
<1>11. Same'
  BY <1>i, <1>u, <1>s, <1>o, <1>a, <1>r DEF Same, Asked, Acking, Gathered, Claimed
<1>12. Agreed'
  BY <1>i, <1>u, <1>s, <1>o, <1>p, <1>r DEF Agreed, Preparing, TellCommit, TellRoll, Dec, Bound
<1>13. NoDuplicate'
  BY <1>i, <1>u DEF NoDuplicate
<1>14. NothingLost'
  BY <1>i, <1>u DEF NothingLost
<1>15. DecidedIsHeld'
  BY <1>i, <1>u DEF DecidedIsHeld
<1>16. Starting'
  BY <1>i, <1>u, <1>s, <1>o, <1>p, <1>a, <1>r DEF Starting, Asked, Acking, Claimed
<1>17. Deciding'
  BY <1>i, <1>u, <1>s, <1>o, <1>p, <1>a, <1>r DEF Deciding, Answered, Preparing
<1>18. Resuming'
  BY <1>i, <1>u, <1>o DEF Resuming
<1> QED
  BY <1>1, <1>2, <1>3, <1>4, <1>5, <1>6, <1>7, <1>8, <1>9, <1>10, <1>11, <1>12, <1>13, <1>14,
     <1>15, <1>16, <1>17, <1>18, <1>r, <1>s DEF ForwardInv

(* The connection between the servers breaks.                              *)
LEMMA BreakKeeps ==
  ASSUME ForwardInv, Break
  PROVE  ForwardInv'
<1>i. /\ Typed /\ OnceR /\ OnceS /\ LinkPlaced /\ Numbered /\ Placed /\ OneToken
      /\ Recovers /\ BranchS /\ Claims /\ BranchR /\ Apart /\ Same /\ Agreed
      /\ NoDuplicate /\ NothingLost /\ DecidedIsHeld /\ Starting /\ Deciding /\ Resuming
  BY DEF ForwardInv
<1>u. /\ s2r' = s2r /\ r2s' = r2s /\ where' = where /\ sBranch' = sBranch /\ sMsgs' = sMsgs
      /\ senderXA' = senderXA /\ recoveryList' = recoveryList /\ sConn' = sConn
      /\ started' = started /\ sOps' = sOps
      /\ preparedXA' = preparedXA /\ suspended' = suspended /\ rUp' = rUp /\ rConn' = rConn
      /\ rBranch' = rBranch
      /\ rMsgs' = rMsgs /\ receiverXA' = receiverXA /\ commits' = commits
      /\ currentXA' = currentXA /\ xaList' = xaList
      /\ puts' = puts /\ rOps' = rOps /\ seqn' = seqn /\ received' = received
  BY DEF Break, senderVars, receiverVars
<1>r. /\ \A u, k : RLetter(u, k)' <=> RLetter(u, k)
      /\ \A k : Confirmed(k)' <=> Confirmed(k)
      /\ OnceR' /\ s2r' \in Seq(ToR)
  BY <1>i, <1>u, RSame DEF Typed
<1>s. /\ \A u, k : SLetter(u, k)' <=> SLetter(u, k)
      /\ \A k, n : Named(k, n)' <=> Named(k, n)
      /\ ConnRep' <=> ConnRep
      /\ OnceS' /\ r2s' \in Seq(ToS)
  BY <1>i, <1>u, SSame DEF Typed
<1>o. \A o, k : SOp(o, k)' <=> SOp(o, k)
  BY <1>u, SOpSame
<1>p. \A o, k : ROp(o, k)' <=> ROp(o, k)
  BY <1>u, ROpSame
<1>a. /\ linkUp /\ linkUp' = FALSE /\ faults < MaxFaults /\ faults' = faults + 1
  BY DEF Break
<1>f. faults' \in 0..MaxFaults
  BY <1>i, <1>a, FaultsBounded DEF Typed
<1>1. Typed'
  BY <1>i, <1>u, <1>r, <1>s, <1>a, <1>f DEF Typed, TypeOK
<1>2. LinkPlaced'
  BY <1>i, <1>u, <1>r, <1>s, <1>p, <1>a DEF LinkPlaced, Preparing
<1>3. Numbered'
  BY <1>i, <1>u, <1>r, <1>s, <1>o, <1>p, <1>a DEF Numbered, Asked, Acking, Answered, Preparing,
     Telling, Told, Collecting, Flowing, Gathered, TellCommit, TellRoll, Claimed
<1>4. Placed'
  BY <1>i, <1>u, <1>r, <1>s, <1>o, <1>p DEF Placed, Asked, Acking, Answered, Preparing,
     TellCommit, Telling, Told, Collecting, Gathered, TellRoll, Claimed
<1>5. OneToken'
  BY <1>i, <1>u, <1>r, <1>s, <1>o DEF OneToken, TellRec, Asking
<1>6. Recovers'
  BY <1>i, <1>u, <1>r, <1>s, <1>o, <1>p DEF Recovers, TellRec, Recovery, Quiet, Asked, Acking,
     Answered, Preparing, Claimed, Asking
<1>7. BranchS'
  BY <1>i, <1>u, <1>r, <1>s, <1>o, <1>p, <1>a DEF BranchS, Asked, Acking, Telling, Told,
     Collecting, Recovery, TellRec, Asking, Gathered, TellCommit, TellRoll, Claimed
<1>8. Claims'
  BY <1>i, <1>u, <1>s, <1>o DEF Claims, Claimed, Hold
<1>9. BranchR'
  BY <1>i, <1>u, <1>r, <1>s, <1>o, <1>p DEF BranchR, Asked, Acking, Answered, Preparing,
     Gathered, Dec, Claimed
<1>10. Apart'
  BY <1>i, <1>u, <1>r DEF Apart, Gathered, Active
<1>11. Same'
  BY <1>i, <1>u, <1>r, <1>s, <1>o, <1>a DEF Same, Asked, Acking, Gathered, Claimed
<1>12. Agreed'
  BY <1>i, <1>u, <1>r, <1>s, <1>o, <1>p DEF Agreed, Preparing, TellCommit, TellRoll, Dec, Bound
<1>13. NoDuplicate'
  BY <1>i, <1>u DEF NoDuplicate
<1>14. NothingLost'
  BY <1>i, <1>u DEF NothingLost
<1>15. DecidedIsHeld'
  BY <1>i, <1>u DEF DecidedIsHeld
<1>16. Starting'
  BY <1>i, <1>u, <1>r, <1>s, <1>o, <1>p, <1>a DEF Starting, Asked, Acking, Claimed
<1>17. Deciding'
  BY <1>i, <1>u, <1>r, <1>s, <1>o, <1>p, <1>a DEF Deciding, Answered, Preparing
<1>18. Resuming'
  BY <1>i, <1>u, <1>o DEF Resuming
<1> QED
  BY <1>1, <1>2, <1>3, <1>4, <1>5, <1>6, <1>7, <1>8, <1>9, <1>10, <1>11, <1>12, <1>13, <1>14,
     <1>15, <1>16, <1>17, <1>18, <1>r, <1>s DEF ForwardInv

(* ism_fwd_doStart: the sender starts delivery.                            *)
LEMMA DoStartKeeps ==
  ASSUME ForwardInv, DoStart
  PROVE  ForwardInv'
<1>i. /\ Typed /\ OnceR /\ OnceS /\ LinkPlaced /\ Numbered /\ Placed /\ OneToken
      /\ Recovers /\ BranchS /\ Claims /\ BranchR /\ Apart /\ Same /\ Agreed
      /\ NoDuplicate /\ NothingLost /\ DecidedIsHeld /\ Starting /\ Deciding /\ Resuming
  BY DEF ForwardInv
<1>u. /\ s2r' = s2r /\ linkUp' = linkUp /\ where' = where /\ sBranch' = sBranch /\ sMsgs' = sMsgs
      /\ senderXA' = senderXA /\ recoveryList' = recoveryList /\ sConn' = sConn /\ sOps' = sOps
      /\ preparedXA' = preparedXA
      /\ suspended' = suspended /\ rUp' = rUp /\ rConn' = rConn /\ rBranch' = rBranch
      /\ rMsgs' = rMsgs
      /\ receiverXA' = receiverXA /\ commits' = commits /\ currentXA' = currentXA
      /\ xaList' = xaList /\ puts' = puts
      /\ rOps' = rOps /\ seqn' = seqn /\ received' = received /\ faults' = faults
  BY DEF DoStart, receiverVars
<1>r. /\ \A u, k : RLetter(u, k)' <=> RLetter(u, k)
      /\ \A k : Confirmed(k)' <=> Confirmed(k)
      /\ OnceR' /\ s2r' \in Seq(ToR)
  BY <1>i, <1>u, RSame DEF Typed
<1>o. \A o, k : SOp(o, k)' <=> SOp(o, k)
  BY <1>u, SOpSame
<1>p. \A o, k : ROp(o, k)' <=> ROp(o, k)
  BY <1>u, ROpSame
<1>x. PICK x : x = Head(r2s)
  OBVIOUS
<1>a. /\ sConn = "open" /\ r2s # <<>> /\ x.t = "Start" /\ r2s' = Tail(r2s)
      /\ x = Head(r2s) /\ started' = TRUE
  BY <1>x DEF DoStart
<1>s. /\ x \in ToS /\ SLetter(x.t, x.g)
      /\ \A u, k : SLetter(u, k)' => SLetter(u, k)
      /\ \A u, k : SLetter(u, k) /\ ~(u = x.t /\ k = x.g) => SLetter(u, k)'
      /\ \A k, n : Named(k, n)' => Named(k, n)
      /\ \A k, n : Named(k, n) /\ ~(x.t = "Prepare" /\ k = x.g) => Named(k, n)'
      /\ x.t = "Prepare" => /\ ~SLetter("Prepare", x.g)' /\ \A n : ~Named(x.g, n)'
                            /\ \A n : Named(x.g, n) <=> n \in x.msgs
      /\ x.t \in RecTypes => /\ ~ConnRep'
                             /\ \A k : ~SLetter("CommitRecover", k)' /\ ~SLetter("RollRecover", k)'
      /\ x.t = "ConnectReply" => ConnRep
      /\ ConnRep' => ConnRep
      /\ x.t # "ConnectReply" => (ConnRep' <=> ConnRep)
      /\ OnceS' /\ r2s' \in Seq(ToS)
  BY <1>i, <1>a, STail DEF Typed
<1>b. x.g = NoXA /\ (ConnRep' <=> ConnRep) /\ SLetter("Start", NoXA)
  BY <1>a, <1>s, ToSFields
<1>c. ~Recovery
  BY <1>i, <1>b DEF Recovers, Quiet
<1>1. Typed'
  BY <1>i, <1>u, <1>r, <1>x, <1>a, <1>s DEF Typed, TypeOK
<1>2. LinkPlaced'
  BY <1>i, <1>u, <1>r, <1>p, <1>x, <1>a, <1>s DEF LinkPlaced, Preparing
<1>3. Numbered'
  BY <1>i, <1>u, <1>r, <1>o, <1>p, <1>a, <1>s, <1>b DEF Numbered, Asked, Acking, Answered,
     Preparing, Telling, Told, Collecting, Flowing, Gathered, TellCommit, TellRoll, Claimed
<1>4. Placed'
  BY <1>i, <1>u, <1>r, <1>o, <1>p, <1>s, <1>b DEF Placed, Asked, Acking, Answered, Preparing,
     TellCommit, Telling, Told, Collecting, Gathered, TellRoll, Claimed
<1>5. OneToken'
  BY <1>i, <1>u, <1>r, <1>o, <1>s, <1>b DEF OneToken, TellRec, Asking
<1>6. Recovers'
  BY <1>i, <1>u, <1>r, <1>o, <1>p, <1>a, <1>s, <1>b, <1>c DEF Recovers, TellRec, Recovery,
     Quiet, Asked, Acking, Answered, Preparing, Claimed, Asking
<1>7. BranchS'
  BY <1>i, <1>u, <1>r, <1>o, <1>p, <1>s, <1>b, <1>c DEF BranchS, Asked, Acking, Telling, Told,
     Collecting, Recovery, TellRec, Asking, Gathered, TellCommit, TellRoll, Claimed
<1>8. Claims'
  BY <1>i, <1>u, <1>o, <1>s DEF Claims, Claimed, Hold
<1>9. BranchR'
  BY <1>i, <1>u, <1>r, <1>o, <1>p, <1>s, <1>b DEF BranchR, Asked, Acking, Answered, Preparing,
     Gathered, Dec, Claimed
<1>10. Apart'
  BY <1>i, <1>u, <1>r DEF Apart, Gathered, Active
<1>11. Same'
  BY <1>i, <1>u, <1>r, <1>o, <1>s, <1>b DEF Same, Asked, Acking, Gathered, Claimed
<1>12. Agreed'
  BY <1>i, <1>u, <1>r, <1>o, <1>p, <1>s, <1>b DEF Agreed, Preparing, TellCommit, TellRoll, Dec,
     Bound
<1>13. NoDuplicate'
  BY <1>i, <1>u DEF NoDuplicate
<1>14. NothingLost'
  BY <1>i, <1>u DEF NothingLost
<1>15. DecidedIsHeld'
  BY <1>i, <1>u DEF DecidedIsHeld
<1>16. Starting'
  <2>1. ~SLetter("Start", NoXA)'
    BY <1>i, <1>a, STail DEF Typed
  <2> QED BY <2>1 DEF Starting
<1>17. Deciding'
  BY <1>i, <1>u, <1>b DEF Deciding, Starting
<1>18. Resuming'
  BY <1>i, <1>u, <1>o, <1>a DEF Resuming
<1> QED
  BY <1>1, <1>2, <1>3, <1>4, <1>5, <1>6, <1>7, <1>8, <1>9, <1>10, <1>11, <1>12, <1>13, <1>14,
     <1>15, <1>16, <1>17, <1>18, <1>r, <1>s DEF ForwardInv

(* ism_fwd_doPrepare: the sender creates branch S for a Prepare letter.    *)
LEMMA DoPrepareKeeps ==
  ASSUME ForwardInv, DoPrepare
  PROVE  ForwardInv'
<1>i. /\ Typed /\ OnceR /\ OnceS /\ LinkPlaced /\ Numbered /\ Placed /\ OneToken
      /\ Recovers /\ BranchS /\ Claims /\ BranchR /\ Apart /\ Same /\ Agreed
      /\ NoDuplicate /\ NothingLost /\ DecidedIsHeld /\ Starting /\ Deciding /\ Resuming
  BY DEF ForwardInv
<1>u. /\ s2r' = s2r /\ linkUp' = linkUp /\ where' = where /\ sBranch' = sBranch
      /\ recoveryList' = recoveryList
      /\ sConn' = sConn /\ started' = started /\ preparedXA' = preparedXA
      /\ suspended' = suspended /\ rUp' = rUp
      /\ rConn' = rConn /\ rBranch' = rBranch /\ rMsgs' = rMsgs /\ receiverXA' = receiverXA
      /\ commits' = commits
      /\ currentXA' = currentXA /\ xaList' = xaList /\ puts' = puts /\ rOps' = rOps /\ seqn' = seqn
      /\ received' = received /\ faults' = faults
  BY DEF DoPrepare, receiverVars
<1>r. /\ \A u, k : RLetter(u, k)' <=> RLetter(u, k)
      /\ \A k : Confirmed(k)' <=> Confirmed(k)
      /\ OnceR' /\ s2r' \in Seq(ToR)
  BY <1>i, <1>u, RSame DEF Typed
<1>p. \A o, k : ROp(o, k)' <=> ROp(o, k)
  BY <1>u, ROpSame
<1>x. PICK x : x = Head(r2s)
  OBVIOUS
<1>a. /\ sConn = "open" /\ r2s # <<>> /\ x.t = "Prepare" /\ r2s' = Tail(r2s)
      /\ x = Head(r2s)
      /\ senderXA' = senderXA \cup {x.g} /\ sMsgs' = [sMsgs EXCEPT ![x.g] = x.msgs]
      /\ sOps' = sOps \cup {Op("create", x.g)}
  BY <1>x DEF DoPrepare
<1>s. /\ x \in ToS /\ SLetter(x.t, x.g)
      /\ \A u, k : SLetter(u, k)' => SLetter(u, k)
      /\ \A u, k : SLetter(u, k) /\ ~(u = x.t /\ k = x.g) => SLetter(u, k)'
      /\ \A k, n : Named(k, n)' => Named(k, n)
      /\ \A k, n : Named(k, n) /\ ~(x.t = "Prepare" /\ k = x.g) => Named(k, n)'
      /\ x.t = "Prepare" => /\ ~SLetter("Prepare", x.g)' /\ \A n : ~Named(x.g, n)'
                            /\ \A n : Named(x.g, n) <=> n \in x.msgs
      /\ x.t \in RecTypes => /\ ~ConnRep'
                             /\ \A k : ~SLetter("CommitRecover", k)' /\ ~SLetter("RollRecover", k)'
      /\ x.t = "ConnectReply" => ConnRep
      /\ ConnRep' => ConnRep
      /\ x.t # "ConnectReply" => (ConnRep' <=> ConnRep)
      /\ OnceS' /\ r2s' \in Seq(ToS)
  BY <1>i, <1>a, STail DEF Typed
<1>g. PICK g \in Gtrids : g = x.g
  BY <1>a, <1>s, ToSFields
<1>b. /\ \A u, k : SLetter(u, k)' <=> SLetter(u, k) /\ ~(u = "Prepare" /\ k = g)
      /\ \A k, n : Named(k, n)' <=> Named(k, n) /\ k # g
      /\ Asked(g) /\ \A n : Named(g, n) <=> n \in x.msgs
      /\ ConnRep' <=> ConnRep
      /\ x.msgs \subseteq Msgs
  BY <1>a, <1>s, <1>g, ToSFields DEF Asked
<1>o. \A o, k : SOp(o, k)' <=> SOp(o, k) \/ (o = "create" /\ k = g)
  BY <1>a, <1>g, OpEq DEF SOp
<1>d. /\ senderXA' = senderXA \cup {g} /\ sMsgs' = [sMsgs EXCEPT ![g] = x.msgs]
      /\ sOps' = sOps \cup {Op("create", g)}
  BY <1>a, <1>g
<1>c. ~Recovery
  BY <1>i, <1>b DEF Recovers, Quiet
<1>e. linkUp => x.msgs = rMsgs[g] /\ rBranch[g] = "inflight"
  <2>1. SUFFICES ASSUME linkUp PROVE x.msgs = rMsgs[g] /\ rBranch[g] = "inflight"
    OBVIOUS
  <2>2. rBranch[g] = "inflight" /\ \A n \in Msgs : Named(g, n) <=> n \in rMsgs[g]
    BY <1>i, <1>b, <2>1 DEF Same
  <2>3. rMsgs[g] \subseteq Msgs
    BY <1>i DEF Typed, TypeOK
  <2> QED BY <1>b, <2>2, <2>3
<1>1. Typed'
  BY <1>i, <1>u, <1>r, <1>p, <1>x, <1>a, <1>s, <1>g, <1>b, <1>o, <1>d, <1>c, <1>e, CallsS DEF
     Typed, TypeOK
<1>2. LinkPlaced'
  BY <1>i, <1>u, <1>r, <1>p, <1>x, <1>a, <1>s, <1>g, <1>d, <1>e DEF LinkPlaced, Preparing
<1>3. Numbered'
  BY <1>i, <1>u, <1>r, <1>p, <1>s, <1>g, <1>b, <1>o, <1>e DEF Numbered, Asked, Acking, Answered,
     Preparing, Telling, Told, Collecting, Flowing, Gathered, TellCommit, TellRoll, Claimed
<1>4. Placed'
  BY <1>i, <1>u, <1>r, <1>p, <1>s, <1>g, <1>b, <1>o, <1>e DEF Placed, Asked, Acking, Answered,
     Preparing, TellCommit, Telling, Told, Collecting, Gathered, TellRoll, Claimed
<1>5. OneToken'
  BY <1>i, <1>u, <1>r, <1>a, <1>s, <1>g, <1>b, <1>o, <1>d, <1>c DEF OneToken, Recovery, TellRec,
     Asking
<1>6. Recovers'
  BY <1>i, <1>u, <1>r, <1>p, <1>a, <1>s, <1>g, <1>b, <1>o, <1>c, <1>e DEF Recovers, TellRec,
     Recovery, Quiet, Asked, Acking, Answered, Preparing, Claimed, Asking
<1>7. BranchS'
  BY <1>i, <1>u, <1>r, <1>p, <1>a, <1>s, <1>g, <1>b, <1>o, <1>d, <1>c, <1>e DEF BranchS, Asked,
     Acking, Telling, Told, Collecting, Recovery, TellRec, Asking, Gathered, TellCommit,
     TellRoll, Claimed
<1>8. Claims'
  BY <1>i, <1>u, <1>r, <1>p, <1>x, <1>a, <1>s, <1>g, <1>b, <1>o, <1>d, <1>c, <1>e DEF Claims,
     BranchS, Placed, Typed, TypeOK, Claimed, Hold, Asked, Acking, Telling, Told, Collecting,
     Recovery, TellRec, Asking, Gathered, TellCommit, TellRoll, Answered, Preparing
<1>9. BranchR'
  BY <1>i, <1>u, <1>r, <1>p, <1>s, <1>g, <1>b, <1>o, <1>e DEF BranchR, Asked, Acking, Answered,
     Preparing, Gathered, Dec, Claimed
<1>10. Apart'
  BY <1>i, <1>u, <1>r, <1>g, <1>e DEF Apart, Gathered, Active
<1>11. Same'
  BY <1>i, <1>u, <1>r, <1>p, <1>x, <1>a, <1>s, <1>g, <1>b, <1>o, <1>d, <1>e DEF Same, Placed,
     Typed, TypeOK, Asked, Acking, Gathered, Claimed, Answered, Preparing, TellCommit, Telling,
     Told, Collecting, TellRoll
<1>12. Agreed'
  BY <1>i, <1>u, <1>r, <1>p, <1>x, <1>a, <1>s, <1>g, <1>b, <1>o, <1>d, <1>c, <1>e,
     ConfirmedIsAnswer DEF Agreed, Placed, BranchS, Typed, TypeOK, Preparing, TellCommit,
     TellRoll, Dec, Bound, Asked, Acking, Answered, Telling, Told, Collecting, Gathered,
     Claimed, Recovery, TellRec, Asking
<1>13. NoDuplicate'
  BY <1>i, <1>u, <1>g DEF NoDuplicate
<1>14. NothingLost'
  BY <1>i, <1>u, <1>g, <1>e DEF NothingLost
<1>15. DecidedIsHeld'
  BY <1>i, <1>u, <1>r, <1>p, <1>x, <1>a, <1>s, <1>g, <1>b, <1>o, <1>d, <1>c, <1>e DEF
     DecidedIsHeld, BranchS, Typed, TypeOK, Asked, Acking, Telling, Told, Collecting, Recovery,
     TellRec, Asking, Gathered, TellCommit, TellRoll, Claimed
<1>16. Starting'
  BY <1>i, <1>u, <1>r, <1>p, <1>s, <1>g, <1>b, <1>o, <1>e DEF Starting, Asked, Acking, Claimed
<1>17. Deciding'
  BY <1>i, <1>u, <1>r, <1>p, <1>s, <1>g, <1>b, <1>o, <1>e DEF Deciding, Answered, Preparing
<1>18. Resuming'
  BY <1>i, <1>u, <1>a, <1>g, <1>o DEF Resuming
<1> QED
  BY <1>1, <1>2, <1>3, <1>4, <1>5, <1>6, <1>7, <1>8, <1>9, <1>10, <1>11, <1>12, <1>13, <1>14,
     <1>15, <1>16, <1>17, <1>18, <1>r, <1>s DEF ForwardInv

(* Branch S is created; its messages are acknowledged next.                *)
LEMMA SCreatedKeeps ==
  ASSUME ForwardInv, NEW g \in Gtrids, SCreated(g)
  PROVE  ForwardInv'
<1>i. /\ Typed /\ OnceR /\ OnceS /\ LinkPlaced /\ Numbered /\ Placed /\ OneToken
      /\ Recovers /\ BranchS /\ Claims /\ BranchR /\ Apart /\ Same /\ Agreed
      /\ NoDuplicate /\ NothingLost /\ DecidedIsHeld /\ Starting /\ Deciding /\ Resuming
  BY DEF ForwardInv
<1>u. /\ s2r' = s2r /\ r2s' = r2s /\ linkUp' = linkUp /\ where' = where /\ sMsgs' = sMsgs
      /\ senderXA' = senderXA /\ recoveryList' = recoveryList /\ sConn' = sConn
      /\ started' = started /\ preparedXA' = preparedXA
      /\ suspended' = suspended /\ rUp' = rUp /\ rConn' = rConn /\ rBranch' = rBranch
      /\ rMsgs' = rMsgs
      /\ receiverXA' = receiverXA /\ commits' = commits /\ currentXA' = currentXA
      /\ xaList' = xaList /\ puts' = puts
      /\ rOps' = rOps /\ seqn' = seqn /\ received' = received /\ faults' = faults
  BY DEF SCreated, link, receiverVars
<1>r. /\ \A u, k : RLetter(u, k)' <=> RLetter(u, k)
      /\ \A k : Confirmed(k)' <=> Confirmed(k)
      /\ OnceR' /\ s2r' \in Seq(ToR)
  BY <1>i, <1>u, RSame DEF Typed
<1>s. /\ \A u, k : SLetter(u, k)' <=> SLetter(u, k)
      /\ \A k, n : Named(k, n)' <=> Named(k, n)
      /\ ConnRep' <=> ConnRep
      /\ OnceS' /\ r2s' \in Seq(ToS)
  BY <1>i, <1>u, SSame DEF Typed
<1>p. \A o, k : ROp(o, k)' <=> ROp(o, k)
  BY <1>u, ROpSame
<1>a. /\ SOp("create", g) /\ sBranch' = [sBranch EXCEPT ![g] = "inflight"]
      /\ sOps' = (sOps \ {Op("create", g)}) \cup {Op("ack", g)}
  BY DEF SCreated, SOp
<1>o. \A o, k : SOp(o, k)' <=> (SOp(o, k) /\ ~(o = "create" /\ k = g)) \/ (o = "ack" /\ k = g)
  BY <1>a, OpEq DEF SOp
<1>c. ~Recovery
  BY <1>i, <1>a DEF Recovers, Quiet, Acking, Claimed
<1>d. /\ \A k \in Gtrids : sBranch'[k] = IF k = g THEN "inflight" ELSE sBranch[k]
      /\ sBranch[g] = "none" /\ sConn \notin {"closed", "connecting"}
  BY <1>i, <1>a DEF Typed, TypeOK, BranchS, LinkPlaced, SOp
<1>1. Typed'
  BY <1>i, <1>u, <1>r, <1>s, <1>a, <1>d, CallsS DEF Typed, TypeOK
<1>2. LinkPlaced'
  BY <1>i, <1>u, <1>r, <1>s, <1>p, <1>a, <1>d DEF LinkPlaced, Preparing
<1>3. Numbered'
  BY <1>i, <1>u, <1>r, <1>s, <1>p, <1>a, <1>o, <1>d DEF Numbered, Asked, Acking, Answered,
     Preparing, Telling, Told, Collecting, Flowing, Gathered, TellCommit, TellRoll, Claimed
<1>4. Placed'
  BY <1>i, <1>u, <1>r, <1>s, <1>p, <1>a, <1>o DEF Placed, Asked, Acking, Answered, Preparing,
     TellCommit, Telling, Told, Collecting, Gathered, TellRoll, Claimed
<1>5. OneToken'
  BY <1>i, <1>u, <1>r, <1>s, <1>a, <1>o, <1>c DEF OneToken, Recovery, TellRec, Asking
<1>6. Recovers'
  BY <1>i, <1>u, <1>r, <1>s, <1>p, <1>a, <1>o, <1>c, <1>d DEF Recovers, Placed, TellRec,
     Recovery, Quiet, Asked, Acking, Answered, Preparing, Claimed, Asking, TellCommit, Telling,
     Told, Collecting, Gathered, TellRoll
<1>7. BranchS'
  BY <1>i, <1>u, <1>r, <1>s, <1>p, <1>a, <1>o, <1>c, <1>d DEF BranchS, Placed, Asked, Acking,
     Telling, Told, Collecting, Recovery, TellRec, Asking, Gathered, TellCommit, TellRoll,
     Claimed, Answered, Preparing
<1>8. Claims'
  BY <1>i, <1>u, <1>s, <1>a, <1>o, <1>d DEF Claims, Claimed, Hold
<1>9. BranchR'
  BY <1>i, <1>u, <1>r, <1>s, <1>p, <1>a, <1>o DEF BranchR, Asked, Acking, Answered, Preparing,
     Gathered, Dec, Claimed
<1>10. Apart'
  BY <1>i, <1>u, <1>r DEF Apart, Gathered, Active
<1>11. Same'
  BY <1>i, <1>u, <1>r, <1>s, <1>a, <1>o DEF Same, Asked, Acking, Gathered, Claimed
<1>12. Agreed'
  BY <1>i, <1>u, <1>r, <1>s, <1>p, <1>a, <1>o, <1>d DEF Agreed, Placed, Preparing, TellCommit,
     TellRoll, Dec, Bound, Asked, Acking, Answered, Telling, Told, Collecting, Gathered, Claimed
<1>13. NoDuplicate'
  BY <1>i, <1>u DEF NoDuplicate
<1>14. NothingLost'
  BY <1>i, <1>u DEF NothingLost
<1>15. DecidedIsHeld'
  BY <1>i, <1>u, <1>a, <1>d DEF DecidedIsHeld
<1>16. Starting'
  BY <1>i, <1>u, <1>r, <1>s, <1>p, <1>a, <1>o, <1>d DEF Starting, Asked, Acking, Claimed
<1>17. Deciding'
  BY <1>i, <1>u, <1>r, <1>s, <1>p, <1>a, <1>o, <1>d DEF Deciding, Answered, Preparing
<1>18. Resuming'
  BY <1>i, <1>u, <1>a, <1>o, <1>d DEF Resuming
<1> QED
  BY <1>1, <1>2, <1>3, <1>4, <1>5, <1>6, <1>7, <1>8, <1>9, <1>10, <1>11, <1>12, <1>13, <1>14,
     <1>15, <1>16, <1>17, <1>18, <1>r, <1>s DEF ForwardInv

(* The messages are acknowledged in branch S; it is prepared next.         *)
LEMMA SAckedKeeps ==
  ASSUME ForwardInv, NEW g \in Gtrids, SAcked(g)
  PROVE  ForwardInv'
<1>i. /\ Typed /\ OnceR /\ OnceS /\ LinkPlaced /\ Numbered /\ Placed /\ OneToken
      /\ Recovers /\ BranchS /\ Claims /\ BranchR /\ Apart /\ Same /\ Agreed
      /\ NoDuplicate /\ NothingLost /\ DecidedIsHeld /\ Starting /\ Deciding /\ Resuming
  BY DEF ForwardInv
<1>u. /\ s2r' = s2r /\ r2s' = r2s /\ linkUp' = linkUp /\ sBranch' = sBranch /\ sMsgs' = sMsgs
      /\ senderXA' = senderXA /\ recoveryList' = recoveryList /\ sConn' = sConn
      /\ started' = started /\ preparedXA' = preparedXA
      /\ suspended' = suspended /\ rUp' = rUp /\ rConn' = rConn /\ rBranch' = rBranch
      /\ rMsgs' = rMsgs
      /\ receiverXA' = receiverXA /\ commits' = commits /\ currentXA' = currentXA
      /\ xaList' = xaList /\ puts' = puts
      /\ rOps' = rOps /\ seqn' = seqn /\ received' = received /\ faults' = faults
  BY DEF SAcked, link, receiverVars
<1>r. /\ \A u, k : RLetter(u, k)' <=> RLetter(u, k)
      /\ \A k : Confirmed(k)' <=> Confirmed(k)
      /\ OnceR' /\ s2r' \in Seq(ToR)
  BY <1>i, <1>u, RSame DEF Typed
<1>s. /\ \A u, k : SLetter(u, k)' <=> SLetter(u, k)
      /\ \A k, n : Named(k, n)' <=> Named(k, n)
      /\ ConnRep' <=> ConnRep
      /\ OnceS' /\ r2s' \in Seq(ToS)
  BY <1>i, <1>u, SSame DEF Typed
<1>p. \A o, k : ROp(o, k)' <=> ROp(o, k)
  BY <1>u, ROpSame
<1>a. /\ SOp("ack", g) /\ where' = [m \in Msgs |-> IF m \in sMsgs[g] THEN "acked" ELSE where[m]]
      /\ sOps' = (sOps \ {Op("ack", g)}) \cup {Op("prepare", g)}
  BY DEF SAcked, SOp
<1>o. \A o, k : SOp(o, k)' <=> (SOp(o, k) /\ ~(o = "ack" /\ k = g)) \/ (o = "prepare" /\ k = g)
  BY <1>a, OpEq DEF SOp
<1>c. ~Recovery
  BY <1>i, <1>a DEF Recovers, Quiet, Acking, Claimed
<1>d. /\ \A m \in Msgs : where'[m] = IF m \in sMsgs[g] THEN "acked" ELSE where[m]
      /\ \A m \in Msgs : m \in sMsgs[g] => where[m] = "sent"
      /\ sBranch[g] = "inflight" /\ sConn \notin {"closed", "connecting"} /\ ~SOp("create", g)
  BY <1>i, <1>a DEF Typed, TypeOK, BranchS, LinkPlaced, SOp, Claims, Claimed
<1>1. Typed'
  BY <1>i, <1>u, <1>r, <1>s, <1>a, <1>d, CallsS DEF Typed, TypeOK
<1>2. LinkPlaced'
  BY <1>i, <1>u, <1>r, <1>s, <1>p, <1>a, <1>d DEF LinkPlaced, Preparing
<1>3. Numbered'
  BY <1>i, <1>u, <1>r, <1>s, <1>p, <1>a, <1>o, <1>d DEF Numbered, Asked, Acking, Answered,
     Preparing, Telling, Told, Collecting, Flowing, Gathered, TellCommit, TellRoll, Claimed
<1>4. Placed'
  BY <1>i, <1>u, <1>r, <1>s, <1>p, <1>a, <1>o, <1>d DEF Placed, Asked, Acking, Answered,
     Preparing, TellCommit, Telling, Told, Collecting, Gathered, TellRoll, Claimed
<1>5. OneToken'
  BY <1>i, <1>u, <1>r, <1>s, <1>a, <1>o, <1>c, <1>d DEF OneToken, Recovery, TellRec, Asking
<1>6. Recovers'
  BY <1>i, <1>u, <1>r, <1>s, <1>p, <1>a, <1>o, <1>c, <1>d DEF Recovers, TellRec, Recovery,
     Quiet, Asked, Acking, Answered, Preparing, Claimed, Asking
<1>7. BranchS'
  BY <1>i, <1>u, <1>r, <1>s, <1>p, <1>a, <1>o, <1>c, <1>d DEF BranchS, Placed, Asked, Acking,
     Telling, Told, Collecting, Recovery, TellRec, Asking, Gathered, TellCommit, TellRoll,
     Claimed, Answered, Preparing
<1>8. Claims'
  BY <1>i, <1>u, <1>s, <1>a, <1>o, <1>d DEF Claims, Claimed, Hold
<1>9. BranchR'
  BY <1>i, <1>u, <1>r, <1>s, <1>p, <1>a, <1>o, <1>d DEF BranchR, Asked, Acking, Answered,
     Preparing, Gathered, Dec, Claimed
<1>10. Apart'
  BY <1>i, <1>u, <1>r DEF Apart, Gathered, Active
<1>11. Same'
  BY <1>i, <1>u, <1>r, <1>s, <1>p, <1>a, <1>o, <1>d DEF Same, Placed, Apart, BranchR, Asked,
     Acking, Gathered, Claimed, Answered, Preparing, TellCommit, Telling, Told, Collecting,
     TellRoll, Active, Dec
<1>12. Agreed'
  BY <1>i, <1>u, <1>r, <1>s, <1>p, <1>a, <1>o, <1>d DEF Agreed, Placed, Preparing, TellCommit,
     TellRoll, Dec, Bound, Asked, Acking, Answered, Telling, Told, Collecting, Gathered, Claimed
<1>13. NoDuplicate'
  BY <1>i, <1>u DEF NoDuplicate
<1>14. NothingLost'
  BY <1>i, <1>u, <1>a, <1>d DEF NothingLost
<1>15. DecidedIsHeld'
  BY <1>i, <1>u, <1>a, <1>d DEF DecidedIsHeld
<1>16. Starting'
  BY <1>i, <1>u, <1>r, <1>s, <1>p, <1>a, <1>o, <1>d DEF Starting, Asked, Acking, Claimed
<1>17. Deciding'
  BY <1>i, <1>u, <1>r, <1>s, <1>p, <1>a, <1>o, <1>d DEF Deciding, Answered, Preparing
<1>18. Resuming'
  BY <1>i, <1>u, <1>a, <1>o, <1>d DEF Resuming
<1> QED
  BY <1>1, <1>2, <1>3, <1>4, <1>5, <1>6, <1>7, <1>8, <1>9, <1>10, <1>11, <1>12, <1>13, <1>14,
     <1>15, <1>16, <1>17, <1>18, <1>r, <1>s DEF ForwardInv

(* Branch S is prepared and the receiver is told so.                       *)
LEMMA SPreparedKeeps ==
  ASSUME ForwardInv, NEW g \in Gtrids, SPrepared(g)
  PROVE  ForwardInv'
<1>i. /\ Typed /\ OnceR /\ OnceS /\ LinkPlaced /\ Numbered /\ Placed /\ OneToken
      /\ Recovers /\ BranchS /\ Claims /\ BranchR /\ Apart /\ Same /\ Agreed
      /\ NoDuplicate /\ NothingLost /\ DecidedIsHeld /\ Starting /\ Deciding /\ Resuming
  BY DEF ForwardInv
<1>u. /\ r2s' = r2s /\ linkUp' = linkUp /\ where' = where /\ sMsgs' = sMsgs /\ senderXA' = senderXA
      /\ recoveryList' = recoveryList /\ sConn' = sConn /\ started' = started
      /\ suspended' = suspended /\ rUp' = rUp
      /\ rConn' = rConn /\ rBranch' = rBranch /\ rMsgs' = rMsgs /\ receiverXA' = receiverXA
      /\ commits' = commits
      /\ currentXA' = currentXA /\ xaList' = xaList /\ puts' = puts /\ rOps' = rOps /\ seqn' = seqn
      /\ received' = received /\ faults' = faults
  BY DEF SPrepared, link, receiverVars
<1>s. /\ \A u, k : SLetter(u, k)' <=> SLetter(u, k)
      /\ \A k, n : Named(k, n)' <=> Named(k, n)
      /\ ConnRep' <=> ConnRep
      /\ OnceS' /\ r2s' \in Seq(ToS)
  BY <1>i, <1>u, SSame DEF Typed
<1>p. \A o, k : ROp(o, k)' <=> ROp(o, k)
  BY <1>u, ROpSame
<1>a. /\ SOp("prepare", g) /\ sBranch' = [sBranch EXCEPT ![g] = "prepared"]
      /\ sOps' = sOps \ {Op("prepare", g)} /\ preparedXA' = preparedXA + 1
      /\ ToReceiver(<<[t |-> "PrepareReply", g |-> g, ok |-> TRUE]>>)
  BY DEF SPrepared, SOp
<1>z. linkUp \/ s2r' = s2r
  BY <1>a DEF ToReceiver
<1>o. \A o, k : SOp(o, k)' <=> SOp(o, k) /\ ~(o = "prepare" /\ k = g)
  BY <1>a, OpEq DEF SOp
<1>c. ~Recovery
  BY <1>i, <1>a DEF Recovers, Quiet, Acking, Claimed
<1>d. /\ \A k \in Gtrids : sBranch'[k] = IF k = g THEN "prepared" ELSE sBranch[k]
      /\ sBranch[g] = "inflight" /\ sConn \notin {"closed", "connecting"}
      /\ ~SOp("create", g) /\ ~SOp("ack", g)
      /\ ~Answered(g) /\ ~Collecting(g)
  BY <1>i, <1>a DEF Typed, TypeOK, BranchS, LinkPlaced, SOp, Placed, Acking
<1>r. /\ \A u, k : RLetter(u, k)' <=> RLetter(u, k) \/ (linkUp /\ u = "PrepareReply" /\ k = g)
      /\ \A k : Confirmed(k)' <=> Confirmed(k) \/ (linkUp /\ k = g)
      /\ OnceR' /\ s2r' \in Seq(ToR)
  <2>1. PICK x : x = [t |-> "PrepareReply", g |-> g, ok |-> TRUE]
    OBVIOUS
  <2>2. x \in ToR /\ x.t = "PrepareReply" /\ x.g = g /\ x.ok
    BY <2>1, WireToR
  <2>3. s2r \in Seq(ToR) /\ ToReceiver(<<x>>) /\ ~RLetter(x.t, x.g) /\ OnceR
    BY <1>a, <1>i, <1>d, <2>1, <2>2 DEF Typed, Answered
  <2> QED BY <2>2, <2>3, RSend
<1>e. /\ linkUp => sMsgs[g] = rMsgs[g] /\ rBranch[g] = "inflight"
      /\ ~Dec(g)
      /\ linkUp => rConn = "open" /\ sConn = "open"
  BY <1>i, <1>a DEF Same, BranchR, Acking, LinkPlaced
<1>h. \A m \in sMsgs[g] : /\ received[m] = 0
                             /\ \A k \in Gtrids : rBranch[k] \in Bound => m \notin rMsgs[k]
  <2>1. SUFFICES ASSUME NEW m \in Msgs, m \in sMsgs[g]
                 PROVE  /\ received[m] = 0
                        /\ \A k \in Gtrids : rBranch[k] \in Bound => m \notin rMsgs[k]
    BY <1>i DEF Typed, TypeOK
  <2>2. where[m] = "acked" /\ \A k \in Gtrids : ~(sBranch[k] = "prepared" /\ m \in sMsgs[k])
    BY <1>i, <1>a, <1>d, <2>1 DEF Claims, Hold
  <2>3. received[m] \in Nat
    BY <1>i DEF Typed
  <2> QED BY <1>i, <2>2, <2>3 DEF DecidedIsHeld, Bound
<1>1. Typed'
  BY <1>i, <1>u, <1>s, <1>a, <1>z, <1>d, <1>r, <1>e, <1>h, CallsS DEF Typed, TypeOK
<1>2. LinkPlaced'
  BY <1>i, <1>u, <1>s, <1>p, <1>a, <1>z, <1>d, <1>r, <1>e, <1>h DEF LinkPlaced, Preparing
<1>3. Numbered'
  BY <1>i, <1>u, <1>s, <1>p, <1>a, <1>z, <1>o, <1>d, <1>r, <1>e, <1>h DEF Numbered, Asked,
     Acking, Answered, Preparing, Telling, Told, Collecting, Flowing, Gathered, TellCommit,
     TellRoll, Claimed
<1>4. Placed'
  BY <1>i, <1>u, <1>s, <1>p, <1>a, <1>o, <1>d, <1>r, <1>e, <1>h DEF Placed, Asked, Acking,
     Answered, Preparing, TellCommit, Telling, Told, Collecting, Gathered, TellRoll, Claimed
<1>5. OneToken'
  BY <1>i, <1>u, <1>s, <1>a, <1>z, <1>o, <1>c, <1>d, <1>r DEF OneToken, Recovery, TellRec,
     Asking
<1>6. Recovers'
  BY <1>i, <1>u, <1>s, <1>p, <1>a, <1>o, <1>c, <1>d, <1>r, <1>e, <1>h DEF Recovers, TellRec,
     Recovery, Quiet, Asked, Acking, Answered, Preparing, Claimed, Asking
<1>7. BranchS'
  BY <1>i, <1>u, <1>s, <1>p, <1>a, <1>z, <1>o, <1>c, <1>d, <1>r, <1>e, <1>h DEF BranchS, Placed,
     Asked, Acking, Telling, Told, Collecting, Recovery, TellRec, Asking, Gathered, TellCommit,
     TellRoll, Claimed, Answered, Preparing
<1>8. Claims'
  BY <1>i, <1>u, <1>s, <1>a, <1>o, <1>d, <1>e, <1>h DEF Claims, Claimed, Hold
<1>9. BranchR'
  BY <1>i, <1>u, <1>s, <1>p, <1>a, <1>o, <1>d, <1>r, <1>e, <1>h DEF BranchR, Asked, Acking,
     Answered, Preparing, Gathered, Dec, Claimed
<1>10. Apart'
  BY <1>i, <1>u, <1>r, <1>e, <1>h DEF Apart, Gathered, Active
<1>11. Same'
  BY <1>i, <1>u, <1>s, <1>a, <1>z, <1>o, <1>d, <1>r, <1>e, <1>h DEF Same, Asked, Acking,
     Gathered, Claimed
<1>12. Agreed'
  BY <1>i, <1>u, <1>s, <1>p, <1>a, <1>o, <1>d, <1>r, <1>e, <1>h DEF Agreed, Placed, BranchR,
     Preparing, TellCommit, TellRoll, Dec, Bound, Asked, Acking, Answered, Telling, Told,
     Collecting, Gathered, Claimed
<1>13. NoDuplicate'
  BY <1>i, <1>u, <1>h DEF NoDuplicate
<1>14. NothingLost'
  BY <1>i, <1>u, <1>e, <1>h DEF NothingLost
<1>15. DecidedIsHeld'
  BY <1>i, <1>u, <1>a, <1>d, <1>e, <1>h DEF DecidedIsHeld
<1>16. Starting'
  BY <1>i, <1>u, <1>s, <1>p, <1>a, <1>z, <1>o, <1>d, <1>r, <1>e, <1>h DEF Starting, Asked,
     Acking, Claimed
<1>17. Deciding'
  BY <1>i, <1>u, <1>s, <1>p, <1>a, <1>z, <1>o, <1>d, <1>r, <1>e DEF Deciding, Answered,
     Preparing
<1>18. Resuming'
  BY <1>i, <1>u, <1>o, <1>a, ForwarderAssumption DEF Resuming, Typed, TypeOK
<1> QED
  BY <1>1, <1>2, <1>3, <1>4, <1>5, <1>6, <1>7, <1>8, <1>9, <1>10, <1>11, <1>12, <1>13, <1>14,
     <1>15, <1>16, <1>17, <1>18, <1>r, <1>s DEF ForwardInv

(* An engine call for branch S fails and the receiver is told so.          *)
LEMMA SPrepareFailsKeeps ==
  ASSUME ForwardInv, NEW x \in sOps, SPrepareFails(x)
  PROVE  ForwardInv'
<1>i. /\ Typed /\ OnceR /\ OnceS /\ LinkPlaced /\ Numbered /\ Placed /\ OneToken
      /\ Recovers /\ BranchS /\ Claims /\ BranchR /\ Apart /\ Same /\ Agreed
      /\ NoDuplicate /\ NothingLost /\ DecidedIsHeld /\ Starting /\ Deciding /\ Resuming
  BY DEF ForwardInv
<1>u. /\ r2s' = r2s /\ linkUp' = linkUp /\ where' = where /\ sBranch' = sBranch /\ sMsgs' = sMsgs
      /\ recoveryList' = recoveryList /\ sConn' = sConn /\ started' = started
      /\ preparedXA' = preparedXA /\ suspended' = suspended
      /\ rUp' = rUp /\ rConn' = rConn /\ rBranch' = rBranch /\ rMsgs' = rMsgs
      /\ receiverXA' = receiverXA
      /\ commits' = commits /\ currentXA' = currentXA /\ xaList' = xaList /\ puts' = puts
      /\ rOps' = rOps
      /\ seqn' = seqn /\ received' = received
  BY DEF SPrepareFails, link, receiverVars
<1>s. /\ \A u, k : SLetter(u, k)' <=> SLetter(u, k)
      /\ \A k, n : Named(k, n)' <=> Named(k, n)
      /\ ConnRep' <=> ConnRep
      /\ OnceS' /\ r2s' \in Seq(ToS)
  BY <1>i, <1>u, SSame DEF Typed
<1>p. \A o, k : ROp(o, k)' <=> ROp(o, k)
  BY <1>u, ROpSame
<1>g. PICK g \in Gtrids, o1 \in {"create", "ack", "prepare"} : x = Op(o1, g) /\ x.g = g /\ x.op = o1
  <2>1. x \in SCalls /\ x.op \in {"create", "ack", "prepare"}
    BY <1>i DEF Typed, SPrepareFails
  <2>2. x = Op(x.op, x.g) /\ x.g \in Gtrids
    BY <2>1, CallsS
  <2> QED BY <2>1, <2>2
<1>a. /\ SOp(o1, g) /\ sOps' = sOps \ {Op(o1, g)} /\ faults < MaxFaults /\ faults' = faults + 1
      /\ senderXA \ {g} \subseteq senderXA' /\ senderXA' \subseteq senderXA
      /\ ToReceiver(<<[t |-> "PrepareReply", g |-> g, ok |-> FALSE]>>)
  BY <1>g DEF SPrepareFails, SOp
<1>z. linkUp \/ s2r' = s2r
  BY <1>a DEF ToReceiver
<1>o. \A o, k : SOp(o, k)' <=> SOp(o, k) /\ ~(o = o1 /\ k = g)
  BY <1>a, OpEq DEF SOp
<1>f. faults' \in 0..MaxFaults
  BY <1>i, <1>a, FaultsBounded DEF Typed
<1>c. ~Recovery /\ Acking(g)
  BY <1>i, <1>a DEF Recovers, Quiet, Acking, Claimed
<1>d. /\ sBranch[g] # "prepared" /\ sConn \notin {"closed", "connecting"}
      /\ ~(SOp("create", g) /\ SOp("ack", g)) /\ ~(SOp("create", g) /\ SOp("prepare", g))
      /\ ~(SOp("ack", g) /\ SOp("prepare", g))
      /\ ~Answered(g) /\ ~Collecting(g)
  BY <1>i, <1>a, <1>c DEF BranchS, LinkPlaced, SOp, Placed, Acking, Claimed
<1>r. /\ \A u, k : RLetter(u, k)' <=> RLetter(u, k) \/ (linkUp /\ u = "PrepareReply" /\ k = g)
      /\ \A k : Confirmed(k)' <=> Confirmed(k)
      /\ OnceR' /\ s2r' \in Seq(ToR)
  <2>1. PICK y : y = [t |-> "PrepareReply", g |-> g, ok |-> FALSE]
    OBVIOUS
  <2>2. y \in ToR /\ y.t = "PrepareReply" /\ y.g = g /\ ~y.ok
    BY <2>1, WireToR
  <2>3. s2r \in Seq(ToR) /\ ToReceiver(<<y>>) /\ ~RLetter(y.t, y.g) /\ OnceR
    BY <1>a, <1>i, <1>d, <2>1, <2>2 DEF Typed, Answered
  <2> QED BY <2>2, <2>3, RSend
<1>e. /\ linkUp => sMsgs[g] = rMsgs[g] /\ rBranch[g] = "inflight"
      /\ linkUp => rConn = "open" /\ sConn = "open"
  BY <1>i, <1>c DEF Same, LinkPlaced
<1>1. Typed'
  BY <1>i, <1>u, <1>s, <1>g, <1>a, <1>z, <1>f, <1>d, <1>r, <1>e, CallsS DEF Typed, TypeOK
<1>2. LinkPlaced'
  BY <1>i, <1>u, <1>s, <1>p, <1>g, <1>a, <1>z, <1>d, <1>r, <1>e DEF LinkPlaced, Preparing
<1>3. Numbered'
  BY <1>i, <1>u, <1>s, <1>p, <1>g, <1>a, <1>z, <1>o, <1>c, <1>d, <1>r, <1>e DEF Numbered, Asked,
     Acking, Answered, Preparing, Telling, Told, Collecting, Flowing, Gathered, TellCommit,
     TellRoll, Claimed
<1>4. Placed'
  BY <1>i, <1>u, <1>s, <1>p, <1>g, <1>a, <1>o, <1>c, <1>d, <1>r, <1>e DEF Placed, Asked, Acking,
     Answered, Preparing, TellCommit, Telling, Told, Collecting, Gathered, TellRoll, Claimed
<1>5. OneToken'
  BY <1>i, <1>u, <1>s, <1>g, <1>a, <1>z, <1>o, <1>c, <1>d, <1>r DEF OneToken, Recovery, TellRec,
     Asking
<1>6. Recovers'
  BY <1>i, <1>u, <1>s, <1>p, <1>g, <1>a, <1>o, <1>c, <1>d, <1>r, <1>e DEF Recovers, TellRec,
     Recovery, Quiet, Asked, Acking, Answered, Preparing, Claimed, Asking
<1>7. BranchS'
  BY <1>i, <1>u, <1>s, <1>p, <1>g, <1>a, <1>z, <1>o, <1>c, <1>d, <1>r, <1>e DEF BranchS, Placed,
     Asked, Acking, Telling, Told, Collecting, Recovery, TellRec, Asking, Gathered, TellCommit,
     TellRoll, Claimed, Answered, Preparing
<1>8. Claims'
  BY <1>i, <1>u, <1>s, <1>g, <1>a, <1>o, <1>d, <1>e DEF Claims, Claimed, Hold
<1>9. BranchR'
  BY <1>i, <1>u, <1>s, <1>p, <1>g, <1>a, <1>o, <1>c, <1>d, <1>r, <1>e DEF BranchR, Asked,
     Acking, Answered, Preparing, Gathered, Dec, Claimed
<1>10. Apart'
  BY <1>i, <1>u, <1>g, <1>r, <1>e DEF Apart, Gathered, Active
<1>11. Same'
  BY <1>i, <1>u, <1>s, <1>p, <1>g, <1>a, <1>z, <1>o, <1>c, <1>d, <1>r, <1>e DEF Same, Placed,
     Asked, Acking, Gathered, Claimed, Answered, Preparing, TellCommit, Telling, Told,
     Collecting, TellRoll
<1>12. Agreed'
  BY <1>i, <1>u, <1>s, <1>p, <1>g, <1>a, <1>o, <1>c, <1>d, <1>r, <1>e DEF Agreed, Placed,
     Preparing, TellCommit, TellRoll, Dec, Bound, Asked, Acking, Answered, Telling, Told,
     Collecting, Gathered, Claimed
<1>13. NoDuplicate'
  BY <1>i, <1>u, <1>g DEF NoDuplicate
<1>14. NothingLost'
  BY <1>i, <1>u, <1>g, <1>e DEF NothingLost
<1>15. DecidedIsHeld'
  BY <1>i, <1>u, <1>g, <1>d, <1>e DEF DecidedIsHeld
<1>16. Starting'
  BY <1>i, <1>u, <1>s, <1>p, <1>g, <1>a, <1>z, <1>o, <1>c, <1>d, <1>r, <1>e DEF Starting, Asked,
     Acking, Claimed
<1>17. Deciding'
  BY <1>i, <1>u, <1>s, <1>p, <1>g, <1>a, <1>z, <1>o, <1>d, <1>r, <1>e DEF Deciding, Answered,
     Preparing
<1>18. Resuming'
  BY <1>i, <1>u, <1>g, <1>a, <1>o, <1>d, <1>e DEF Resuming
<1> QED
  BY <1>1, <1>2, <1>3, <1>4, <1>5, <1>6, <1>7, <1>8, <1>9, <1>10, <1>11, <1>12, <1>13, <1>14,
     <1>15, <1>16, <1>17, <1>18, <1>r, <1>s DEF ForwardInv

(* ism_fwd_replyMessage: the next message goes to the receiver.            *)
LEMMA ReplyMessageKeeps ==
  ASSUME ForwardInv, ReplyMessage
  PROVE  ForwardInv'
<1>i. /\ Typed /\ OnceR /\ OnceS /\ LinkPlaced /\ Numbered /\ Placed /\ OneToken
      /\ Recovers /\ BranchS /\ Claims /\ BranchR /\ Apart /\ Same /\ Agreed
      /\ NoDuplicate /\ NothingLost /\ DecidedIsHeld /\ Starting /\ Deciding /\ Resuming
  BY DEF ForwardInv
<1>u. /\ r2s' = r2s /\ linkUp' = linkUp /\ sBranch' = sBranch /\ sMsgs' = sMsgs
      /\ senderXA' = senderXA
      /\ recoveryList' = recoveryList /\ sConn' = sConn /\ started' = started /\ sOps' = sOps
      /\ preparedXA' = preparedXA
      /\ rUp' = rUp /\ rConn' = rConn /\ rBranch' = rBranch /\ rMsgs' = rMsgs
      /\ receiverXA' = receiverXA
      /\ commits' = commits /\ currentXA' = currentXA /\ xaList' = xaList /\ puts' = puts
      /\ rOps' = rOps
      /\ seqn' = seqn /\ received' = received /\ faults' = faults
  BY DEF ReplyMessage, link, receiverVars
<1>s. /\ \A u, k : SLetter(u, k)' <=> SLetter(u, k)
      /\ \A k, n : Named(k, n)' <=> Named(k, n)
      /\ ConnRep' <=> ConnRep
      /\ OnceS' /\ r2s' \in Seq(ToS)
  BY <1>i, <1>u, SSame DEF Typed
<1>o. \A o, k : SOp(o, k)' <=> SOp(o, k)
  BY <1>u, SOpSame
<1>p. \A o, k : ROp(o, k)' <=> ROp(o, k)
  BY <1>u, ROpSame
<1>g. PICK m \in Msgs : /\ where[m] = "queued" /\ where' = [where EXCEPT ![m] = "sent"]
                        /\ ToReceiver(<<Wire("RMessage", m)>>)
  BY DEF ReplyMessage
<1>a. sConn = "open" /\ started /\ suspended' \in BOOLEAN
  BY DEF ReplyMessage
<1>z. linkUp \/ s2r' = s2r
  BY <1>g DEF ToReceiver
<1>c. ~Recovery
  BY <1>i, <1>a DEF Recovers, Quiet
<1>d. \A n \in Msgs : where'[n] = IF n = m THEN "sent" ELSE where[n]
  BY <1>i, <1>g DEF Typed, TypeOK
<1>e. /\ linkUp => ~RLetter("RMessage", m) /\ rConn = "open"
      /\ \A g \in Gtrids : linkUp /\ Active(g) => m \notin rMsgs[g]
      /\ received[m] = 0
  <2>1. linkUp => rConn = "open" /\ ~RLetter("RMessage", m)
    BY <1>i, <1>g DEF LinkPlaced, Same
  <2>2. \A g \in Gtrids : linkUp /\ rBranch[g] = "inflight" => m \notin rMsgs[g]
    BY <1>i, <1>g DEF Same
  <2>3. \A g \in Gtrids : ~(sBranch[g] = "prepared" /\ m \in sMsgs[g])
    BY <1>i, <1>g DEF Claims, Hold
  <2>4. \A g \in Gtrids : rBranch[g] \in Bound => m \notin rMsgs[g]
    BY <1>i, <1>g, <2>3 DEF DecidedIsHeld, Bound
  <2>5. received[m] \in Nat
    BY <1>i DEF Typed
  <2>6. ~(received[m] > 0)
    BY <1>i, <1>g, <2>3 DEF DecidedIsHeld
  <2> QED BY <2>1, <2>2, <2>4, <2>5, <2>6 DEF Active, Bound
<1>r. /\ \A u, k : RLetter(u, k)' <=> RLetter(u, k) \/ (linkUp /\ u = "RMessage" /\ k = m)
      /\ \A k : Confirmed(k)' <=> Confirmed(k)
      /\ OnceR' /\ s2r' \in Seq(ToR)
  <2>1. PICK x : x = Wire("RMessage", m)
    OBVIOUS
  <2>2. x \in ToR /\ x.t = "RMessage" /\ x.g = m
    BY <2>1, WireToR, WireFields
  <2> QED BY <1>g, <1>i, <1>e, <2>1, <2>2, RSend DEF Typed
<1>1. Typed'
  BY <1>i, <1>u, <1>s, <1>g, <1>a, <1>z, <1>d, <1>e, <1>r DEF Typed, TypeOK
<1>2. LinkPlaced'
  BY <1>i, <1>u, <1>s, <1>p, <1>a, <1>z, <1>e, <1>r DEF LinkPlaced, Preparing
<1>3. Numbered'
  BY <1>i, <1>u, <1>s, <1>o, <1>p, <1>a, <1>z, <1>e, <1>r DEF Numbered, Asked, Acking, Answered,
     Preparing, Telling, Told, Collecting, Flowing, Gathered, TellCommit, TellRoll, Claimed
<1>4. Placed'
  BY <1>i, <1>u, <1>s, <1>o, <1>p, <1>e, <1>r DEF Placed, Asked, Acking, Answered, Preparing,
     TellCommit, Telling, Told, Collecting, Gathered, TellRoll, Claimed
<1>5. OneToken'
  BY <1>i, <1>u, <1>s, <1>o, <1>z, <1>c, <1>e, <1>r DEF OneToken, Recovery, TellRec, Asking
<1>6. Recovers'
  BY <1>i, <1>u, <1>s, <1>o, <1>p, <1>a, <1>c, <1>e, <1>r DEF Recovers, TellRec, Recovery,
     Quiet, Asked, Acking, Answered, Preparing, Claimed, Asking
<1>7. BranchS'
  BY <1>i, <1>u, <1>s, <1>o, <1>p, <1>z, <1>c, <1>e, <1>r DEF BranchS, Asked, Acking, Telling,
     Told, Collecting, Recovery, TellRec, Asking, Gathered, TellCommit, TellRoll, Claimed
<1>8. Claims'
  BY <1>i, <1>u, <1>s, <1>o, <1>g, <1>d DEF Claims, Claimed, Hold
<1>9. BranchR'
  BY <1>i, <1>u, <1>s, <1>o, <1>p, <1>e, <1>r DEF BranchR, Asked, Acking, Answered, Preparing,
     Gathered, Dec, Claimed
<1>10. Apart'
  BY <1>i, <1>u, <1>e, <1>r DEF Apart, Gathered, Active
<1>11. Same'
  BY <1>i, <1>u, <1>s, <1>o, <1>g, <1>z, <1>d, <1>e, <1>r DEF Same, Asked, Acking, Gathered,
     Claimed
<1>12. Agreed'
  BY <1>i, <1>u, <1>s, <1>o, <1>p, <1>e, <1>r DEF Agreed, Preparing, TellCommit, TellRoll, Dec,
     Bound
<1>13. NoDuplicate'
  BY <1>i, <1>u, <1>e DEF NoDuplicate
<1>14. NothingLost'
  BY <1>i, <1>u, <1>g, <1>d, <1>e DEF NothingLost
<1>15. DecidedIsHeld'
  BY <1>i, <1>u, <1>g, <1>d, <1>e DEF DecidedIsHeld
<1>16. Starting'
  BY <1>i, <1>u, <1>s, <1>o, <1>p, <1>a, <1>z, <1>e, <1>r DEF Starting, Asked, Acking, Claimed
<1>17. Deciding'
  BY <1>i, <1>u, <1>s, <1>o, <1>p, <1>a, <1>z, <1>e, <1>r DEF Deciding, Answered, Preparing
<1>18. Resuming'
  <2>1. suspended' => preparedXA > MaxXA
    BY DEF ReplyMessage
  <2>2. preparedXA \in Nat /\ MaxXA \in Nat /\ MinXA \in Nat /\ MinXA < MaxXA
    BY <1>i, ForwarderAssumption DEF Typed, TypeOK
  <2>3. suspended' => preparedXA > MinXA
    BY <2>1, <2>2
  <2> QED BY <1>i, <1>u, <1>a, <2>3 DEF Resuming
<1> QED
  BY <1>1, <1>2, <1>3, <1>4, <1>5, <1>6, <1>7, <1>8, <1>9, <1>10, <1>11, <1>12, <1>13, <1>14,
     <1>15, <1>16, <1>17, <1>18, <1>r, <1>s DEF ForwardInv

(* A decision of the receiver reaches the sender's engine.                 *)
LEMMA DoDecisionKeeps ==
  ASSUME ForwardInv, DoDecision
  PROVE  ForwardInv'
<1>i. /\ Typed /\ OnceR /\ OnceS /\ LinkPlaced /\ Numbered /\ Placed /\ OneToken
      /\ Recovers /\ BranchS /\ Claims /\ BranchR /\ Apart /\ Same /\ Agreed
      /\ NoDuplicate /\ NothingLost /\ DecidedIsHeld /\ Starting /\ Deciding /\ Resuming
  BY DEF ForwardInv
<1>u. /\ s2r' = s2r /\ linkUp' = linkUp /\ where' = where /\ sBranch' = sBranch /\ sMsgs' = sMsgs
      /\ senderXA' = senderXA /\ recoveryList' = recoveryList /\ sConn' = sConn
      /\ started' = started /\ preparedXA' = preparedXA
      /\ suspended' = suspended /\ rUp' = rUp /\ rConn' = rConn /\ rBranch' = rBranch
      /\ rMsgs' = rMsgs
      /\ receiverXA' = receiverXA /\ commits' = commits /\ currentXA' = currentXA
      /\ xaList' = xaList /\ puts' = puts
      /\ rOps' = rOps /\ seqn' = seqn /\ received' = received /\ faults' = faults
  BY DEF DoDecision, receiverVars
<1>r. /\ \A u, k : RLetter(u, k)' <=> RLetter(u, k)
      /\ \A k : Confirmed(k)' <=> Confirmed(k)
      /\ OnceR' /\ s2r' \in Seq(ToR)
  BY <1>i, <1>u, RSame DEF Typed
<1>p. \A o, k : ROp(o, k)' <=> ROp(o, k)
  BY <1>u, ROpSame
<1>x. PICK x : x = Head(r2s)
  OBVIOUS
<1>a. /\ sConn = "open" /\ r2s # <<>> /\ x.t \in {"Commit", "CommitRecover", "RollRecover"}
      /\ r2s' = Tail(r2s) /\ x = Head(r2s)
      /\ sOps' = sOps \cup {Op(x.t, x.g)}
  BY <1>x DEF DoDecision
<1>s. /\ x \in ToS /\ SLetter(x.t, x.g)
      /\ \A u, k : SLetter(u, k)' => SLetter(u, k)
      /\ \A u, k : SLetter(u, k) /\ ~(u = x.t /\ k = x.g) => SLetter(u, k)'
      /\ \A k, n : Named(k, n)' => Named(k, n)
      /\ \A k, n : Named(k, n) /\ ~(x.t = "Prepare" /\ k = x.g) => Named(k, n)'
      /\ x.t = "Prepare" => /\ ~SLetter("Prepare", x.g)' /\ \A n : ~Named(x.g, n)'
                            /\ \A n : Named(x.g, n) <=> n \in x.msgs
      /\ x.t \in RecTypes => /\ ~ConnRep'
                             /\ \A k : ~SLetter("CommitRecover", k)' /\ ~SLetter("RollRecover", k)'
      /\ x.t = "ConnectReply" => ConnRep
      /\ ConnRep' => ConnRep
      /\ x.t # "ConnectReply" => (ConnRep' <=> ConnRep)
      /\ OnceS' /\ r2s' \in Seq(ToS)
  BY <1>i, <1>a, STail DEF Typed
<1>g. PICK g \in Gtrids, o1 \in {"Commit", "CommitRecover", "RollRecover"} : g = x.g /\ o1 = x.t
  BY <1>a, <1>s, ToSFields
<1>b. /\ \A u, k : SLetter(u, k)' => SLetter(u, k)
      /\ \A u, k : SLetter(u, k) /\ ~(u = o1 /\ k = g) => SLetter(u, k)'
      /\ o1 \in {"CommitRecover", "RollRecover"} =>
           \A k : ~SLetter("CommitRecover", k)' /\ ~SLetter("RollRecover", k)'
      /\ SLetter(o1, g) /\ (ConnRep' <=> ConnRep)
      /\ \A k, n : Named(k, n)' <=> Named(k, n)
      /\ sOps' = sOps \cup {Op(o1, g)} /\ sConn = "open"
      /\ OnceS' /\ r2s' \in Seq(ToS)
  BY <1>a, <1>s, <1>g DEF RecTypes
<1>c. ~ConnRep /\ (o1 = "Commit" => ~Recovery)
  BY <1>i, <1>g, <1>a, <1>s, <1>b DEF RecTypes, Recovers, Quiet, Recovery
<1>o. \A o, k : SOp(o, k)' <=> SOp(o, k) \/ (o = o1 /\ k = g)
  BY <1>b, OpEq DEF SOp
<1>1. Typed'
  BY <1>i, <1>u, <1>r, <1>x, <1>a, <1>s, <1>g, <1>b, CallsS DEF Typed, TypeOK
<1>2. LinkPlaced'
  BY <1>i, <1>u, <1>r, <1>p, <1>x, <1>a, <1>s, <1>g, <1>b DEF LinkPlaced, Preparing
<1>3. Numbered'
  BY <1>i, <1>u, <1>r, <1>p, <1>s, <1>g, <1>b, <1>o DEF Numbered, Asked, Acking, Answered,
     Preparing, Telling, Told, Collecting, Flowing, Gathered, TellCommit, TellRoll, Claimed
<1>4. Placed'
  BY <1>i, <1>u, <1>r, <1>p, <1>s, <1>g, <1>b, <1>o DEF Placed, Asked, Acking, Answered,
     Preparing, TellCommit, Telling, Told, Collecting, Gathered, TellRoll, Claimed
<1>5. OneToken'
  BY <1>i, <1>u, <1>r, <1>a, <1>s, <1>g, <1>b, <1>c, <1>o DEF OneToken, TellRec, Asking
<1>6. Recovers'
  BY <1>i, <1>u, <1>r, <1>p, <1>a, <1>s, <1>g, <1>b, <1>c, <1>o DEF Recovers, TellRec, Recovery,
     Quiet, Asked, Acking, Answered, Preparing, Claimed, Asking
<1>7. BranchS'
  BY <1>i, <1>u, <1>r, <1>p, <1>s, <1>g, <1>b, <1>c, <1>o DEF BranchS, Asked, Acking, Telling,
     Told, Collecting, Recovery, TellRec, Asking, Gathered, TellCommit, TellRoll, Claimed
<1>8. Claims'
  BY <1>i, <1>u, <1>s, <1>g, <1>b, <1>o DEF Claims, Claimed, Hold
<1>9. BranchR'
  BY <1>i, <1>u, <1>r, <1>p, <1>s, <1>g, <1>b, <1>o DEF BranchR, Asked, Acking, Answered,
     Preparing, Gathered, Dec, Claimed
<1>10. Apart'
  BY <1>i, <1>u, <1>r, <1>g DEF Apart, Gathered, Active
<1>11. Same'
  BY <1>i, <1>u, <1>r, <1>s, <1>g, <1>b, <1>o DEF Same, Asked, Acking, Gathered, Claimed
<1>12. Agreed'
  BY <1>i, <1>u, <1>r, <1>p, <1>s, <1>g, <1>b, <1>o DEF Agreed, Preparing, TellCommit, TellRoll,
     Dec, Bound
<1>13. NoDuplicate'
  BY <1>i, <1>u, <1>g DEF NoDuplicate
<1>14. NothingLost'
  BY <1>i, <1>u, <1>g DEF NothingLost
<1>15. DecidedIsHeld'
  BY <1>i, <1>u, <1>g DEF DecidedIsHeld
<1>16. Starting'
  BY <1>i, <1>u, <1>r, <1>p, <1>s, <1>g, <1>b, <1>o DEF Starting, Asked, Acking, Claimed
<1>17. Deciding'
  BY <1>i, <1>u, <1>r, <1>p, <1>s, <1>g, <1>b, <1>o DEF Deciding, Answered, Preparing
<1>18. Resuming'
  BY <1>i, <1>u, <1>a, <1>g, <1>b, <1>o DEF Resuming
<1> QED
  BY <1>1, <1>2, <1>3, <1>4, <1>5, <1>6, <1>7, <1>8, <1>9, <1>10, <1>11, <1>12, <1>13, <1>14,
     <1>15, <1>16, <1>17, <1>18, <1>r, <1>s DEF ForwardInv

(* A ConnectReply with nothing to recover: delivery starts.                *)
LEMMA ConnectReplyStarts ==
  ASSUME ForwardInv, sConn = "open", r2s # <<>>, Head(r2s).t = "ConnectReply", r2s' = Tail(r2s),
         senderXA = {}, started' = TRUE,
         UNCHANGED <<s2r, linkUp, where, sBranch, sMsgs, senderXA, recoveryList, sConn, sOps,
                     preparedXA, suspended, receiverVars, faults>>
  PROVE  ForwardInv'
<1>i. /\ Typed /\ OnceR /\ OnceS /\ LinkPlaced /\ Numbered /\ Placed /\ OneToken
      /\ Recovers /\ BranchS /\ Claims /\ BranchR /\ Apart /\ Same /\ Agreed
      /\ NoDuplicate /\ NothingLost /\ DecidedIsHeld /\ Starting /\ Deciding /\ Resuming
  BY DEF ForwardInv
<1>u. /\ s2r' = s2r /\ linkUp' = linkUp /\ where' = where /\ sBranch' = sBranch /\ sMsgs' = sMsgs
      /\ senderXA' = senderXA /\ recoveryList' = recoveryList /\ sConn' = sConn /\ sOps' = sOps
      /\ preparedXA' = preparedXA
      /\ suspended' = suspended /\ rUp' = rUp /\ rConn' = rConn /\ rBranch' = rBranch
      /\ rMsgs' = rMsgs
      /\ receiverXA' = receiverXA /\ commits' = commits /\ currentXA' = currentXA
      /\ xaList' = xaList /\ puts' = puts
      /\ rOps' = rOps /\ seqn' = seqn /\ received' = received /\ faults' = faults
  BY DEF receiverVars
<1>r. /\ \A u, k : RLetter(u, k)' <=> RLetter(u, k)
      /\ \A k : Confirmed(k)' <=> Confirmed(k)
      /\ OnceR' /\ s2r' \in Seq(ToR)
  BY <1>i, <1>u, RSame DEF Typed
<1>o. \A o, k : SOp(o, k)' <=> SOp(o, k)
  BY <1>u, SOpSame
<1>p. \A o, k : ROp(o, k)' <=> ROp(o, k)
  BY <1>u, ROpSame
<1>x. PICK x : x = Head(r2s)
  OBVIOUS
<1>a. /\ sConn = "open" /\ r2s # <<>> /\ x.t = "ConnectReply" /\ r2s' = Tail(r2s) /\ x = Head(r2s)
  BY <1>x
<1>s. /\ x \in ToS /\ SLetter(x.t, x.g)
      /\ \A u, k : SLetter(u, k)' => SLetter(u, k)
      /\ \A u, k : SLetter(u, k) /\ ~(u = x.t /\ k = x.g) => SLetter(u, k)'
      /\ \A k, n : Named(k, n)' => Named(k, n)
      /\ \A k, n : Named(k, n) /\ ~(x.t = "Prepare" /\ k = x.g) => Named(k, n)'
      /\ x.t = "Prepare" => /\ ~SLetter("Prepare", x.g)' /\ \A n : ~Named(x.g, n)'
                            /\ \A n : Named(x.g, n) <=> n \in x.msgs
      /\ x.t \in RecTypes => /\ ~ConnRep'
                             /\ \A k : ~SLetter("CommitRecover", k)' /\ ~SLetter("RollRecover", k)'
      /\ x.t = "ConnectReply" => ConnRep
      /\ ConnRep' => ConnRep
      /\ x.t # "ConnectReply" => (ConnRep' <=> ConnRep)
      /\ OnceS' /\ r2s' \in Seq(ToS)
  BY <1>i, <1>a, STail DEF Typed
<1>b. /\ ~ConnRep' /\ ConnRep /\ \A k : ~SLetter("CommitRecover", k)' /\ ~SLetter("RollRecover", k)'
      /\ \A u, k : SLetter(u, k)' => SLetter(u, k)
      /\ \A k, n : Named(k, n)' <=> Named(k, n)
  BY <1>a, <1>s DEF RecTypes
<1>q. /\ Quiet /\ sOps = {} /\ s2r = <<>>
      /\ \A u, k : ~RLetter(u, k)
      /\ \A o, k : ~SOp(o, k)
  <2>1. Quiet /\ sOps = {} /\ s2r = <<>>
    BY <1>i, <1>a, <1>s DEF Recovers, Recovery, OneToken
  <2> QED BY <2>1, REmpty DEF SOp
<1>d. (\A g \in Gtrids : sBranch[g] = "none") /\ started' = TRUE
  BY <1>i, <1>q DEF Typed, TypeOK, BranchS, Quiet
<1>1. Typed'
  BY <1>i, <1>u, <1>r, <1>x, <1>a, <1>s, <1>q, <1>d DEF Typed, TypeOK
<1>2. LinkPlaced'
  BY <1>i, <1>u, <1>r, <1>p, <1>x, <1>a, <1>s, <1>q, <1>d DEF LinkPlaced, Preparing
<1>3. Numbered'
  BY <1>i, <1>u, <1>r, <1>o, <1>p, <1>s, <1>b, <1>q, <1>d DEF Numbered, Quiet, Asked, Acking,
     Answered, Preparing, Telling, Told, Collecting, Flowing, Gathered, TellCommit, TellRoll,
     Claimed
<1>4. Placed'
  BY <1>i, <1>u, <1>r, <1>o, <1>p, <1>s, <1>b, <1>q DEF Placed, Asked, Acking, Answered,
     Preparing, TellCommit, Telling, Told, Collecting, Gathered, TellRoll, Claimed
<1>5. OneToken'
  BY <1>i, <1>u, <1>r, <1>o, <1>s, <1>b, <1>q DEF OneToken, TellRec, Asking
<1>6. Recovers'
  BY <1>i, <1>u, <1>r, <1>o, <1>p, <1>a, <1>s, <1>b, <1>q, <1>d DEF Recovers, TellRec, Recovery,
     Quiet, Asked, Acking, Answered, Preparing, Claimed, Asking
<1>7. BranchS'
  BY <1>i, <1>u, <1>r, <1>o, <1>p, <1>s, <1>b, <1>q, <1>d DEF BranchS, Asked, Acking, Telling,
     Told, Collecting, Recovery, TellRec, Asking, Gathered, TellCommit, TellRoll, Claimed
<1>8. Claims'
  BY <1>i, <1>u, <1>o, <1>s, <1>b, <1>q, <1>d DEF Claims, Claimed, Hold
<1>9. BranchR'
  BY <1>i, <1>u, <1>r, <1>o, <1>p, <1>s, <1>b, <1>q DEF BranchR, Asked, Acking, Answered,
     Preparing, Gathered, Dec, Claimed
<1>10. Apart'
  BY <1>i, <1>u, <1>r, <1>q DEF Apart, Gathered, Active
<1>11. Same'
  BY <1>i, <1>u, <1>r, <1>o, <1>s, <1>b, <1>q DEF Same, Asked, Acking, Gathered, Claimed
<1>12. Agreed'
  BY <1>i, <1>u, <1>r, <1>o, <1>p, <1>s, <1>b, <1>q, <1>d DEF Agreed, Preparing, TellCommit,
     TellRoll, Dec, Bound
<1>13. NoDuplicate'
  BY <1>i, <1>u DEF NoDuplicate
<1>14. NothingLost'
  BY <1>i, <1>u DEF NothingLost
<1>15. DecidedIsHeld'
  BY <1>i, <1>u, <1>d DEF DecidedIsHeld
<1>16. Starting'
  BY <1>i, <1>s, <1>b DEF Starting, Recovers, Recovery, Quiet
<1>17. Deciding'
  BY <1>i, <1>u, <1>r, <1>o, <1>p, <1>s, <1>b, <1>q, <1>d DEF Deciding, Answered, Preparing
<1>18. Resuming'
  BY <1>i, <1>u, <1>o, <1>a, <1>q DEF Resuming
<1> QED
  BY <1>1, <1>2, <1>3, <1>4, <1>5, <1>6, <1>7, <1>8, <1>9, <1>10, <1>11, <1>12, <1>13, <1>14,
     <1>15, <1>16, <1>17, <1>18, <1>r, <1>s DEF ForwardInv

(* A ConnectReply that begins the recovery of what was left prepared.      *)
LEMMA ConnectReplyRecovers ==
  ASSUME ForwardInv, sConn = "open", r2s # <<>>, Head(r2s).t = "ConnectReply", r2s' = Tail(r2s),
         recoveryList' = RestOf(senderXA), preparedXA' = preparedXA + Recovering(senderXA),
         ToReceiver(RecoverMsg(senderXA)),
         UNCHANGED <<linkUp, where, sBranch, sMsgs, senderXA, sConn, started, sOps,
                     suspended, receiverVars, faults>>
  PROVE  ForwardInv'
<1>i. /\ Typed /\ OnceR /\ OnceS /\ LinkPlaced /\ Numbered /\ Placed /\ OneToken
      /\ Recovers /\ BranchS /\ Claims /\ BranchR /\ Apart /\ Same /\ Agreed
      /\ NoDuplicate /\ NothingLost /\ DecidedIsHeld /\ Starting /\ Deciding /\ Resuming
  BY DEF ForwardInv
<1>u. /\ linkUp' = linkUp /\ where' = where /\ sBranch' = sBranch /\ sMsgs' = sMsgs
      /\ senderXA' = senderXA
      /\ sConn' = sConn /\ started' = started /\ sOps' = sOps /\ suspended' = suspended
      /\ rUp' = rUp
      /\ rConn' = rConn /\ rBranch' = rBranch /\ rMsgs' = rMsgs /\ receiverXA' = receiverXA
      /\ commits' = commits
      /\ currentXA' = currentXA /\ xaList' = xaList /\ puts' = puts /\ rOps' = rOps /\ seqn' = seqn
      /\ received' = received /\ faults' = faults
  BY DEF receiverVars
<1>o. \A o, k : SOp(o, k)' <=> SOp(o, k)
  BY <1>u, SOpSame
<1>p. \A o, k : ROp(o, k)' <=> ROp(o, k)
  BY <1>u, ROpSame
<1>x. PICK x : x = Head(r2s)
  OBVIOUS
<1>a. /\ sConn = "open" /\ r2s # <<>> /\ x.t = "ConnectReply" /\ r2s' = Tail(r2s) /\ x = Head(r2s)
  BY <1>x
<1>s. /\ x \in ToS /\ SLetter(x.t, x.g)
      /\ \A u, k : SLetter(u, k)' => SLetter(u, k)
      /\ \A u, k : SLetter(u, k) /\ ~(u = x.t /\ k = x.g) => SLetter(u, k)'
      /\ \A k, n : Named(k, n)' => Named(k, n)
      /\ \A k, n : Named(k, n) /\ ~(x.t = "Prepare" /\ k = x.g) => Named(k, n)'
      /\ x.t = "Prepare" => /\ ~SLetter("Prepare", x.g)' /\ \A n : ~Named(x.g, n)'
                            /\ \A n : Named(x.g, n) <=> n \in x.msgs
      /\ x.t \in RecTypes => /\ ~ConnRep'
                             /\ \A k : ~SLetter("CommitRecover", k)' /\ ~SLetter("RollRecover", k)'
      /\ x.t = "ConnectReply" => ConnRep
      /\ ConnRep' => ConnRep
      /\ x.t # "ConnectReply" => (ConnRep' <=> ConnRep)
      /\ OnceS' /\ r2s' \in Seq(ToS)
  BY <1>i, <1>a, STail DEF Typed
<1>b. /\ ~ConnRep' /\ ConnRep /\ \A k : ~SLetter("CommitRecover", k)' /\ ~SLetter("RollRecover", k)'
      /\ \A u, k : SLetter(u, k)' => SLetter(u, k)
      /\ \A k, n : Named(k, n)' <=> Named(k, n)
  BY <1>a, <1>s DEF RecTypes
<1>q. /\ Quiet /\ sOps = {} /\ s2r = <<>>
      /\ \A u, k : ~RLetter(u, k)
      /\ \A o, k : ~SOp(o, k)
  <2>1. Quiet /\ sOps = {} /\ s2r = <<>>
    BY <1>i, <1>a, <1>s DEF Recovers, Recovery, OneToken
  <2> QED BY <2>1, REmpty DEF SOp
<1>n. PICK n : n = NextOf(senderXA)
  OBVIOUS
<1>m. /\ n \in Gtrids \cup {NoXA} /\ (n = NoXA => senderXA = {})
      /\ recoveryList' \subseteq Gtrids /\ \A k \in senderXA : k \in recoveryList' \/ k = n
      /\ preparedXA' \in Nat
  <2>1. senderXA \subseteq Gtrids /\ preparedXA \in Nat
    BY <1>i DEF Typed, TypeOK
  <2>2. /\ NextOf(senderXA) \in Gtrids \cup {NoXA} /\ (NextOf(senderXA) = NoXA <=> senderXA = {})
        /\ RestOf(senderXA) \subseteq senderXA
        /\ \A k \in senderXA : k \in RestOf(senderXA) \/ k = NextOf(senderXA)
        /\ Recovering(senderXA) \in {0, 1}
    BY <2>1, NextOne
  <2> QED BY <1>n, <2>1, <2>2
<1>z. linkUp \/ s2r' = s2r
  BY DEF ToReceiver
<1>r. /\ \A u, k : RLetter(u, k)' <=> RLetter(u, k) \/ (linkUp /\ u = "Recover" /\ k = n)
      /\ \A k : Confirmed(k)' <=> Confirmed(k)
      /\ OnceR' /\ s2r' \in Seq(ToR)
  <2>1. PICK y : y = Wire("Recover", n)
    OBVIOUS
  <2>2. y \in ToR /\ y.t = "Recover" /\ y.g = n
    BY <1>m, <2>1, WireToR, WireFields
  <2>3. ~Asking
    BY <1>q DEF Asking
  <2> QED BY <1>n, <1>i, <2>1, <2>2, <2>3, RSend DEF Typed, RecoverMsg
<1>d. /\ \A g \in Gtrids : sBranch[g] # "none" => g \in senderXA
      /\ linkUp => rConn = "open"
  BY <1>i, <1>q DEF Typed, TypeOK, BranchS, Quiet, LinkPlaced
<1>e. /\ n = NoXA => \A g \in Gtrids : sBranch[g] = "none"
      /\ n = NoXA \/ n \in Gtrids
  BY <1>d, <1>m
<1>1. Typed'
  BY <1>i, <1>u, <1>x, <1>a, <1>s, <1>q, <1>n, <1>m, <1>z, <1>r, <1>d, <1>e DEF Typed, TypeOK
<1>2. LinkPlaced'
  BY <1>i, <1>u, <1>p, <1>x, <1>a, <1>s, <1>q, <1>m, <1>z, <1>r, <1>d, <1>e DEF LinkPlaced,
     Preparing
<1>3. Numbered'
  BY <1>i, <1>u, <1>o, <1>p, <1>s, <1>b, <1>q, <1>z, <1>r, <1>d, <1>e DEF Numbered, Quiet,
     Asked, Acking, Answered, Preparing, Telling, Told, Collecting, Flowing, Gathered,
     TellCommit, TellRoll, Claimed
<1>4. Placed'
  BY <1>i, <1>u, <1>o, <1>p, <1>s, <1>b, <1>q, <1>r, <1>d, <1>e DEF Placed, Quiet, Asked,
     Acking, Answered, Preparing, TellCommit, Telling, Told, Collecting, Gathered, TellRoll,
     Claimed
<1>5. OneToken'
  BY <1>i, <1>u, <1>o, <1>s, <1>b, <1>q, <1>z, <1>r DEF OneToken, TellRec, Asking
<1>6. Recovers'
  BY <1>i, <1>u, <1>o, <1>p, <1>a, <1>s, <1>b, <1>q, <1>m, <1>r, <1>d, <1>e DEF Recovers, Quiet,
     TellRec, Recovery, Asked, Acking, Answered, Preparing, Claimed, Asking
<1>7. BranchS'
  BY <1>i, <1>u, <1>o, <1>p, <1>x, <1>a, <1>s, <1>b, <1>q, <1>n, <1>m, <1>z, <1>r, <1>d, <1>e DEF
     BranchS, Typed, TypeOK, Asked, Acking, Telling, Told, Collecting, Recovery, TellRec,
     Asking, Gathered, TellCommit, TellRoll, Claimed
<1>8. Claims'
  BY <1>i, <1>u, <1>o, <1>s, <1>b, <1>q, <1>d, <1>e DEF Claims, Claimed, Hold
<1>9. BranchR'
  BY <1>i, <1>u, <1>o, <1>p, <1>s, <1>b, <1>q, <1>r DEF BranchR, Asked, Acking, Answered,
     Preparing, Gathered, Dec, Claimed
<1>10. Apart'
  BY <1>i, <1>u, <1>q, <1>r DEF Apart, Gathered, Active
<1>11. Same'
  BY <1>i, <1>u, <1>o, <1>s, <1>b, <1>q, <1>z, <1>r, <1>d DEF Same, Asked, Acking, Gathered,
     Claimed
<1>12. Agreed'
  BY <1>i, <1>u, <1>o, <1>p, <1>s, <1>b, <1>q, <1>r, <1>d, <1>e DEF Agreed, Preparing,
     TellCommit, TellRoll, Dec, Bound
<1>13. NoDuplicate'
  BY <1>i, <1>u DEF NoDuplicate
<1>14. NothingLost'
  BY <1>i, <1>u DEF NothingLost
<1>15. DecidedIsHeld'
  BY <1>i, <1>u, <1>d, <1>e DEF DecidedIsHeld
<1>16. Starting'
  BY <1>i, <1>u, <1>o, <1>p, <1>s, <1>b, <1>q, <1>z, <1>r, <1>d, <1>e DEF Starting, Asked,
     Acking, Claimed
<1>17. Deciding'
  BY <1>i, <1>u, <1>o, <1>p, <1>s, <1>b, <1>q, <1>z, <1>r, <1>d, <1>e DEF Deciding, Answered,
     Preparing
<1>18. Resuming'
  <2>1. preparedXA \in Nat /\ MinXA \in Nat /\ Recovering(senderXA) \in {0, 1}
    BY <1>i, NextOne, ForwarderAssumption DEF Typed, TypeOK
  <2>2. preparedXA > MinXA => preparedXA' > MinXA
    BY <2>1
  <2> QED BY <1>i, <1>u, <1>o, <2>2 DEF Resuming
<1> QED
  BY <1>1, <1>2, <1>3, <1>4, <1>5, <1>6, <1>7, <1>8, <1>9, <1>10, <1>11, <1>12, <1>13, <1>14,
     <1>15, <1>16, <1>17, <1>18, <1>r, <1>s DEF ForwardInv

(* ism_fwd_doConnectReply, in both cases.                                  *)
LEMMA DoConnectReplyKeeps ==
  ASSUME ForwardInv, DoConnectReply
  PROVE  ForwardInv'
<1>1. PICK reverse \in BOOLEAN :
         IF MustRecover(Head(r2s).auto, reverse)
         THEN /\ recoveryList' = RestOf(senderXA)
              /\ preparedXA' = preparedXA + Recovering(senderXA)
              /\ ToReceiver(RecoverMsg(senderXA))
              /\ UNCHANGED started
         ELSE /\ started' = TRUE
              /\ UNCHANGED <<recoveryList, preparedXA, s2r>>
  BY DEF DoConnectReply
<1>2. CASE MustRecover(Head(r2s).auto, reverse)
  BY <1>1, <1>2, ConnectReplyRecovers DEF DoConnectReply
<1>3. CASE ~MustRecover(Head(r2s).auto, reverse)
  BY <1>1, <1>3, ConnectReplyStarts DEF DoConnectReply, MustRecover
<1> QED BY <1>2, <1>3

(* Branch S is committed outside recovery.                                 *)
LEMMA CommitEnds ==
  ASSUME ForwardInv, NEW g \in Gtrids, SCommitted(Op("Commit", g))
  PROVE  ForwardInv'
<1>i. /\ Typed /\ OnceR /\ OnceS /\ LinkPlaced /\ Numbered /\ Placed /\ OneToken
      /\ Recovers /\ BranchS /\ Claims /\ BranchR /\ Apart /\ Same /\ Agreed
      /\ NoDuplicate /\ NothingLost /\ DecidedIsHeld /\ Starting /\ Deciding /\ Resuming
  BY DEF ForwardInv
<1>u. /\ r2s' = r2s /\ linkUp' = linkUp /\ sMsgs' = sMsgs /\ sConn' = sConn /\ started' = started
      /\ suspended' = suspended /\ rUp' = rUp /\ rConn' = rConn /\ rBranch' = rBranch
      /\ rMsgs' = rMsgs
      /\ receiverXA' = receiverXA /\ commits' = commits /\ currentXA' = currentXA
      /\ xaList' = xaList /\ puts' = puts
      /\ rOps' = rOps /\ seqn' = seqn /\ received' = received /\ faults' = faults
  BY DEF SCommitted, Op, receiverVars
<1>s. /\ \A u, k : SLetter(u, k)' <=> SLetter(u, k)
      /\ \A k, n : Named(k, n)' <=> Named(k, n)
      /\ ConnRep' <=> ConnRep
      /\ OnceS' /\ r2s' \in Seq(ToS)
  BY <1>i, <1>u, SSame DEF Typed
<1>p. \A o, k : ROp(o, k)' <=> ROp(o, k)
  BY <1>u, ROpSame
<1>a. /\ Op("Commit", g) \in sOps /\ EndBranchS(g, "gone") /\ senderXA' = senderXA \ {g}
      /\ sOps' = (sOps \ {Op("Commit", g)}) \cup ResumeAfter(preparedXA)
      /\ preparedXA' = OneFewer(preparedXA) /\ recoveryList' = recoveryList
      /\ ToReceiver(<<Wire("CommitReply", g)>>)
  <2>1. Op("Commit", g).op = "Commit" /\ Op("Commit", g).g = g
    BY DEF Op
  <2> QED BY <2>1 DEF SCommitted
<1>o. /\ \A o, k : o # "resume" => (SOp(o, k)' <=> SOp(o, k) /\ ~(o = "Commit" /\ k = g))
      /\ sOps' \subseteq SCalls /\ SOp("Commit", g) /\ sOps # {}
  <2>1. ResumeAfter(preparedXA) \subseteq {Op("resume", NoXA)} /\ sOps \subseteq SCalls
    BY <1>i, Resumes DEF Typed, TypeOK
  <2> QED BY <2>1, <1>a, OpEq, CallsS DEF SOp
<1>t. Telling(g)
  BY <1>o DEF Telling, TellCommit, TellRoll
<1>e. /\ \A k \in Gtrids : sBranch'[k] = IF k = g THEN "none" ELSE sBranch[k]
      /\ \A m \in Msgs : where'[m] = IF sBranch[g] = "prepared" /\ m \in sMsgs[g]
                                     THEN "gone" ELSE where[m]
      /\ sBranch' \in [Gtrids -> {"none", "inflight", "prepared"}]
      /\ where' \in [Msgs -> {"absent", "queued", "sent", "acked", "gone"}]
      /\ sBranch[g] \in {"none", "prepared"}
  BY <1>i, <1>a, <1>t, EndBranch
<1>l. /\ linkUp => sConn = "open" /\ rConn = "open"
      /\ sConn \notin {"closed", "connecting"}
      /\ ~ConnRep
      /\ sBranch[g] = "prepared" => \A m \in Msgs : m \in sMsgs[g] => where[m] = "acked"
  BY <1>i, <1>o DEF LinkPlaced, OneToken, Claims, Hold
<1>z. linkUp \/ s2r' = s2r
  BY <1>a DEF ToReceiver
<1>r. /\ \A u, k : RLetter(u, k)' <=> RLetter(u, k) \/ (linkUp /\ u = "CommitReply" /\ k = g)
      /\ \A k : Confirmed(k)' <=> Confirmed(k)
      /\ OnceR' /\ s2r' \in Seq(ToR)
  <2>1. PICK y : y = Wire("CommitReply", g)
    OBVIOUS
  <2>2. y \in ToR /\ y.t = "CommitReply" /\ y.g = g
    BY <2>1, WireToR, WireFields
  <2> QED BY <1>a, <1>i, <2>1, <2>2, RSend DEF Typed
<1>c. ~Recovery /\ TellCommit(g)
  BY <1>i, <1>o DEF Recovers, Quiet, TellCommit
<1>f. preparedXA' \in Nat
  BY <1>i, <1>a, Resumes DEF Typed, TypeOK
<1>d. sBranch[g] = "prepared" => /\ Dec(g) /\ sMsgs[g] = rMsgs[g] /\ rBranch[g] # "forgetting"
  BY <1>i, <1>c DEF Agreed
<1>j. \A m \in Msgs : /\ where[m] = "sent" => where'[m] = "sent"
                      /\ where'[m] = "queued" => where[m] = "queued"
  BY <1>e, <1>l
<1>1. Typed'
  BY <1>i, <1>u, <1>s, <1>a, <1>o, <1>e, <1>l, <1>z, <1>r, <1>f, <1>d, <1>j, CallsS DEF Typed,
     TypeOK
<1>2. LinkPlaced'
  BY <1>i, <1>u, <1>s, <1>p, <1>a, <1>o, <1>e, <1>l, <1>z, <1>r, <1>d DEF LinkPlaced, Preparing
<1>3. Numbered'
  BY <1>i, <1>u, <1>s, <1>p, <1>o, <1>t, <1>e, <1>l, <1>z, <1>r, <1>c, <1>d DEF Numbered, Asked,
     Acking, Answered, Preparing, Telling, Told, Collecting, Flowing, Gathered, TellCommit,
     TellRoll, Claimed
<1>4. Placed'
  BY <1>i, <1>u, <1>s, <1>p, <1>o, <1>t, <1>r, <1>c, <1>d DEF Placed, Asked, Acking, Answered,
     Preparing, TellCommit, Telling, Told, Collecting, Gathered, TellRoll, Claimed
<1>5. OneToken'
  BY <1>i, <1>u, <1>s, <1>a, <1>o, <1>l, <1>z, <1>r, <1>c DEF OneToken, Recovery, TellRec,
     Asking
<1>6. Recovers'
  BY <1>i, <1>u, <1>s, <1>p, <1>a, <1>o, <1>e, <1>l, <1>r, <1>c, <1>d DEF Recovers, Recovery,
     TellRec, Quiet, Asked, Acking, Answered, Preparing, Claimed, Asking
<1>7. BranchS'
  BY <1>i, <1>u, <1>s, <1>p, <1>a, <1>o, <1>t, <1>e, <1>l, <1>z, <1>r, <1>c, <1>d DEF BranchS,
     Placed, Asked, Acking, Telling, Told, Collecting, Recovery, TellRec, Asking, Gathered,
     TellCommit, TellRoll, Claimed, Answered, Preparing
<1>8. Claims'
  BY <1>i, <1>u, <1>s, <1>p, <1>a, <1>o, <1>t, <1>e, <1>l, <1>z, <1>r, <1>c, <1>d, <1>j DEF
     Claims, BranchS, Claimed, Hold, Asked, Acking, Telling, Told, Collecting, Recovery,
     TellRec, Asking, Gathered, TellCommit, TellRoll
<1>9. BranchR'
  BY <1>i, <1>u, <1>s, <1>p, <1>o, <1>r, <1>d DEF BranchR, Asked, Acking, Answered, Preparing,
     Gathered, Dec, Claimed
<1>10. Apart'
  BY <1>i, <1>u, <1>r, <1>d DEF Apart, Gathered, Active
<1>11. Same'
  <2>1. \A k : /\ Asked(k)' <=> Asked(k)
               /\ Acking(k)' => Acking(k)
               /\ Gathered(k)' <=> Gathered(k)
               /\ RLetter("RMessage", k)' <=> RLetter("RMessage", k)
    BY <1>o, <1>r, <1>s, <1>u DEF Asked, Acking, Claimed, Gathered
  <2>2. \A k, m : Named(k, m)' <=> Named(k, m)
    BY <1>s
  <2> QED BY <1>i, <1>j, <1>u, <2>1, <2>2 DEF Same
<1>12. Agreed'
  BY <1>i, <1>u, <1>s, <1>p, <1>o, <1>t, <1>e, <1>l, <1>r, <1>c, <1>d, ConfirmedIsAnswer DEF
     Agreed, Placed, Preparing, TellCommit, TellRoll, Dec, Bound, Asked, Acking, Answered,
     Telling, Told, Collecting, Gathered, Claimed
<1>13. NoDuplicate'
  BY <1>i, <1>u DEF NoDuplicate
<1>14. NothingLost'
  BY <1>i, <1>u, <1>e, <1>l, <1>r, <1>d, <1>j DEF NothingLost, Apart, Dec, Gathered, Active
<1>15. DecidedIsHeld'
  BY <1>i, <1>u, <1>e, <1>l, <1>d, <1>j DEF DecidedIsHeld
<1>16. Starting'
  BY <1>i, <1>u, <1>s, <1>p, <1>o, <1>e, <1>l, <1>z, <1>r, <1>d DEF Starting, Asked, Acking,
     Claimed
<1>17. Deciding'
  BY <1>i, <1>u, <1>s, <1>p, <1>o, <1>e, <1>l, <1>z, <1>r, <1>d DEF Deciding, Answered,
     Preparing
<1>18. Resuming'
  <2>1. preparedXA' >= OneFewer(preparedXA) /\ preparedXA' \in Nat
    BY <1>i, <1>a, <1>f
  <2> QED BY <1>i, <1>u, <1>a, <2>1, CommitResumes
<1> QED
  BY <1>1, <1>2, <1>3, <1>4, <1>5, <1>6, <1>7, <1>8, <1>9, <1>10, <1>11, <1>12, <1>13, <1>14,
     <1>15, <1>16, <1>17, <1>18, <1>r, <1>s DEF ForwardInv

(* Branch S is committed during recovery; the next one is asked for.       *)
LEMMA CommitRecoverEnds ==
  ASSUME ForwardInv, NEW g \in Gtrids, SCommitted(Op("CommitRecover", g))
  PROVE  ForwardInv'
<1>i. /\ Typed /\ OnceR /\ OnceS /\ LinkPlaced /\ Numbered /\ Placed /\ OneToken
      /\ Recovers /\ BranchS /\ Claims /\ BranchR /\ Apart /\ Same /\ Agreed
      /\ NoDuplicate /\ NothingLost /\ DecidedIsHeld /\ Starting /\ Deciding /\ Resuming
  BY DEF ForwardInv
<1>u. /\ r2s' = r2s /\ linkUp' = linkUp /\ sMsgs' = sMsgs /\ sConn' = sConn /\ started' = started
      /\ suspended' = suspended /\ rUp' = rUp /\ rConn' = rConn /\ rBranch' = rBranch
      /\ rMsgs' = rMsgs
      /\ receiverXA' = receiverXA /\ commits' = commits /\ currentXA' = currentXA
      /\ xaList' = xaList /\ puts' = puts
      /\ rOps' = rOps /\ seqn' = seqn /\ received' = received /\ faults' = faults
  BY DEF SCommitted, Op, receiverVars
<1>s. /\ \A u, k : SLetter(u, k)' <=> SLetter(u, k)
      /\ \A k, n : Named(k, n)' <=> Named(k, n)
      /\ ConnRep' <=> ConnRep
      /\ OnceS' /\ r2s' \in Seq(ToS)
  BY <1>i, <1>u, SSame DEF Typed
<1>p. \A o, k : ROp(o, k)' <=> ROp(o, k)
  BY <1>u, ROpSame
<1>a. /\ Op("CommitRecover", g) \in sOps /\ EndBranchS(g, "gone") /\ senderXA' = senderXA \ {g}
      /\ sOps' = (sOps \ {Op("CommitRecover", g)}) \cup ResumeAfter(preparedXA)
      /\ preparedXA' = OneFewer(preparedXA) + Recovering(recoveryList)
      /\ recoveryList' = RestOf(recoveryList)
      /\ ToReceiver(<<Wire("CommitReply", g)>> \o RecoverMsg(recoveryList))
  <2>1. Op("CommitRecover", g).op = "CommitRecover" /\ Op("CommitRecover", g).g = g
    BY DEF Op
  <2> QED BY <2>1 DEF SCommitted
<1>o. /\ \A o, k : o # "resume" => (SOp(o, k)' <=> SOp(o, k) /\ ~(o = "CommitRecover" /\ k = g))
      /\ sOps' \subseteq SCalls /\ SOp("CommitRecover", g) /\ sOps # {}
  <2>1. ResumeAfter(preparedXA) \subseteq {Op("resume", NoXA)} /\ sOps \subseteq SCalls
    BY <1>i, Resumes DEF Typed, TypeOK
  <2> QED BY <2>1, <1>a, OpEq, CallsS DEF SOp
<1>t. Telling(g)
  BY <1>o DEF Telling, TellCommit, TellRoll
<1>e. /\ \A k \in Gtrids : sBranch'[k] = IF k = g THEN "none" ELSE sBranch[k]
      /\ \A m \in Msgs : where'[m] = IF sBranch[g] = "prepared" /\ m \in sMsgs[g]
                                     THEN "gone" ELSE where[m]
      /\ sBranch' \in [Gtrids -> {"none", "inflight", "prepared"}]
      /\ where' \in [Msgs -> {"absent", "queued", "sent", "acked", "gone"}]
      /\ sBranch[g] \in {"none", "prepared"}
  BY <1>i, <1>a, <1>t, EndBranch
<1>l. /\ linkUp => sConn = "open" /\ rConn = "open"
      /\ sConn \notin {"closed", "connecting"}
      /\ ~ConnRep
      /\ sBranch[g] = "prepared" => \A m \in Msgs : m \in sMsgs[g] => where[m] = "acked"
  BY <1>i, <1>o DEF LinkPlaced, OneToken, Claims, Hold
<1>z. linkUp \/ s2r' = s2r
  BY <1>a DEF ToReceiver
<1>n. PICK n : n = NextOf(recoveryList)
  OBVIOUS
<1>m. /\ n \in Gtrids \cup {NoXA} /\ (n = NoXA => recoveryList = {})
      /\ recoveryList' \subseteq Gtrids /\ \A k \in recoveryList : k \in recoveryList' \/ k = n
      /\ preparedXA' \in Nat
  <2>1. recoveryList \subseteq Gtrids /\ OneFewer(preparedXA) \in Nat
    BY <1>i, Resumes DEF Typed, TypeOK
  <2>2. /\ NextOf(recoveryList) \in Gtrids \cup {NoXA} /\ (NextOf(recoveryList) = NoXA <=> recoveryList = {})
        /\ RestOf(recoveryList) \subseteq recoveryList
        /\ \A k \in recoveryList : k \in RestOf(recoveryList) \/ k = NextOf(recoveryList)
        /\ Recovering(recoveryList) \in {0, 1}
    BY <2>1, NextOne
  <2> QED BY <1>a, <1>n, <2>1, <2>2
<1>c. Recovery /\ Quiet /\ TellRec(g)
  BY <1>i, <1>o DEF Recovers, Recovery, TellRec
<1>k. ~Asking /\ \A k \in Gtrids : TellRec(k) => k = g
  <2>1. /\ \A k \in Gtrids : ~SLetter("CommitRecover", k) /\ ~SLetter("RollRecover", k)
        /\ \A k \in Gtrids : SOp("CommitRecover", k) \/ SOp("RollRecover", k) => k = g
        /\ ~Asking
    BY <1>i, <1>o, <1>c DEF OneToken
  <2> QED BY <2>1 DEF TellRec
<1>h. \A k \in Gtrids : ~TellRec(k)' /\ ~Telling(k)'
  <2>1. /\ \A k \in Gtrids : ~SLetter("CommitRecover", k) /\ ~SLetter("RollRecover", k)
        /\ \A k \in Gtrids : SOp("CommitRecover", k) \/ SOp("RollRecover", k) => k = g
        /\ ~(SOp("CommitRecover", g) /\ SOp("RollRecover", g))
    BY <1>i, <1>o, <1>c DEF OneToken
  <2> QED BY <2>1, <1>o, <1>s, <1>c DEF TellRec, Telling, TellCommit, TellRoll, Quiet
<1>r. /\ \A u, k : RLetter(u, k)' <=> \/ RLetter(u, k)
                                      \/ linkUp /\ u = "CommitReply" /\ k = g
                                      \/ linkUp /\ u = "Recover" /\ k = n
      /\ \A k : Confirmed(k)' <=> Confirmed(k)
      /\ OnceR' /\ s2r' \in Seq(ToR)
  BY <1>a, <1>i, <1>n, <1>m, <1>k, RSendTwo DEF Typed, RecoverMsg
<1>d. /\ sBranch[g] = "prepared" => /\ Dec(g) /\ sMsgs[g] = rMsgs[g] /\ rBranch[g] # "forgetting"
      /\ TellCommit(g)
  <2>1. TellCommit(g)
    BY <1>o DEF TellCommit
  <2> QED BY <1>i, <2>1 DEF Agreed
<1>v. /\ linkUp => \A k \in Gtrids : sBranch'[k] # "none" => k \in recoveryList
      /\ linkUp /\ n = NoXA => \A k \in Gtrids : sBranch'[k] = "none"
  BY <1>i, <1>c, <1>e, <1>k, <1>l, <1>m, AskingSome DEF Recovers
<1>1. Typed'
  BY <1>i, <1>u, <1>s, <1>a, <1>o, <1>e, <1>l, <1>z, <1>n, <1>m, <1>r, <1>d, <1>v, CallsS DEF
     Typed, TypeOK
<1>2. LinkPlaced'
  BY <1>i, <1>u, <1>s, <1>p, <1>a, <1>o, <1>e, <1>l, <1>z, <1>n, <1>m, <1>r, <1>d, <1>v DEF
     LinkPlaced, Preparing
<1>3. Numbered'
  BY <1>i, <1>u, <1>s, <1>p, <1>o, <1>t, <1>e, <1>l, <1>z, <1>c, <1>h, <1>r, <1>d, <1>v DEF
     Numbered, Quiet, Asked, Acking, Answered, Preparing, Telling, Told, Collecting, Flowing,
     Gathered, TellCommit, TellRoll, Claimed
<1>4. Placed'
  BY <1>i, <1>u, <1>s, <1>p, <1>o, <1>t, <1>h, <1>r, <1>d DEF Placed, Asked, Acking, Answered,
     Preparing, TellCommit, Telling, Told, Collecting, Gathered, TellRoll, Claimed
<1>5. OneToken'
  BY <1>i, <1>u, <1>s, <1>a, <1>o, <1>l, <1>z, <1>c, <1>k, <1>h, <1>r DEF OneToken, Recovery,
     TellRec, Asking
<1>6. Recovers'
  BY <1>i, <1>u, <1>s, <1>p, <1>a, <1>o, <1>t, <1>e, <1>l, <1>z, <1>n, <1>m, <1>c, <1>k, <1>h,
     <1>r, <1>d, <1>v DEF Recovers, Quiet, TellRec, Recovery, Asked, Acking, Answered,
     Preparing, Claimed, Asking
<1>7. BranchS'
  BY <1>i, <1>u, <1>s, <1>p, <1>a, <1>o, <1>t, <1>e, <1>l, <1>z, <1>n, <1>m, <1>c, <1>k, <1>h,
     <1>r, <1>d, <1>v DEF BranchS, Placed, Asked, Acking, Telling, Told, Collecting, Recovery,
     TellRec, Asking, Gathered, TellCommit, TellRoll, Claimed, Answered, Preparing
<1>8. Claims'
  BY <1>i, <1>u, <1>s, <1>p, <1>a, <1>o, <1>t, <1>e, <1>l, <1>z, <1>c, <1>k, <1>h, <1>r, <1>d,
     <1>v DEF Claims, BranchS, Claimed, Hold, Asked, Acking, Telling, Told, Collecting,
     Recovery, TellRec, Asking, Gathered, TellCommit, TellRoll
<1>9. BranchR'
  BY <1>i, <1>u, <1>s, <1>p, <1>o, <1>r, <1>d DEF BranchR, Asked, Acking, Answered, Preparing,
     Gathered, Dec, Claimed
<1>10. Apart'
  BY <1>i, <1>u, <1>r, <1>d DEF Apart, Gathered, Active
<1>11. Same'
  BY <1>i, <1>u, <1>s, <1>o, <1>e, <1>l, <1>z, <1>r, <1>d, <1>v DEF Same, Asked, Acking,
     Gathered, Claimed
<1>12. Agreed'
  BY <1>i, <1>u, <1>s, <1>p, <1>o, <1>t, <1>e, <1>l, <1>h, <1>r, <1>d, <1>v, ConfirmedIsAnswer DEF
     Agreed, Placed, Preparing, TellCommit, TellRoll, Dec, Bound, Asked, Acking, Answered,
     Telling, Told, Collecting, Gathered, Claimed
<1>13. NoDuplicate'
  BY <1>i, <1>u DEF NoDuplicate
<1>14. NothingLost'
  BY <1>i, <1>u, <1>e, <1>l, <1>r, <1>d DEF NothingLost, Apart, Dec, Gathered, Active
<1>15. DecidedIsHeld'
  BY <1>i, <1>u, <1>e, <1>l, <1>d, <1>v DEF DecidedIsHeld
<1>16. Starting'
  BY <1>i, <1>u, <1>s, <1>p, <1>o, <1>e, <1>l, <1>z, <1>r, <1>d, <1>v DEF Starting, Asked,
     Acking, Claimed
<1>17. Deciding'
  BY <1>i, <1>u, <1>s, <1>p, <1>o, <1>e, <1>l, <1>z, <1>r, <1>d, <1>v DEF Deciding, Answered,
     Preparing
<1>18. Resuming'
  <2>1. /\ OneFewer(preparedXA) \in Nat /\ Recovering(recoveryList) \in {0, 1}
        /\ preparedXA' = OneFewer(preparedXA) + Recovering(recoveryList)
    BY <1>i, <1>a, Resumes, NextOne DEF Typed, TypeOK
  <2>2. preparedXA' >= OneFewer(preparedXA) /\ preparedXA' \in Nat
    BY <2>1
  <2> QED BY <1>i, <1>u, <1>a, <2>2, CommitResumes
<1> QED
  BY <1>1, <1>2, <1>3, <1>4, <1>5, <1>6, <1>7, <1>8, <1>9, <1>10, <1>11, <1>12, <1>13, <1>14,
     <1>15, <1>16, <1>17, <1>18, <1>r, <1>s DEF ForwardInv

(* Branch S is rolled back during recovery; the next one is asked for.     *)
LEMMA SRolledBackKeeps ==
  ASSUME ForwardInv, NEW g \in Gtrids, SRolledBack(g)
  PROVE  ForwardInv'
<1>i. /\ Typed /\ OnceR /\ OnceS /\ LinkPlaced /\ Numbered /\ Placed /\ OneToken
      /\ Recovers /\ BranchS /\ Claims /\ BranchR /\ Apart /\ Same /\ Agreed
      /\ NoDuplicate /\ NothingLost /\ DecidedIsHeld /\ Starting /\ Deciding /\ Resuming
  BY DEF ForwardInv
<1>u. /\ r2s' = r2s /\ linkUp' = linkUp /\ sMsgs' = sMsgs /\ sConn' = sConn /\ started' = started
      /\ suspended' = suspended /\ rUp' = rUp /\ rConn' = rConn /\ rBranch' = rBranch
      /\ rMsgs' = rMsgs
      /\ receiverXA' = receiverXA /\ commits' = commits /\ currentXA' = currentXA
      /\ xaList' = xaList /\ puts' = puts
      /\ rOps' = rOps /\ seqn' = seqn /\ received' = received /\ faults' = faults
  BY DEF SRolledBack, receiverVars
<1>s. /\ \A u, k : SLetter(u, k)' <=> SLetter(u, k)
      /\ \A k, n : Named(k, n)' <=> Named(k, n)
      /\ ConnRep' <=> ConnRep
      /\ OnceS' /\ r2s' \in Seq(ToS)
  BY <1>i, <1>u, SSame DEF Typed
<1>p. \A o, k : ROp(o, k)' <=> ROp(o, k)
  BY <1>u, ROpSame
<1>a. /\ Op("RollRecover", g) \in sOps /\ EndBranchS(g, "queued") /\ senderXA' = senderXA \ {g}
      /\ sOps' = (sOps \ {Op("RollRecover", g)}) \cup ResumeAfter(preparedXA)
      /\ preparedXA' = OneFewer(preparedXA) + Recovering(recoveryList)
      /\ recoveryList' = RestOf(recoveryList)
      /\ ToReceiver(RecoverMsg(recoveryList))
  BY DEF SRolledBack
<1>o. /\ \A o, k : o # "resume" => (SOp(o, k)' <=> SOp(o, k) /\ ~(o = "RollRecover" /\ k = g))
      /\ sOps' \subseteq SCalls /\ SOp("RollRecover", g) /\ sOps # {}
  <2>1. ResumeAfter(preparedXA) \subseteq {Op("resume", NoXA)} /\ sOps \subseteq SCalls
    BY <1>i, Resumes DEF Typed, TypeOK
  <2> QED BY <2>1, <1>a, OpEq, CallsS DEF SOp
<1>t. Telling(g)
  BY <1>o DEF Telling, TellCommit, TellRoll
<1>e. /\ \A k \in Gtrids : sBranch'[k] = IF k = g THEN "none" ELSE sBranch[k]
      /\ \A m \in Msgs : where'[m] = IF sBranch[g] = "prepared" /\ m \in sMsgs[g]
                                     THEN "queued" ELSE where[m]
      /\ sBranch' \in [Gtrids -> {"none", "inflight", "prepared"}]
      /\ where' \in [Msgs -> {"absent", "queued", "sent", "acked", "gone"}]
      /\ sBranch[g] \in {"none", "prepared"}
  BY <1>i, <1>a, <1>t, EndBranch
<1>l. /\ linkUp => sConn = "open" /\ rConn = "open"
      /\ sConn \notin {"closed", "connecting"}
      /\ ~ConnRep
      /\ sBranch[g] = "prepared" => \A m \in Msgs : m \in sMsgs[g] => where[m] = "acked"
  BY <1>i, <1>o DEF LinkPlaced, OneToken, Claims, Hold
<1>z. linkUp \/ s2r' = s2r
  BY <1>a DEF ToReceiver
<1>n. PICK n : n = NextOf(recoveryList)
  OBVIOUS
<1>m. /\ n \in Gtrids \cup {NoXA} /\ (n = NoXA => recoveryList = {})
      /\ recoveryList' \subseteq Gtrids /\ \A k \in recoveryList : k \in recoveryList' \/ k = n
      /\ preparedXA' \in Nat
  <2>1. recoveryList \subseteq Gtrids /\ OneFewer(preparedXA) \in Nat
    BY <1>i, Resumes DEF Typed, TypeOK
  <2>2. /\ NextOf(recoveryList) \in Gtrids \cup {NoXA} /\ (NextOf(recoveryList) = NoXA <=> recoveryList = {})
        /\ RestOf(recoveryList) \subseteq recoveryList
        /\ \A k \in recoveryList : k \in RestOf(recoveryList) \/ k = NextOf(recoveryList)
        /\ Recovering(recoveryList) \in {0, 1}
    BY <2>1, NextOne
  <2> QED BY <1>a, <1>n, <2>1, <2>2
<1>c. Recovery /\ Quiet /\ TellRec(g)
  BY <1>i, <1>o DEF Recovers, Recovery, TellRec
<1>k. ~Asking /\ \A k \in Gtrids : TellRec(k) => k = g
  <2>1. /\ \A k \in Gtrids : ~SLetter("CommitRecover", k) /\ ~SLetter("RollRecover", k)
        /\ \A k \in Gtrids : SOp("CommitRecover", k) \/ SOp("RollRecover", k) => k = g
        /\ ~Asking
    BY <1>i, <1>o, <1>c DEF OneToken
  <2> QED BY <2>1 DEF TellRec
<1>h. \A k \in Gtrids : ~TellRec(k)' /\ ~Telling(k)'
  <2>1. /\ \A k \in Gtrids : ~SLetter("CommitRecover", k) /\ ~SLetter("RollRecover", k)
        /\ \A k \in Gtrids : SOp("CommitRecover", k) \/ SOp("RollRecover", k) => k = g
        /\ ~(SOp("CommitRecover", g) /\ SOp("RollRecover", g))
    BY <1>i, <1>o, <1>c DEF OneToken
  <2> QED BY <2>1, <1>o, <1>s, <1>c DEF TellRec, Telling, TellCommit, TellRoll, Quiet
<1>r. /\ \A u, k : RLetter(u, k)' <=> RLetter(u, k) \/ (linkUp /\ u = "Recover" /\ k = n)
      /\ \A k : Confirmed(k)' <=> Confirmed(k)
      /\ OnceR' /\ s2r' \in Seq(ToR)
  <2>1. PICK y : y = Wire("Recover", n)
    OBVIOUS
  <2>2. y \in ToR /\ y.t = "Recover" /\ y.g = n
    BY <1>m, <2>1, WireToR, WireFields
  <2> QED BY <1>a, <1>n, <1>i, <1>k, <2>1, <2>2, RSend DEF Typed, RecoverMsg
<1>d. sBranch[g] = "prepared" => ~Dec(g) /\ \A m \in sMsgs[g] : /\ received[m] = 0
                                            /\ \A k \in Gtrids : rBranch[k] \in Bound => m \notin rMsgs[k]
  <2>1. TellRoll(g)
    BY <1>o DEF TellRoll
  <2> QED BY <1>i, <2>1 DEF Agreed
<1>v. /\ linkUp => \A k \in Gtrids : sBranch'[k] # "none" => k \in recoveryList
      /\ linkUp /\ n = NoXA => \A k \in Gtrids : sBranch'[k] = "none"
  BY <1>i, <1>c, <1>e, <1>k, <1>l, <1>m, AskingSome DEF Recovers
<1>1. Typed'
  BY <1>i, <1>u, <1>s, <1>a, <1>o, <1>e, <1>l, <1>z, <1>n, <1>m, <1>r, <1>d, <1>v, CallsS DEF
     Typed, TypeOK
<1>2. LinkPlaced'
  BY <1>i, <1>u, <1>s, <1>p, <1>a, <1>o, <1>e, <1>l, <1>z, <1>n, <1>m, <1>r, <1>d, <1>v DEF
     LinkPlaced, Preparing
<1>3. Numbered'
  BY <1>i, <1>u, <1>s, <1>p, <1>o, <1>t, <1>e, <1>l, <1>z, <1>c, <1>h, <1>r, <1>d, <1>v DEF
     Numbered, Quiet, Asked, Acking, Answered, Preparing, Telling, Told, Collecting, Flowing,
     Gathered, TellCommit, TellRoll, Claimed
<1>4. Placed'
  BY <1>i, <1>u, <1>s, <1>p, <1>o, <1>t, <1>h, <1>r, <1>d DEF Placed, Asked, Acking, Answered,
     Preparing, TellCommit, Telling, Told, Collecting, Gathered, TellRoll, Claimed
<1>5. OneToken'
  BY <1>i, <1>u, <1>s, <1>a, <1>o, <1>l, <1>z, <1>c, <1>k, <1>h, <1>r DEF OneToken, Recovery,
     TellRec, Asking
<1>6. Recovers'
  BY <1>i, <1>u, <1>s, <1>p, <1>a, <1>o, <1>e, <1>l, <1>n, <1>m, <1>c, <1>k, <1>h, <1>r, <1>d,
     <1>v DEF Recovers, Quiet, TellRec, Recovery, Asked, Acking, Answered, Preparing, Claimed,
     Asking
<1>7. BranchS'
  BY <1>i, <1>u, <1>s, <1>p, <1>a, <1>o, <1>t, <1>e, <1>l, <1>z, <1>n, <1>m, <1>c, <1>k, <1>h,
     <1>r, <1>d, <1>v DEF BranchS, Placed, Asked, Acking, Telling, Told, Collecting, Recovery,
     TellRec, Asking, Gathered, TellCommit, TellRoll, Claimed, Answered, Preparing
<1>8. Claims'
  BY <1>i, <1>u, <1>s, <1>p, <1>a, <1>o, <1>t, <1>e, <1>l, <1>z, <1>c, <1>k, <1>h, <1>r, <1>d,
     <1>v DEF Claims, BranchS, Claimed, Hold, Asked, Acking, Telling, Told, Collecting,
     Recovery, TellRec, Asking, Gathered, TellCommit, TellRoll
<1>9. BranchR'
  BY <1>i, <1>u, <1>s, <1>p, <1>o, <1>r, <1>d DEF BranchR, Asked, Acking, Answered, Preparing,
     Gathered, Dec, Claimed
<1>10. Apart'
  BY <1>i, <1>u, <1>r, <1>d DEF Apart, Gathered, Active
<1>11. Same'
  BY <1>i, <1>u, <1>s, <1>p, <1>o, <1>e, <1>l, <1>z, <1>c, <1>r, <1>d, <1>v DEF Same, Quiet,
     Asked, Acking, Gathered, Claimed
<1>12. Agreed'
  BY <1>i, <1>u, <1>s, <1>p, <1>o, <1>t, <1>e, <1>l, <1>h, <1>r, <1>d, <1>v, ConfirmedIsAnswer DEF
     Agreed, Placed, Preparing, TellCommit, TellRoll, Dec, Bound, Asked, Acking, Answered,
     Telling, Told, Collecting, Gathered, Claimed
<1>13. NoDuplicate'
  BY <1>i, <1>u, <1>d DEF NoDuplicate
<1>14. NothingLost'
  BY <1>i, <1>u, <1>e, <1>l, <1>d DEF NothingLost
<1>15. DecidedIsHeld'
  BY <1>i, <1>u, <1>s, <1>a, <1>o, <1>e, <1>l, <1>z, <1>n, <1>m, <1>r, <1>d, <1>v DEF
     DecidedIsHeld, Bound, Typed, TypeOK
<1>16. Starting'
  BY <1>i, <1>u, <1>s, <1>p, <1>o, <1>e, <1>l, <1>z, <1>r, <1>d, <1>v DEF Starting, Asked,
     Acking, Claimed
<1>17. Deciding'
  BY <1>i, <1>u, <1>s, <1>p, <1>o, <1>e, <1>l, <1>z, <1>r, <1>d, <1>v DEF Deciding, Answered,
     Preparing
<1>18. Resuming'
  <2>1. /\ OneFewer(preparedXA) \in Nat /\ Recovering(recoveryList) \in {0, 1}
        /\ preparedXA' = OneFewer(preparedXA) + Recovering(recoveryList)
    BY <1>i, <1>a, Resumes, NextOne DEF Typed, TypeOK
  <2>2. preparedXA' >= OneFewer(preparedXA) /\ preparedXA' \in Nat
    BY <2>1
  <2> QED BY <1>i, <1>u, <1>a, <2>2, CommitResumes
<1> QED
  BY <1>1, <1>2, <1>3, <1>4, <1>5, <1>6, <1>7, <1>8, <1>9, <1>10, <1>11, <1>12, <1>13, <1>14,
     <1>15, <1>16, <1>17, <1>18, <1>r, <1>s DEF ForwardInv

(* Branch S is committed, in both cases.                                   *)
LEMMA SCommittedKeeps ==
  ASSUME ForwardInv, NEW x \in sOps, SCommitted(x)
  PROVE  ForwardInv'
<1>1. x \in SCalls /\ x.op \in {"Commit", "CommitRecover"}
  BY DEF ForwardInv, Typed, SCommitted
<1>2. x = Op(x.op, x.g) /\ x.g \in Gtrids
  BY <1>1, CallsS
<1>3. PICK g \in Gtrids : g = x.g
  BY <1>2
<1>4. CASE x.op = "Commit"
  <2>1. x = Op("Commit", g)
    BY <1>2, <1>3, <1>4
  <2> QED BY <2>1, CommitEnds
<1>5. CASE x.op = "CommitRecover"
  <2>1. x = Op("CommitRecover", g)
    BY <1>2, <1>3, <1>5
  <2> QED BY <2>1, CommitRecoverEnds
<1> QED BY <1>1, <1>4, <1>5

(* The sender's end is closed: unprepared work returns to the queue.       *)
LEMMA SClosedKeeps ==
  ASSUME ForwardInv, SClosed
  PROVE  ForwardInv'
<1>i. /\ Typed /\ OnceR /\ OnceS /\ LinkPlaced /\ Numbered /\ Placed /\ OneToken
      /\ Recovers /\ BranchS /\ Claims /\ BranchR /\ Apart /\ Same /\ Agreed
      /\ NoDuplicate /\ NothingLost /\ DecidedIsHeld /\ Starting /\ Deciding /\ Resuming
  BY DEF ForwardInv
<1>u. /\ s2r' = s2r /\ r2s' = r2s /\ linkUp' = linkUp /\ sMsgs' = sMsgs /\ senderXA' = senderXA
      /\ sOps' = sOps /\ rUp' = rUp /\ rConn' = rConn /\ rBranch' = rBranch /\ rMsgs' = rMsgs
      /\ receiverXA' = receiverXA /\ commits' = commits /\ currentXA' = currentXA
      /\ xaList' = xaList /\ puts' = puts
      /\ rOps' = rOps /\ seqn' = seqn /\ received' = received /\ faults' = faults
  BY DEF SClosed, link, receiverVars
<1>r. /\ \A u, k : RLetter(u, k)' <=> RLetter(u, k)
      /\ \A k : Confirmed(k)' <=> Confirmed(k)
      /\ OnceR' /\ s2r' \in Seq(ToR)
  BY <1>i, <1>u, RSame DEF Typed
<1>s. /\ \A u, k : SLetter(u, k)' <=> SLetter(u, k)
      /\ \A k, n : Named(k, n)' <=> Named(k, n)
      /\ ConnRep' <=> ConnRep
      /\ OnceS' /\ r2s' \in Seq(ToS)
  BY <1>i, <1>u, SSame DEF Typed
<1>o. \A o, k : SOp(o, k)' <=> SOp(o, k)
  BY <1>u, SOpSame
<1>p. \A o, k : ROp(o, k)' <=> ROp(o, k)
  BY <1>u, ROpSame
<1>a. /\ sConn = "closing" /\ sOps = {} /\ RequeueUnprepared
      /\ sConn' = "closed" /\ recoveryList' = {} /\ started' = FALSE /\ preparedXA' = 0
      /\ suspended' = FALSE
  BY DEF SClosed
<1>e. /\ \A g \in Gtrids : sBranch'[g] = IF sBranch[g] = "prepared" THEN "prepared" ELSE "none"
      /\ \A m \in Msgs : where'[m] = IF \/ where[m] \in {"absent", "gone"}
                                        \/ \E g \in Gtrids : sBranch[g] = "prepared" /\ m \in sMsgs[g]
                                     THEN where[m] ELSE "queued"
      /\ sBranch' \in [Gtrids -> {"none", "inflight", "prepared"}]
      /\ where' \in [Msgs -> {"absent", "queued", "sent", "acked", "gone"}]
  BY <1>i, <1>a, Requeued
<1>j. \A m \in Msgs : /\ where'[m] = "gone" <=> where[m] = "gone"
                      /\ (\E g \in Gtrids : sBranch[g] = "prepared" /\ m \in sMsgs[g])
                           => where'[m] = "acked"
  BY <1>i, <1>e DEF Claims, Hold
<1>d. /\ ~linkUp /\ r2s = <<>> /\ \A u, k : ~SLetter(u, k)
      /\ ~ConnRep /\ \A k, m : ~Named(k, m)
      /\ \A o, k : ~SOp(o, k)
  <2>1. ~linkUp /\ r2s = <<>>
    BY <1>i, <1>a DEF LinkPlaced
  <2> QED BY <1>a, <2>1, SEmpty DEF SOp
<1>1. Typed'
  BY <1>i, <1>u, <1>r, <1>s, <1>a, <1>e, <1>j, <1>d DEF Typed, TypeOK
<1>2. LinkPlaced'
  BY <1>i, <1>u, <1>r, <1>s, <1>p, <1>a, <1>e, <1>j, <1>d DEF LinkPlaced, Preparing
<1>3. Numbered'
  BY <1>i, <1>u, <1>r, <1>s, <1>o, <1>p, <1>a, <1>e, <1>j, <1>d DEF Numbered, Asked, Acking,
     Answered, Preparing, Telling, Told, Collecting, Flowing, Gathered, TellCommit, TellRoll,
     Claimed
<1>4. Placed'
  BY <1>i, <1>u, <1>r, <1>s, <1>o, <1>p, <1>d DEF Placed, Asked, Acking, Answered, Preparing,
     TellCommit, Telling, Told, Collecting, Gathered, TellRoll, Claimed
<1>5. OneToken'
  BY <1>i, <1>u, <1>r, <1>s, <1>o, <1>a, <1>d DEF OneToken, TellRec, Asking
<1>6. Recovers'
  BY <1>i, <1>u, <1>r, <1>s, <1>o, <1>p, <1>a, <1>e, <1>j, <1>d DEF Recovers, TellRec, Recovery,
     Quiet, Asked, Acking, Answered, Preparing, Claimed, Asking
<1>7. BranchS'
  BY <1>i, <1>u, <1>r, <1>s, <1>o, <1>p, <1>e, <1>j, <1>d DEF BranchS, Asked, Acking, Telling,
     Told, Collecting, Recovery, TellRec, Asking, Gathered, TellCommit, TellRoll, Claimed
<1>8. Claims'
  BY <1>i, <1>u, <1>e, <1>j, <1>d, <1>o, <1>s DEF Claims, Claimed, Hold
<1>9. BranchR'
  BY <1>i, <1>u, <1>r, <1>s, <1>o, <1>p, <1>d DEF BranchR, Asked, Acking, Answered, Preparing,
     Gathered, Dec, Claimed
<1>10. Apart'
  BY <1>i, <1>u, <1>r DEF Apart, Gathered, Active
<1>11. Same'
  BY <1>i, <1>u, <1>r, <1>s, <1>o, <1>e, <1>j, <1>d DEF Same, Asked, Acking, Gathered, Claimed
<1>12. Agreed'
  BY <1>i, <1>u, <1>r, <1>s, <1>o, <1>p, <1>e, <1>j, <1>d DEF Agreed, Preparing, TellCommit,
     TellRoll, Dec, Bound
<1>13. NoDuplicate'
  BY <1>i, <1>u DEF NoDuplicate
<1>14. NothingLost'
  BY <1>i, <1>u, <1>j DEF NothingLost
<1>15. DecidedIsHeld'
  BY <1>i, <1>u, <1>e, <1>j DEF DecidedIsHeld
<1>16. Starting'
  BY <1>i, <1>u, <1>r, <1>s, <1>o, <1>p, <1>a, <1>e, <1>j, <1>d DEF Starting, Asked, Acking,
     Claimed
<1>17. Deciding'
  BY <1>i, <1>u, <1>r, <1>s, <1>o, <1>p, <1>a, <1>e, <1>j, <1>d DEF Deciding, Answered,
     Preparing
<1>18. Resuming'
  BY <1>i, <1>u, <1>o, <1>a, <1>d DEF Resuming
<1> QED
  BY <1>1, <1>2, <1>3, <1>4, <1>5, <1>6, <1>7, <1>8, <1>9, <1>10, <1>11, <1>12, <1>13, <1>14,
     <1>15, <1>16, <1>17, <1>18, <1>r, <1>s DEF ForwardInv

(* The sending server stops: only prepared branches are left.              *)
LEMMA SenderCrashKeeps ==
  ASSUME ForwardInv, SenderCrash
  PROVE  ForwardInv'
<1>i. /\ Typed /\ OnceR /\ OnceS /\ LinkPlaced /\ Numbered /\ Placed /\ OneToken
      /\ Recovers /\ BranchS /\ Claims /\ BranchR /\ Apart /\ Same /\ Agreed
      /\ NoDuplicate /\ NothingLost /\ DecidedIsHeld /\ Starting /\ Deciding /\ Resuming
  BY DEF ForwardInv
<1>u. /\ s2r' = s2r /\ sMsgs' = sMsgs /\ rUp' = rUp /\ rConn' = rConn /\ rBranch' = rBranch
      /\ rMsgs' = rMsgs /\ receiverXA' = receiverXA /\ commits' = commits
      /\ currentXA' = currentXA /\ xaList' = xaList
      /\ puts' = puts /\ rOps' = rOps /\ seqn' = seqn /\ received' = received
  BY DEF SenderCrash, receiverVars
<1>r. /\ \A u, k : RLetter(u, k)' <=> RLetter(u, k)
      /\ \A k : Confirmed(k)' <=> Confirmed(k)
      /\ OnceR' /\ s2r' \in Seq(ToR)
  BY <1>i, <1>u, RSame DEF Typed
<1>p. \A o, k : ROp(o, k)' <=> ROp(o, k)
  BY <1>u, ROpSame
<1>a. /\ faults < MaxFaults /\ faults' = faults + 1 /\ RequeueUnprepared /\ linkUp' = FALSE
      /\ senderXA' = {g \in Gtrids : sBranch[g] = "prepared"} /\ sOps' = {} /\ r2s' = <<>>
      /\ sConn' = "closed" /\ recoveryList' = {} /\ started' = FALSE /\ preparedXA' = 0
      /\ suspended' = FALSE
  BY DEF SenderCrash
<1>f. faults' \in 0..MaxFaults
  BY <1>i, <1>a, FaultsBounded DEF Typed
<1>e. /\ \A g \in Gtrids : sBranch'[g] = IF sBranch[g] = "prepared" THEN "prepared" ELSE "none"
      /\ \A m \in Msgs : where'[m] = IF \/ where[m] \in {"absent", "gone"}
                                        \/ \E g \in Gtrids : sBranch[g] = "prepared" /\ m \in sMsgs[g]
                                     THEN where[m] ELSE "queued"
      /\ sBranch' \in [Gtrids -> {"none", "inflight", "prepared"}]
      /\ where' \in [Msgs -> {"absent", "queued", "sent", "acked", "gone"}]
  BY <1>i, <1>a, Requeued
<1>j. \A m \in Msgs : /\ where'[m] = "gone" <=> where[m] = "gone"
                      /\ (\E g \in Gtrids : sBranch[g] = "prepared" /\ m \in sMsgs[g])
                           => where'[m] = "acked"
  BY <1>i, <1>e DEF Claims, Hold
<1>s. /\ \A u, k : ~SLetter(u, k)'
      /\ \A k, n : ~Named(k, n)'
      /\ ~ConnRep' /\ OnceS' /\ r2s' \in Seq(ToS)
  BY SNone, <1>a
<1>o. \A o, k : ~SOp(o, k)'
  BY <1>a DEF SOp
<1>1. Typed'
  BY <1>i, <1>u, <1>r, <1>a, <1>f, <1>e, <1>j, <1>s DEF Typed, TypeOK
<1>2. LinkPlaced'
  BY <1>i, <1>u, <1>r, <1>p, <1>a, <1>e, <1>j, <1>s DEF LinkPlaced, Preparing
<1>3. Numbered'
  BY <1>i, <1>u, <1>r, <1>p, <1>a, <1>e, <1>j, <1>s, <1>o DEF Numbered, Asked, Acking, Answered,
     Preparing, Telling, Told, Collecting, Flowing, Gathered, TellCommit, TellRoll, Claimed
<1>4. Placed'
  BY <1>i, <1>u, <1>r, <1>p, <1>s, <1>o DEF Placed, Asked, Acking, Answered, Preparing,
     TellCommit, Telling, Told, Collecting, Gathered, TellRoll, Claimed
<1>5. OneToken'
  BY <1>i, <1>u, <1>r, <1>a, <1>s, <1>o DEF OneToken, TellRec, Asking
<1>6. Recovers'
  BY <1>i, <1>u, <1>r, <1>p, <1>a, <1>e, <1>j, <1>s, <1>o DEF Recovers, TellRec, Recovery,
     Quiet, Asked, Acking, Answered, Preparing, Claimed, Asking
<1>7. BranchS'
  BY <1>i, <1>u, <1>r, <1>p, <1>a, <1>e, <1>j, <1>s, <1>o DEF BranchS, Asked, Acking, Telling,
     Told, Collecting, Recovery, TellRec, Asking, Gathered, TellCommit, TellRoll, Claimed
<1>8. Claims'
  BY <1>i, <1>u, <1>e, <1>j, <1>o, <1>s DEF Claims, Claimed, Hold
<1>9. BranchR'
  BY <1>i, <1>u, <1>r, <1>p, <1>s, <1>o DEF BranchR, Asked, Acking, Answered, Preparing,
     Gathered, Dec, Claimed
<1>10. Apart'
  BY <1>i, <1>u, <1>r DEF Apart, Gathered, Active
<1>11. Same'
  BY <1>i, <1>u, <1>r, <1>a, <1>e, <1>j, <1>s, <1>o DEF Same, Asked, Acking, Gathered, Claimed
<1>12. Agreed'
  BY <1>i, <1>u, <1>r, <1>p, <1>a, <1>e, <1>j, <1>s, <1>o DEF Agreed, Preparing, TellCommit,
     TellRoll, Dec, Bound
<1>13. NoDuplicate'
  BY <1>i, <1>u DEF NoDuplicate
<1>14. NothingLost'
  BY <1>i, <1>u, <1>j DEF NothingLost
<1>15. DecidedIsHeld'
  BY <1>i, <1>u, <1>e, <1>j DEF DecidedIsHeld
<1>16. Starting'
  BY <1>i, <1>u, <1>r, <1>p, <1>a, <1>e, <1>j, <1>s, <1>o DEF Starting, Asked, Acking, Claimed
<1>17. Deciding'
  BY <1>i, <1>u, <1>r, <1>p, <1>a, <1>e, <1>j, <1>s, <1>o DEF Deciding, Answered, Preparing
<1>18. Resuming'
  BY <1>i, <1>u, <1>a, <1>o DEF Resuming
<1> QED
  BY <1>1, <1>2, <1>3, <1>4, <1>5, <1>6, <1>7, <1>8, <1>9, <1>10, <1>11, <1>12, <1>13, <1>14,
     <1>15, <1>16, <1>17, <1>18, <1>r, <1>s DEF ForwardInv

(* The receiver refuses a connection.                                      *)
LEMMA RejectConnectKeeps ==
  ASSUME ForwardInv, RejectConnect
  PROVE  ForwardInv'
<1>i. /\ Typed /\ OnceR /\ OnceS /\ LinkPlaced /\ Numbered /\ Placed /\ OneToken
      /\ Recovers /\ BranchS /\ Claims /\ BranchR /\ Apart /\ Same /\ Agreed
      /\ NoDuplicate /\ NothingLost /\ DecidedIsHeld /\ Starting /\ Deciding /\ Resuming
  BY DEF ForwardInv
<1>u. /\ r2s' = r2s /\ where' = where /\ sBranch' = sBranch /\ sMsgs' = sMsgs
      /\ senderXA' = senderXA
      /\ recoveryList' = recoveryList /\ started' = started /\ sOps' = sOps
      /\ preparedXA' = preparedXA /\ suspended' = suspended
      /\ rUp' = rUp /\ rBranch' = rBranch /\ rMsgs' = rMsgs /\ receiverXA' = receiverXA
      /\ commits' = commits
      /\ currentXA' = currentXA /\ xaList' = xaList /\ puts' = puts /\ rOps' = rOps /\ seqn' = seqn
      /\ received' = received /\ faults' = faults
  BY DEF RejectConnect
<1>s. /\ \A u, k : SLetter(u, k)' <=> SLetter(u, k)
      /\ \A k, n : Named(k, n)' <=> Named(k, n)
      /\ ConnRep' <=> ConnRep
      /\ OnceS' /\ r2s' \in Seq(ToS)
  BY <1>i, <1>u, SSame DEF Typed
<1>o. \A o, k : SOp(o, k)' <=> SOp(o, k)
  BY <1>u, SOpSame
<1>p. \A o, k : ROp(o, k)' <=> ROp(o, k)
  BY <1>u, ROpSame
<1>a. /\ sConn = "connecting" /\ rConn # "closed" /\ rConn' = "closing" /\ s2r' = <<>>
      /\ linkUp' = FALSE /\ sConn' = "closing"
  BY DEF RejectConnect
<1>r. /\ \A u, k : ~RLetter(u, k)'
      /\ \A k : ~Confirmed(k)'
      /\ OnceR' /\ s2r' \in Seq(ToR)
  BY RNone, <1>a
<1>d. /\ r2s = <<>> /\ \A u, k : ~SLetter(u, k)
      /\ ~ConnRep /\ \A o, k : ~SOp(o, k)
  <2>1. r2s = <<>> /\ sOps = {}
    BY <1>i, <1>a DEF LinkPlaced
  <2> QED BY <2>1, SEmpty DEF SOp
<1>1. Typed'
  BY <1>i, <1>u, <1>s, <1>a, <1>r, <1>d DEF Typed, TypeOK
<1>2. LinkPlaced'
  BY <1>i, <1>u, <1>s, <1>p, <1>a, <1>r, <1>d DEF LinkPlaced, Preparing
<1>3. Numbered'
  BY <1>i, <1>u, <1>s, <1>o, <1>p, <1>a, <1>r, <1>d DEF Numbered, Asked, Acking, Answered,
     Preparing, Telling, Told, Collecting, Flowing, Gathered, TellCommit, TellRoll, Claimed
<1>4. Placed'
  BY <1>i, <1>u, <1>s, <1>o, <1>p, <1>r, <1>d DEF Placed, Asked, Acking, Answered, Preparing,
     TellCommit, Telling, Told, Collecting, Gathered, TellRoll, Claimed
<1>5. OneToken'
  BY <1>i, <1>u, <1>s, <1>o, <1>a, <1>r, <1>d DEF OneToken, TellRec, Asking
<1>6. Recovers'
  BY <1>i, <1>u, <1>s, <1>o, <1>p, <1>a, <1>r, <1>d DEF Recovers, TellRec, Recovery, Quiet,
     Asked, Acking, Answered, Preparing, Claimed, Asking
<1>7. BranchS'
  BY <1>i, <1>u, <1>s, <1>o, <1>p, <1>a, <1>r, <1>d DEF BranchS, Asked, Acking, Telling, Told,
     Collecting, Recovery, TellRec, Asking, Gathered, TellCommit, TellRoll, Claimed
<1>8. Claims'
  BY <1>i, <1>u, <1>s, <1>o, <1>d DEF Claims, Claimed, Hold
<1>9. BranchR'
  BY <1>i, <1>u, <1>s, <1>o, <1>p, <1>r, <1>d DEF BranchR, Asked, Acking, Answered, Preparing,
     Gathered, Dec, Claimed
<1>10. Apart'
  BY <1>i, <1>u, <1>r DEF Apart, Gathered, Active
<1>11. Same'
  BY <1>i, <1>u, <1>s, <1>o, <1>a, <1>r, <1>d DEF Same, Asked, Acking, Gathered, Claimed
<1>12. Agreed'
  BY <1>i, <1>u, <1>s, <1>o, <1>p, <1>r, <1>d DEF Agreed, Preparing, TellCommit, TellRoll, Dec,
     Bound
<1>13. NoDuplicate'
  BY <1>i, <1>u DEF NoDuplicate
<1>14. NothingLost'
  BY <1>i, <1>u DEF NothingLost
<1>15. DecidedIsHeld'
  BY <1>i, <1>u DEF DecidedIsHeld
<1>16. Starting'
  BY <1>i, <1>u, <1>s, <1>o, <1>p, <1>a, <1>r, <1>d DEF Starting, Asked, Acking, Claimed
<1>17. Deciding'
  BY <1>i, <1>u, <1>s, <1>o, <1>p, <1>a, <1>r, <1>d DEF Deciding, Answered, Preparing
<1>18. Resuming'
  BY <1>i, <1>u, <1>o, <1>a, <1>d DEF Resuming
<1> QED
  BY <1>1, <1>2, <1>3, <1>4, <1>5, <1>6, <1>7, <1>8, <1>9, <1>10, <1>11, <1>12, <1>13, <1>14,
     <1>15, <1>16, <1>17, <1>18, <1>r, <1>s DEF ForwardInv

(* The receiver accepts a connection of a sender that must recover.        *)
LEMMA AcceptRecovers ==
  ASSUME ForwardInv, sConn = "connecting", rConn = "closed", rUp,
         sConn' = "open", rConn' = "open", linkUp' = TRUE, s2r' = <<>>,
         NEW b \in BOOLEAN, r2s' = <<[t |-> "ConnectReply", auto |-> b]>>,
         UNCHANGED <<where, sBranch, sMsgs, senderXA, recoveryList, started, sOps,
                     preparedXA, suspended, rUp, xaList, puts, rOps, received, faults,
                     seqn, receiverXA, commits, currentXA, rBranch, rMsgs>>
  PROVE  ForwardInv'
<1>i. /\ Typed /\ OnceR /\ OnceS /\ LinkPlaced /\ Numbered /\ Placed /\ OneToken
      /\ Recovers /\ BranchS /\ Claims /\ BranchR /\ Apart /\ Same /\ Agreed
      /\ NoDuplicate /\ NothingLost /\ DecidedIsHeld /\ Starting /\ Deciding /\ Resuming
  BY DEF ForwardInv
<1>u. /\ where' = where /\ sBranch' = sBranch /\ sMsgs' = sMsgs /\ senderXA' = senderXA
      /\ recoveryList' = recoveryList
      /\ started' = started /\ sOps' = sOps /\ preparedXA' = preparedXA
      /\ suspended' = suspended /\ rUp' = rUp
      /\ rBranch' = rBranch /\ rMsgs' = rMsgs /\ receiverXA' = receiverXA /\ commits' = commits
      /\ currentXA' = currentXA
      /\ xaList' = xaList /\ puts' = puts /\ rOps' = rOps /\ seqn' = seqn /\ received' = received
      /\ faults' = faults
  BY DEF link
<1>o. \A o, k : SOp(o, k)' <=> SOp(o, k)
  BY <1>u, SOpSame
<1>p. \A o, k : ROp(o, k)' <=> ROp(o, k)
  BY <1>u, ROpSame
<1>a. /\ sConn' = "open" /\ rConn' = "open" /\ linkUp' = TRUE /\ s2r' = <<>> /\ rUp
  OBVIOUS
<1>r. /\ \A u, k : ~RLetter(u, k)'
      /\ \A k : ~Confirmed(k)'
      /\ OnceR' /\ s2r' \in Seq(ToR)
  BY RNone, <1>a
<1>s. /\ \A k : /\ ~SLetter("Start", k)' /\ ~SLetter("Prepare", k)' /\ ~SLetter("Commit", k)'
               /\ ~SLetter("CommitRecover", k)' /\ ~SLetter("RollRecover", k)'
      /\ \A k, n : ~Named(k, n)'
      /\ ConnRep' /\ OnceS' /\ r2s' \in Seq(ToS)
  BY SFirst
<1>d. /\ sOps = {} /\ \A o, k : ~SOp(o, k)
      /\ ~started /\ recoveryList = {} /\ puts = {} /\ xaList = {} /\ currentXA = NoXA
      /\ \A k \in Gtrids : /\ ~ROp("create", k) /\ ~Preparing(k) /\ ~ROp("commit", k)
                           /\ rBranch[k] \notin {"inflight", "prepared"} /\ sBranch[k] # "inflight"
  BY <1>i DEF LinkPlaced, SOp
<1>1. Typed'
  BY <1>i, <1>u, <1>a, <1>r, <1>s, <1>d DEF Typed, TypeOK
<1>2. LinkPlaced'
  BY <1>i, <1>u, <1>p, <1>a, <1>r, <1>s, <1>d DEF LinkPlaced, Preparing
<1>3. Numbered'
  BY <1>i, <1>u, <1>o, <1>p, <1>a, <1>r, <1>s, <1>d DEF Numbered, Asked, Acking, Answered,
     Preparing, Telling, Told, Collecting, Flowing, Gathered, TellCommit, TellRoll, Claimed
<1>4. Placed'
  BY <1>i, <1>u, <1>o, <1>p, <1>r, <1>s, <1>d DEF Placed, Asked, Acking, Answered, Preparing,
     TellCommit, Telling, Told, Collecting, Gathered, TellRoll, Claimed
<1>5. OneToken'
  BY <1>i, <1>u, <1>o, <1>a, <1>r, <1>s, <1>d DEF OneToken, TellRec, Asking
<1>6. Recovers'
  BY <1>i, <1>u, <1>o, <1>p, <1>a, <1>r, <1>s, <1>d DEF Recovers, TellRec, Recovery, Quiet,
     Asked, Acking, Answered, Preparing, Claimed, Asking
<1>7. BranchS'
  BY <1>i, <1>u, <1>o, <1>p, <1>a, <1>r, <1>s, <1>d DEF BranchS, Asked, Acking, Telling, Told,
     Collecting, Recovery, TellRec, Asking, Gathered, TellCommit, TellRoll, Claimed
<1>8. Claims'
  BY <1>i, <1>u, <1>o, <1>s, <1>d DEF Claims, Claimed, Hold
<1>9. BranchR'
  BY <1>i, <1>u, <1>o, <1>p, <1>r, <1>s, <1>d DEF BranchR, Asked, Acking, Answered, Preparing,
     Gathered, Dec, Claimed
<1>10. Apart'
  BY <1>i, <1>u, <1>r, <1>d DEF Apart, Gathered, Active
<1>11. Same'
  BY <1>i, <1>u, <1>o, <1>a, <1>r, <1>s, <1>d, GtridsNat DEF Same, Asked, Acking, Gathered,
     Claimed
<1>12. Agreed'
  BY <1>i, <1>u, <1>o, <1>p, <1>a, <1>r, <1>s, <1>d DEF Agreed, Preparing, TellCommit, TellRoll,
     Dec, Bound
<1>13. NoDuplicate'
  BY <1>i, <1>u DEF NoDuplicate
<1>14. NothingLost'
  BY <1>i, <1>u, <1>d DEF NothingLost
<1>15. DecidedIsHeld'
  BY <1>i, <1>u, <1>d DEF DecidedIsHeld
<1>16. Starting'
  BY <1>i, <1>u, <1>o, <1>p, <1>a, <1>r, <1>s, <1>d DEF Starting, Asked, Acking, Claimed
<1>17. Deciding'
  BY <1>i, <1>u, <1>o, <1>p, <1>a, <1>r, <1>s, <1>d DEF Deciding, Answered, Preparing
<1>18. Resuming'
  BY <1>i, <1>u, <1>o, <1>a, <1>d DEF Resuming
<1> QED
  BY <1>1, <1>2, <1>3, <1>4, <1>5, <1>6, <1>7, <1>8, <1>9, <1>10, <1>11, <1>12, <1>13, <1>14,
     <1>15, <1>16, <1>17, <1>18, <1>r, <1>s DEF ForwardInv

(* The receiver accepts a connection and starts it at once.                *)
LEMMA AcceptStarts ==
  ASSUME ForwardInv, sConn = "connecting", rConn = "closed", rUp,
         sConn' = "open", rConn' = "open", linkUp' = TRUE, s2r' = <<>>,
         NEW b \in BOOLEAN, r2s' = <<[t |-> "ConnectReply", auto |-> b]>>,
         NEW g \in Gtrids, NewXA(g, receiverXA, commits), currentXA' = g,
         rBranch' = [rBranch EXCEPT ![g] = "inflight"], rMsgs' = [rMsgs EXCEPT ![g] = {}],
         UNCHANGED <<where, sBranch, sMsgs, senderXA, recoveryList, started, sOps,
                     preparedXA, suspended, rUp, xaList, puts, rOps, received, faults>>
  PROVE  ForwardInv'
<1>i. /\ Typed /\ OnceR /\ OnceS /\ LinkPlaced /\ Numbered /\ Placed /\ OneToken
      /\ Recovers /\ BranchS /\ Claims /\ BranchR /\ Apart /\ Same /\ Agreed
      /\ NoDuplicate /\ NothingLost /\ DecidedIsHeld /\ Starting /\ Deciding /\ Resuming
  BY DEF ForwardInv
<1>u. /\ where' = where /\ sBranch' = sBranch /\ sMsgs' = sMsgs /\ senderXA' = senderXA
      /\ recoveryList' = recoveryList
      /\ started' = started /\ sOps' = sOps /\ preparedXA' = preparedXA
      /\ suspended' = suspended /\ rUp' = rUp
      /\ xaList' = xaList /\ puts' = puts /\ rOps' = rOps /\ received' = received
      /\ faults' = faults
  OBVIOUS
<1>o. \A o, k : SOp(o, k)' <=> SOp(o, k)
  BY <1>u, SOpSame
<1>p. \A o, k : ROp(o, k)' <=> ROp(o, k)
  BY <1>u, ROpSame
<1>a. /\ sConn' = "open" /\ rConn' = "open" /\ linkUp' = TRUE /\ s2r' = <<>> /\ rUp
  OBVIOUS
<1>r. /\ \A u, k : ~RLetter(u, k)'
      /\ \A k : ~Confirmed(k)'
      /\ OnceR' /\ s2r' \in Seq(ToR)
  BY RNone, <1>a
<1>s. /\ \A k : /\ ~SLetter("Start", k)' /\ ~SLetter("Prepare", k)' /\ ~SLetter("Commit", k)'
               /\ ~SLetter("CommitRecover", k)' /\ ~SLetter("RollRecover", k)'
      /\ \A k, n : ~Named(k, n)'
      /\ ConnRep' /\ OnceS' /\ r2s' \in Seq(ToS)
  BY SFirst
<1>d. /\ sOps = {} /\ \A o, k : ~SOp(o, k)
      /\ ~started /\ recoveryList = {} /\ puts = {} /\ xaList = {} /\ currentXA = NoXA
      /\ \A k \in Gtrids : /\ ~ROp("create", k) /\ ~Preparing(k) /\ ~ROp("commit", k)
                           /\ rBranch[k] \notin {"inflight", "prepared"} /\ sBranch[k] # "inflight"
  BY <1>i DEF LinkPlaced, SOp
<1>e. /\ g = seqn + 1 /\ seqn' = g /\ currentXA' = g /\ seqn \in Nat
      /\ \A k \in Gtrids : /\ rBranch'[k] = IF k = g THEN "inflight" ELSE rBranch[k]
                           /\ rMsgs'[k] = IF k = g THEN {} ELSE rMsgs[k]
                           /\ receiverXA'[k] = IF k = g THEN "linked" ELSE receiverXA[k]
                           /\ commits'[k] = IF k = g THEN 0 ELSE commits[k]
  BY <1>i DEF NewXA, Typed, TypeOK
<1>f. /\ rBranch[g] = "none" /\ receiverXA[g] = "no" /\ ~Collecting(g)
      /\ ~ROp("commit", g) /\ ~ROp("recoverCommit", g)
  BY <1>i, <1>a, <1>e, GtridsNat DEF Numbered
<1>g. \A k \in Gtrids : k > seqn' => k > seqn
  BY <1>e, GtridsNat
<1>h. /\ rMsgs' \in [Gtrids -> SUBSET Msgs] /\ commits' \in [Gtrids -> 0..2]
      /\ receiverXA' \in [Gtrids -> {"no", "linked", "prepared"}]
  BY <1>i DEF Typed, TypeOK, NewXA
<1>1. Typed'
  BY <1>i, <1>u, <1>a, <1>r, <1>s, <1>d, <1>e, <1>f, <1>g, <1>h DEF Typed, TypeOK
<1>2. LinkPlaced'
  BY <1>i, <1>u, <1>p, <1>a, <1>r, <1>s, <1>d, <1>e, <1>f, <1>h DEF LinkPlaced, Preparing
<1>3. Numbered'
  BY <1>i, <1>u, <1>o, <1>p, <1>a, <1>r, <1>s, <1>d, <1>e, <1>f, <1>g, <1>h, GtridsNat DEF
     Numbered, Asked, Acking, Answered, Preparing, Telling, Told, Collecting, Flowing, Gathered,
     TellCommit, TellRoll, Claimed
<1>4. Placed'
  BY <1>i, <1>u, <1>o, <1>p, <1>r, <1>s, <1>d, <1>e, <1>f, <1>h DEF Placed, Asked, Acking,
     Answered, Preparing, TellCommit, Telling, Told, Collecting, Gathered, TellRoll, Claimed
<1>5. OneToken'
  BY <1>i, <1>u, <1>o, <1>a, <1>r, <1>s, <1>d DEF OneToken, TellRec, Asking
<1>6. Recovers'
  BY <1>i, <1>u, <1>o, <1>p, <1>a, <1>r, <1>s, <1>d, <1>e, <1>f, <1>h, GtridsNat DEF Recovers,
     TellRec, Recovery, Quiet, Asked, Acking, Answered, Preparing, Claimed, Asking
<1>7. BranchS'
  BY <1>i, <1>u, <1>o, <1>p, <1>a, <1>r, <1>s, <1>d, <1>e, <1>f DEF BranchS, Asked, Acking,
     Telling, Told, Collecting, Recovery, TellRec, Asking, Gathered, TellCommit, TellRoll,
     Claimed
<1>8. Claims'
  BY <1>i, <1>u, <1>s, <1>o, <1>d DEF Claims, Claimed, Hold
<1>9. BranchR'
  BY <1>i, <1>u, <1>o, <1>p, <1>r, <1>s, <1>d, <1>e, <1>f, <1>h DEF BranchR, Asked, Acking,
     Answered, Preparing, Gathered, Dec, Claimed
<1>10. Apart'
  BY <1>i, <1>u, <1>r, <1>d, <1>e, <1>f, <1>h DEF Apart, Gathered, Active
<1>11. Same'
  BY <1>i, <1>u, <1>o, <1>a, <1>r, <1>s, <1>d, <1>e, <1>f, <1>h DEF Same, Asked, Acking,
     Gathered, Claimed
<1>12. Agreed'
  <2>1. \A k \in Gtrids : /\ ~Preparing(k)' /\ ~Confirmed(k)' /\ ~ROp("commit", k)'
                          /\ ~TellCommit(k)' /\ ~TellRoll(k)'
    BY <1>o, <1>p, <1>r, <1>s, <1>d DEF Preparing, TellCommit, TellRoll
  <2>2. ~Dec(g) /\ ~Dec(g)'
    BY <1>e, <1>f DEF Dec
  <2>3. \A k \in Gtrids : k # g => /\ rBranch'[k] = rBranch[k] /\ (Dec(k)' <=> Dec(k))
                                   /\ rMsgs'[k] = rMsgs[k] /\ receiverXA'[k] = receiverXA[k]
    BY <1>e DEF Dec
  <2>4. \A k \in Gtrids : rBranch'[k] \in Bound => k # g /\ rBranch[k] \in Bound
    BY <1>e DEF Bound
  <2> QED BY <1>i, <1>u, <2>1, <2>2, <2>3, <2>4 DEF Agreed
<1>13. NoDuplicate'
  BY <1>i, <1>u DEF NoDuplicate
<1>14. NothingLost'
  BY <1>i, <1>u, <1>d, <1>e, <1>f, <1>h DEF NothingLost
<1>15. DecidedIsHeld'
  BY <1>i, <1>u, <1>d, <1>e, <1>f, <1>h DEF DecidedIsHeld
<1>16. Starting'
  BY <1>i, <1>u, <1>o, <1>p, <1>a, <1>r, <1>s, <1>d, <1>e, <1>f, <1>h DEF Starting, Asked,
     Acking, Claimed
<1>17. Deciding'
  BY <1>i, <1>u, <1>o, <1>p, <1>a, <1>r, <1>s, <1>d, <1>f DEF Deciding, Answered, Preparing
<1>18. Resuming'
  BY <1>i, <1>u, <1>o, <1>a, <1>d DEF Resuming
<1> QED
  BY <1>1, <1>2, <1>3, <1>4, <1>5, <1>6, <1>7, <1>8, <1>9, <1>10, <1>11, <1>12, <1>13, <1>14,
     <1>15, <1>16, <1>17, <1>18, <1>r, <1>s DEF ForwardInv

(* The receiver accepts a connection, in both cases.                       *)
LEMMA AcceptConnectKeeps ==
  ASSUME ForwardInv, AcceptConnect, ~early'
  PROVE  ForwardInv'
<1>u. rUp
  BY DEF AcceptConnect
<1>1. PICK reverse \in BOOLEAN :
         IF ~reverse /\ \A g \in Gtrids : receiverXA[g] = "no"
         THEN \E g \in Gtrids :
                /\ NewXA(g, receiverXA, commits)
                /\ currentXA' = g
                /\ rBranch' = [rBranch EXCEPT ![g] = "inflight"]
                /\ rMsgs' = [rMsgs EXCEPT ![g] = {}]
                /\ r2s' = <<[t |-> "ConnectReply", auto |-> TRUE]>>
         ELSE /\ r2s' = <<[t |-> "ConnectReply", auto |-> FALSE]>>
              /\ UNCHANGED <<seqn, receiverXA, commits, currentXA, rBranch, rMsgs>>
  BY DEF AcceptConnect
<1>2. CASE ~reverse /\ \A g \in Gtrids : receiverXA[g] = "no"
  <2>1. PICK g \in Gtrids :
                /\ NewXA(g, receiverXA, commits)
                /\ currentXA' = g
                /\ rBranch' = [rBranch EXCEPT ![g] = "inflight"]
                /\ rMsgs' = [rMsgs EXCEPT ![g] = {}]
                /\ r2s' = <<[t |-> "ConnectReply", auto |-> TRUE]>>
    BY <1>1, <1>2
  <2> QED BY <1>u, <2>1, AcceptStarts DEF AcceptConnect
<1>3. CASE ~(~reverse /\ \A g \in Gtrids : receiverXA[g] = "no")
  <2>1. /\ r2s' = <<[t |-> "ConnectReply", auto |-> FALSE]>>
        /\ UNCHANGED <<seqn, receiverXA, commits, currentXA, rBranch, rMsgs>>
    BY <1>1, <1>3
  <2> QED BY <1>u, <2>1, AcceptRecovers DEF AcceptConnect
<1> QED BY <1>2, <1>3

(* The receiver's end is closed: branches in flight are rolled back.       *)
LEMMA RClosedKeeps ==
  ASSUME ForwardInv, RClosed
  PROVE  ForwardInv'
<1>i. /\ Typed /\ OnceR /\ OnceS /\ LinkPlaced /\ Numbered /\ Placed /\ OneToken
      /\ Recovers /\ BranchS /\ Claims /\ BranchR /\ Apart /\ Same /\ Agreed
      /\ NoDuplicate /\ NothingLost /\ DecidedIsHeld /\ Starting /\ Deciding /\ Resuming
  BY DEF ForwardInv
<1>u. /\ s2r' = s2r /\ r2s' = r2s /\ linkUp' = linkUp /\ where' = where /\ sBranch' = sBranch
      /\ sMsgs' = sMsgs /\ senderXA' = senderXA /\ recoveryList' = recoveryList
      /\ sConn' = sConn /\ started' = started
      /\ sOps' = sOps /\ preparedXA' = preparedXA /\ suspended' = suspended /\ rUp' = rUp
      /\ rMsgs' = rMsgs
      /\ commits' = commits /\ puts' = puts /\ rOps' = rOps /\ seqn' = seqn /\ received' = received
      /\ faults' = faults
  BY DEF RClosed, link, senderVars
<1>r. /\ \A u, k : RLetter(u, k)' <=> RLetter(u, k)
      /\ \A k : Confirmed(k)' <=> Confirmed(k)
      /\ OnceR' /\ s2r' \in Seq(ToR)
  BY <1>i, <1>u, RSame DEF Typed
<1>s. /\ \A u, k : SLetter(u, k)' <=> SLetter(u, k)
      /\ \A k, n : Named(k, n)' <=> Named(k, n)
      /\ ConnRep' <=> ConnRep
      /\ OnceS' /\ r2s' \in Seq(ToS)
  BY <1>i, <1>u, SSame DEF Typed
<1>o. \A o, k : SOp(o, k)' <=> SOp(o, k)
  BY <1>u, SOpSame
<1>p. \A o, k : ROp(o, k)' <=> ROp(o, k)
  BY <1>u, ROpSame
<1>a. /\ rConn = "closing" /\ ~InProgress /\ rConn' = "closed" /\ currentXA' = NoXA /\ xaList' = {}
  BY DEF RClosed
<1>d. /\ s2r = <<>> /\ ~linkUp /\ puts = {} /\ rUp /\ \A u, k : ~RLetter(u, k)
      /\ \A k : ~Confirmed(k)
      /\ \A k \in Gtrids : ~ROp("create", k) /\ ~Preparing(k) /\ ~ROp("commit", k)
  <2>1. s2r = <<>> /\ ~linkUp /\ rUp
    BY <1>i, <1>a DEF LinkPlaced
  <2>2. puts = {} /\ \A k \in Gtrids : ~ROp("create", k) /\ ~ROp("prepare", k) /\ ~ROp("commit", k)
    BY <1>a DEF InProgress, ROp, Op
  <2> QED BY <2>1, <2>2, REmpty DEF Preparing
<1>e. /\ \A k \in Gtrids :
           /\ rBranch'[k] = IF rBranch[k] = "inflight" THEN "none" ELSE rBranch[k]
           /\ receiverXA'[k] = IF Gathered(k) THEN "no" ELSE receiverXA[k]
      /\ receiverXA' \in [Gtrids -> {"no", "linked", "prepared"}]
      /\ rBranch' \in [Gtrids -> {"none", "inflight", "prepared", "committing", "heuristic",
                                  "forgetting"}]
  BY <1>i DEF RClosed, CleanUnlinks, Gathered, Typed, TypeOK
<1>1. Typed'
  BY <1>i, <1>u, <1>r, <1>s, <1>a, <1>d, <1>e, GtridsNat DEF Typed, TypeOK
<1>2. LinkPlaced'
  BY <1>i, <1>u, <1>r, <1>s, <1>p, <1>a, <1>d, <1>e, GtridsNat DEF LinkPlaced, Preparing
<1>3. Numbered'
  BY <1>i, <1>u, <1>r, <1>s, <1>o, <1>p, <1>a, <1>d, <1>e, GtridsNat DEF Numbered, Asked,
     Acking, Answered, Preparing, Telling, Told, Collecting, Flowing, Gathered, TellCommit,
     TellRoll, Claimed
<1>4. Placed'
  BY <1>i, <1>u, <1>r, <1>s, <1>o, <1>p, <1>a, <1>d, <1>e, GtridsNat DEF Placed, Asked, Acking,
     Answered, Preparing, TellCommit, Telling, Told, Collecting, Gathered, TellRoll, Claimed
<1>5. OneToken'
  BY <1>i, <1>u, <1>r, <1>s, <1>o, <1>d, GtridsNat DEF OneToken, TellRec, Asking
<1>6. Recovers'
  BY <1>i, <1>u, <1>r, <1>s, <1>o, <1>p, <1>a, <1>d, <1>e, GtridsNat DEF Recovers, TellRec,
     Recovery, Quiet, Asked, Acking, Answered, Preparing, Claimed, Asking
<1>7. BranchS'
  BY <1>i, <1>u, <1>r, <1>s, <1>o, <1>p, <1>a, <1>d, <1>e, GtridsNat DEF BranchS, Asked, Acking,
     Telling, Told, Collecting, Recovery, TellRec, Asking, Gathered, TellCommit, TellRoll,
     Claimed
<1>8. Claims'
  BY <1>i, <1>u, <1>r, <1>s, <1>o, <1>p, <1>a, <1>d, <1>e, GtridsNat DEF Claims, Claimed, Hold
<1>9. BranchR'
  BY <1>i, <1>u, <1>r, <1>s, <1>o, <1>p, <1>a, <1>d, <1>e, GtridsNat DEF BranchR, Asked, Acking,
     Answered, Preparing, Gathered, Dec, Claimed
<1>10. Apart'
  BY <1>i, <1>u, <1>r, <1>a, <1>d, <1>e, GtridsNat DEF Apart, Gathered, Active
<1>11. Same'
  BY <1>i, <1>u, <1>r, <1>s, <1>o, <1>a, <1>d, <1>e, GtridsNat DEF Same, Asked, Acking,
     Gathered, Claimed
<1>12. Agreed'
  BY <1>i, <1>u, <1>r, <1>s, <1>o, <1>p, <1>a, <1>d, <1>e, GtridsNat DEF Agreed, BranchR,
     Preparing, TellCommit, TellRoll, Dec, Bound, Asked, Acking, Answered, Gathered, Claimed
<1>13. NoDuplicate'
  BY <1>i, <1>u, GtridsNat DEF NoDuplicate
<1>14. NothingLost'
  BY <1>i, <1>u, <1>e, GtridsNat DEF NothingLost
<1>15. DecidedIsHeld'
  BY <1>i, <1>u, <1>e, GtridsNat DEF DecidedIsHeld
<1>16. Starting'
  BY <1>i, <1>u, <1>r, <1>s, <1>o, <1>p, <1>a, <1>d DEF Starting, Asked, Acking, Claimed
<1>17. Deciding'
  BY <1>i, <1>u, <1>r, <1>s, <1>o, <1>p, <1>d DEF Deciding, Answered, Preparing
<1>18. Resuming'
  BY <1>i, <1>u, <1>o DEF Resuming
<1> QED
  BY <1>1, <1>2, <1>3, <1>4, <1>5, <1>6, <1>7, <1>8, <1>9, <1>10, <1>11, <1>12, <1>13, <1>14,
     <1>15, <1>16, <1>17, <1>18, <1>r, <1>s DEF ForwardInv

(* The engine has forgotten a heuristic outcome.                           *)
LEMMA ForgetDoneKeeps ==
  ASSUME ForwardInv, NEW g \in Gtrids, ForgetDone(g)
  PROVE  ForwardInv'
<1>i. /\ Typed /\ OnceR /\ OnceS /\ LinkPlaced /\ Numbered /\ Placed /\ OneToken
      /\ Recovers /\ BranchS /\ Claims /\ BranchR /\ Apart /\ Same /\ Agreed
      /\ NoDuplicate /\ NothingLost /\ DecidedIsHeld /\ Starting /\ Deciding /\ Resuming
  BY DEF ForwardInv
<1>u. /\ s2r' = s2r /\ r2s' = r2s /\ linkUp' = linkUp /\ where' = where /\ sBranch' = sBranch
      /\ sMsgs' = sMsgs /\ senderXA' = senderXA /\ recoveryList' = recoveryList
      /\ sConn' = sConn /\ started' = started
      /\ sOps' = sOps /\ preparedXA' = preparedXA /\ suspended' = suspended /\ rUp' = rUp
      /\ rConn' = rConn
      /\ rMsgs' = rMsgs /\ receiverXA' = receiverXA /\ commits' = commits
      /\ currentXA' = currentXA /\ xaList' = xaList
      /\ puts' = puts /\ rOps' = rOps /\ seqn' = seqn /\ received' = received /\ faults' = faults
  BY DEF ForgetDone, link, senderVars
<1>r. /\ \A u, k : RLetter(u, k)' <=> RLetter(u, k)
      /\ \A k : Confirmed(k)' <=> Confirmed(k)
      /\ OnceR' /\ s2r' \in Seq(ToR)
  BY <1>i, <1>u, RSame DEF Typed
<1>s. /\ \A u, k : SLetter(u, k)' <=> SLetter(u, k)
      /\ \A k, n : Named(k, n)' <=> Named(k, n)
      /\ ConnRep' <=> ConnRep
      /\ OnceS' /\ r2s' \in Seq(ToS)
  BY <1>i, <1>u, SSame DEF Typed
<1>o. \A o, k : SOp(o, k)' <=> SOp(o, k)
  BY <1>u, SOpSame
<1>p. \A o, k : ROp(o, k)' <=> ROp(o, k)
  BY <1>u, ROpSame
<1>a. /\ rBranch[g] = "forgetting" /\ rBranch' = [rBranch EXCEPT ![g] = "none"]
  BY DEF ForgetDone
<1>e. /\ \A k \in Gtrids : rBranch'[k] = IF k = g THEN "none" ELSE rBranch[k]
      /\ rUp
  BY <1>i, <1>a DEF Typed, TypeOK, LinkPlaced
<1>1. Typed'
  BY <1>i, <1>u, <1>r, <1>s, <1>a, <1>e DEF Typed, TypeOK
<1>2. LinkPlaced'
  BY <1>i, <1>u, <1>r, <1>s, <1>p, <1>a, <1>e DEF LinkPlaced, Preparing
<1>3. Numbered'
  BY <1>i, <1>u, <1>r, <1>s, <1>o, <1>p, <1>a, <1>e DEF Numbered, Asked, Acking, Answered,
     Preparing, Telling, Told, Collecting, Flowing, Gathered, TellCommit, TellRoll, Claimed
<1>4. Placed'
  BY <1>i, <1>u, <1>r, <1>s, <1>o, <1>p, <1>a, <1>e DEF Placed, Asked, Acking, Answered,
     Preparing, TellCommit, Telling, Told, Collecting, Gathered, TellRoll, Claimed
<1>5. OneToken'
  BY <1>i, <1>u, <1>r, <1>s, <1>o DEF OneToken, TellRec, Asking
<1>6. Recovers'
  BY <1>i, <1>u, <1>r, <1>s, <1>o, <1>p, <1>a, <1>e DEF Recovers, TellRec, Recovery, Quiet,
     Asked, Acking, Answered, Preparing, Claimed, Asking
<1>7. BranchS'
  BY <1>i, <1>u, <1>r, <1>s, <1>o, <1>p DEF BranchS, Asked, Acking, Telling, Told, Collecting,
     Recovery, TellRec, Asking, Gathered, TellCommit, TellRoll, Claimed
<1>8. Claims'
  BY <1>i, <1>u, <1>s, <1>o DEF Claims, Claimed, Hold
<1>9. BranchR'
  BY <1>i, <1>u, <1>r, <1>s, <1>o, <1>p, <1>a, <1>e DEF BranchR, Asked, Acking, Answered,
     Preparing, Gathered, Dec, Claimed
<1>10. Apart'
  BY <1>i, <1>u, <1>r, <1>a, <1>e DEF Apart, Gathered, Active
<1>11. Same'
  BY <1>i, <1>u, <1>r, <1>s, <1>o, <1>a, <1>e DEF Same, Asked, Acking, Gathered, Claimed
<1>12. Agreed'
  BY <1>i, <1>u, <1>r, <1>s, <1>o, <1>p, <1>a, <1>e DEF Agreed, BranchR, Preparing, TellCommit,
     TellRoll, Dec, Bound, Asked, Acking, Answered, Gathered, Claimed
<1>13. NoDuplicate'
  BY <1>i, <1>u DEF NoDuplicate
<1>14. NothingLost'
  BY <1>i, <1>u, <1>a, <1>e DEF NothingLost
<1>15. DecidedIsHeld'
  BY <1>i, <1>u, <1>a, <1>e DEF DecidedIsHeld
<1>16. Starting'
  BY <1>i, <1>u, <1>r, <1>s, <1>o, <1>p DEF Starting, Asked, Acking, Claimed
<1>17. Deciding'
  BY <1>i, <1>u, <1>r, <1>s, <1>o, <1>p DEF Deciding, Answered, Preparing
<1>18. Resuming'
  BY <1>i, <1>u, <1>o DEF Resuming
<1> QED
  BY <1>1, <1>2, <1>3, <1>4, <1>5, <1>6, <1>7, <1>8, <1>9, <1>10, <1>11, <1>12, <1>13, <1>14,
     <1>15, <1>16, <1>17, <1>18, <1>r, <1>s DEF ForwardInv

(* A successful PrepareReply: the receiver prepares branch R.              *)
LEMMA PrepareReplyOk ==
  ASSUME ForwardInv, DoPrepareReply, Head(s2r).ok
  PROVE  ForwardInv'
<1>i. /\ Typed /\ OnceR /\ OnceS /\ LinkPlaced /\ Numbered /\ Placed /\ OneToken
      /\ Recovers /\ BranchS /\ Claims /\ BranchR /\ Apart /\ Same /\ Agreed
      /\ NoDuplicate /\ NothingLost /\ DecidedIsHeld /\ Starting /\ Deciding /\ Resuming
  BY DEF ForwardInv
<1>u. /\ r2s' = r2s /\ linkUp' = linkUp /\ where' = where /\ sBranch' = sBranch /\ sMsgs' = sMsgs
      /\ senderXA' = senderXA /\ recoveryList' = recoveryList /\ sConn' = sConn
      /\ started' = started /\ sOps' = sOps
      /\ preparedXA' = preparedXA /\ suspended' = suspended /\ rUp' = rUp /\ rConn' = rConn
      /\ rBranch' = rBranch
      /\ rMsgs' = rMsgs /\ receiverXA' = receiverXA /\ commits' = commits
      /\ currentXA' = currentXA /\ xaList' = xaList
      /\ puts' = puts /\ seqn' = seqn /\ received' = received /\ faults' = faults
  BY DEF DoPrepareReply, senderVars
<1>s. /\ \A u, k : SLetter(u, k)' <=> SLetter(u, k)
      /\ \A k, n : Named(k, n)' <=> Named(k, n)
      /\ ConnRep' <=> ConnRep
      /\ OnceS' /\ r2s' \in Seq(ToS)
  BY <1>i, <1>u, SSame DEF Typed
<1>o. \A o, k : SOp(o, k)' <=> SOp(o, k)
  BY <1>u, SOpSame
<1>x. PICK x : x = Head(s2r)
  OBVIOUS
<1>a. /\ rConn = "open" /\ s2r # <<>> /\ x.t = "PrepareReply" /\ s2r' = Tail(s2r)
      /\ x = Head(s2r) /\ x.ok
      /\ rOps' = rOps \cup {Op("prepare", x.g)}
  BY <1>x DEF DoPrepareReply
<1>r. /\ x \in ToR /\ RLetter(x.t, x.g)
      /\ \A u, k : RLetter(u, k)' => RLetter(u, k)
      /\ \A u, k : RLetter(u, k) /\ ~(u = x.t /\ k = x.g) => RLetter(u, k)'
      /\ x.t \in {"RMessage", "PrepareReply", "Recover"} => ~RLetter(x.t, x.g)'
      /\ x.t = "Recover" => \A k : ~RLetter("Recover", k)'
      /\ \A k : Confirmed(k)' => Confirmed(k)
      /\ x.t = "PrepareReply" /\ x.ok => Confirmed(x.g)
      /\ OnceR' /\ s2r' \in Seq(ToR)
  BY <1>i, <1>a, RTail DEF Typed
<1>g. PICK g \in Gtrids : g = x.g
  BY <1>a, <1>r, ToRFields
<1>b. /\ \A u, k : RLetter(u, k)' <=> RLetter(u, k) /\ ~(u = "PrepareReply" /\ k = g)
      /\ \A k : Confirmed(k)' => Confirmed(k)
      /\ Confirmed(g) /\ Answered(g)
  BY <1>a, <1>r, <1>g DEF Answered
<1>p. \A o, k : ROp(o, k)' <=> ROp(o, k) \/ (o = "prepare" /\ k = g)
  BY <1>a, <1>g, OpEq DEF ROp
<1>c. ~Recovery /\ rUp
  BY <1>i, <1>a, <1>b DEF Recovers, Quiet, LinkPlaced
<1>d. rOps' \subseteq RCalls
  BY <1>i, <1>a, <1>g, CallsR DEF Typed
<1>e. /\ ~Collecting(g) /\ ~Asked(g) /\ ~Acking(g) /\ ~Telling(g) /\ ~Told(g)
      /\ rBranch[g] = "inflight"
      /\ sBranch[g] = "prepared" /\ sMsgs[g] = rMsgs[g] /\ g <= seqn /\ seqn \in Nat /\ g \in Nat
  BY <1>i, <1>b, <1>c, GtridsNat DEF Placed, BranchR, Agreed, Numbered, Typed, TypeOK
<1>1. Typed'
  BY <1>i, <1>u, <1>s, <1>x, <1>a, <1>r, <1>g, <1>c, <1>d, <1>e, CallsR DEF Typed, TypeOK
<1>2. LinkPlaced'
  BY <1>i, <1>u, <1>s, <1>x, <1>a, <1>r, <1>g, <1>p, <1>c, <1>d, <1>e DEF LinkPlaced, Preparing
<1>3. Numbered'
  BY <1>i, <1>u, <1>s, <1>o, <1>r, <1>g, <1>b, <1>p, <1>c, <1>e DEF Numbered, Asked, Acking,
     Answered, Preparing, Telling, Told, Collecting, Flowing, Gathered, TellCommit, TellRoll,
     Claimed
<1>4. Placed'
  BY <1>i, <1>u, <1>s, <1>o, <1>r, <1>g, <1>b, <1>p, <1>e DEF Placed, Asked, Acking, Answered,
     Preparing, TellCommit, Telling, Told, Collecting, Gathered, TellRoll, Claimed
<1>5. OneToken'
  BY <1>i, <1>u, <1>s, <1>o, <1>x, <1>a, <1>r, <1>g, <1>b, <1>c DEF OneToken, Recovery, TellRec,
     Asking
<1>6. Recovers'
  BY <1>i, <1>u, <1>s, <1>o, <1>r, <1>g, <1>b, <1>p, <1>c, <1>e DEF Recovers, TellRec, Recovery,
     Quiet, Asked, Acking, Answered, Preparing, Claimed, Asking
<1>7. BranchS'
  BY <1>i, <1>u, <1>s, <1>o, <1>r, <1>g, <1>b, <1>p, <1>c, <1>e DEF BranchS, Asked, Acking,
     Telling, Told, Collecting, Recovery, TellRec, Asking, Gathered, TellCommit, TellRoll,
     Claimed
<1>8. Claims'
  BY <1>i, <1>u, <1>s, <1>o, <1>g, <1>e DEF Claims, Claimed, Hold
<1>9. BranchR'
  BY <1>i, <1>u, <1>s, <1>o, <1>r, <1>g, <1>b, <1>p, <1>e DEF BranchR, Asked, Acking, Answered,
     Preparing, Gathered, Dec, Claimed
<1>10. Apart'
  BY <1>i, <1>u, <1>r, <1>g, <1>b, <1>e DEF Apart, Gathered, Active
<1>11. Same'
  BY <1>i, <1>u, <1>s, <1>o, <1>r, <1>g, <1>b, <1>e DEF Same, Asked, Acking, Gathered, Claimed
<1>12. Agreed'
  BY <1>i, <1>u, <1>s, <1>o, <1>r, <1>g, <1>b, <1>p, <1>c, <1>e DEF Agreed, Preparing,
     TellCommit, TellRoll, Dec, Bound
<1>13. NoDuplicate'
  BY <1>i, <1>u, <1>g DEF NoDuplicate
<1>14. NothingLost'
  BY <1>i, <1>u, <1>g, <1>e DEF NothingLost
<1>15. DecidedIsHeld'
  BY <1>i, <1>u, <1>g, <1>e DEF DecidedIsHeld
<1>16. Starting'
  BY <1>i, <1>u, <1>s, <1>o, <1>r, <1>g, <1>b, <1>p, <1>e DEF Starting, Asked, Acking, Claimed
<1>17. Deciding'
  BY <1>i, <1>u, <1>s, <1>o, <1>r, <1>g, <1>b, <1>p, <1>e DEF Deciding, Answered, Preparing
<1>18. Resuming'
  BY <1>i, <1>u, <1>o, <1>g DEF Resuming
<1> QED
  BY <1>1, <1>2, <1>3, <1>4, <1>5, <1>6, <1>7, <1>8, <1>9, <1>10, <1>11, <1>12, <1>13, <1>14,
     <1>15, <1>16, <1>17, <1>18, <1>r, <1>s DEF ForwardInv

(* A failed PrepareReply: the receiver rolls branch R back.                *)
LEMMA PrepareReplyFails ==
  ASSUME ForwardInv, DoPrepareReply, ~Head(s2r).ok
  PROVE  ForwardInv'
<1>i. /\ Typed /\ OnceR /\ OnceS /\ LinkPlaced /\ Numbered /\ Placed /\ OneToken
      /\ Recovers /\ BranchS /\ Claims /\ BranchR /\ Apart /\ Same /\ Agreed
      /\ NoDuplicate /\ NothingLost /\ DecidedIsHeld /\ Starting /\ Deciding /\ Resuming
  BY DEF ForwardInv
<1>u. /\ r2s' = r2s /\ where' = where /\ sBranch' = sBranch /\ sMsgs' = sMsgs
      /\ senderXA' = senderXA
      /\ recoveryList' = recoveryList /\ sConn' = sConn /\ started' = started /\ sOps' = sOps
      /\ preparedXA' = preparedXA
      /\ suspended' = suspended /\ rUp' = rUp /\ rBranch' = rBranch /\ rMsgs' = rMsgs
      /\ commits' = commits
      /\ currentXA' = currentXA /\ xaList' = xaList /\ puts' = puts /\ rOps' = rOps /\ seqn' = seqn
      /\ received' = received /\ faults' = faults
  BY DEF DoPrepareReply, CloseIncoming, senderVars
<1>s. /\ \A u, k : SLetter(u, k)' <=> SLetter(u, k)
      /\ \A k, n : Named(k, n)' <=> Named(k, n)
      /\ ConnRep' <=> ConnRep
      /\ OnceS' /\ r2s' \in Seq(ToS)
  BY <1>i, <1>u, SSame DEF Typed
<1>o. \A o, k : SOp(o, k)' <=> SOp(o, k)
  BY <1>u, SOpSame
<1>p. \A o, k : ROp(o, k)' <=> ROp(o, k)
  BY <1>u, ROpSame
<1>x. PICK x : x = Head(s2r)
  OBVIOUS
<1>y. /\ rConn = "open" /\ s2r # <<>> /\ x.t = "PrepareReply" /\ x = Head(s2r)
      /\ receiverXA' = [receiverXA EXCEPT ![x.g] = "no"]
  BY <1>x DEF DoPrepareReply
<1>a. linkUp' = FALSE /\ rConn' = "closing" /\ s2r' = <<>>
  BY DEF DoPrepareReply, CloseIncoming
<1>r. /\ \A u, k : ~RLetter(u, k)'
      /\ \A k : ~Confirmed(k)'
      /\ OnceR' /\ s2r' \in Seq(ToR)
  BY RNone, <1>a
<1>g. PICK g \in Gtrids : g = x.g /\ Answered(g)
  <2>1. x \in ToR
    BY <1>i, <1>y DEF Typed
  <2>2. x \in LettersR
    BY <1>i, <1>y DEF Typed, LettersR
  <2> QED BY <1>y, <2>1, <2>2, ToRFields DEF Answered, RLetter
<1>e. \A k \in Gtrids : receiverXA'[k] = IF k = g THEN "no" ELSE receiverXA[k]
  BY <1>i, <1>y, <1>g DEF Typed, TypeOK
<1>f. rBranch[g] = "inflight" /\ ~Recovery
  BY <1>i, <1>g DEF BranchR, Recovers, Quiet
<1>h. receiverXA' \in [Gtrids -> {"no", "linked", "prepared"}]
  BY <1>i, <1>y, <1>g DEF Typed, TypeOK
<1>1. Typed'
  BY <1>i, <1>u, <1>s, <1>x, <1>y, <1>a, <1>r, <1>e, <1>f, <1>h DEF Typed, TypeOK
<1>2. LinkPlaced'
  BY <1>i, <1>u, <1>s, <1>p, <1>x, <1>y, <1>a, <1>r, <1>e, <1>f, <1>h DEF LinkPlaced, Preparing
<1>3. Numbered'
  BY <1>i, <1>u, <1>s, <1>o, <1>p, <1>y, <1>a, <1>r, <1>g, <1>e, <1>f, <1>h DEF Numbered, Asked,
     Acking, Answered, Preparing, Telling, Told, Collecting, Flowing, Gathered, TellCommit,
     TellRoll, Claimed
<1>4. Placed'
  BY <1>i, <1>u, <1>s, <1>o, <1>p, <1>r, <1>g, <1>f DEF Placed, Asked, Acking, Answered,
     Preparing, TellCommit, Telling, Told, Collecting, Gathered, TellRoll, Claimed
<1>5. OneToken'
  BY <1>i, <1>u, <1>s, <1>o, <1>x, <1>y, <1>a, <1>r, <1>f DEF OneToken, Recovery, TellRec,
     Asking
<1>6. Recovers'
  BY <1>i, <1>u, <1>s, <1>o, <1>p, <1>x, <1>y, <1>a, <1>r, <1>g, <1>f DEF Recovers, OneToken,
     TellRec, Recovery, Quiet, Asked, Acking, Answered, Preparing, Claimed, Asking
<1>7. BranchS'
  BY <1>i, <1>u, <1>s, <1>o, <1>p, <1>a, <1>r, <1>f DEF BranchS, Asked, Acking, Telling, Told,
     Collecting, Recovery, TellRec, Asking, Gathered, TellCommit, TellRoll, Claimed
<1>8. Claims'
  BY <1>i, <1>u, <1>s, <1>o DEF Claims, Claimed, Hold
<1>9. BranchR'
  BY <1>i, <1>u, <1>s, <1>o, <1>p, <1>y, <1>r, <1>g, <1>e, <1>f, <1>h DEF BranchR, Asked,
     Acking, Answered, Preparing, Gathered, Dec, Claimed
<1>10. Apart'
  BY <1>i, <1>u, <1>r, <1>f DEF Apart, Gathered, Active
<1>11. Same'
  BY <1>i, <1>u, <1>s, <1>o, <1>a, <1>r, <1>f DEF Same, Asked, Acking, Gathered, Claimed
<1>12. Agreed'
  BY <1>i, <1>u, <1>s, <1>o, <1>p, <1>y, <1>r, <1>e, <1>f, <1>h DEF Agreed, Preparing,
     TellCommit, TellRoll, Dec, Bound
<1>13. NoDuplicate'
  BY <1>i, <1>u DEF NoDuplicate
<1>14. NothingLost'
  BY <1>i, <1>u, <1>f DEF NothingLost
<1>15. DecidedIsHeld'
  BY <1>i, <1>u, <1>f DEF DecidedIsHeld
<1>16. Starting'
  BY <1>i, <1>u, <1>s, <1>o, <1>p, <1>a, <1>r DEF Starting, Asked, Acking, Claimed
<1>17. Deciding'
  BY <1>i, <1>u, <1>s, <1>o, <1>p, <1>a, <1>r, <1>g DEF Deciding, Answered, Preparing
<1>18. Resuming'
  BY <1>i, <1>u, <1>o DEF Resuming
<1> QED
  BY <1>1, <1>2, <1>3, <1>4, <1>5, <1>6, <1>7, <1>8, <1>9, <1>10, <1>11, <1>12, <1>13, <1>14,
     <1>15, <1>16, <1>17, <1>18, <1>r, <1>s DEF ForwardInv

(* ism_fwd_doPrepareReply, in both cases.                                  *)
LEMMA DoPrepareReplyKeeps ==
  ASSUME ForwardInv, DoPrepareReply
  PROVE  ForwardInv'
  BY PrepareReplyOk, PrepareReplyFails

(* Branch R is prepared: the decision is taken and both commits begin.     *)
LEMMA ReplyDoPrepareKeeps ==
  ASSUME ForwardInv, NEW g \in Gtrids, ReplyDoPrepare(g)
  PROVE  ForwardInv'
<1>i. /\ Typed /\ OnceR /\ OnceS /\ LinkPlaced /\ Numbered /\ Placed /\ OneToken
      /\ Recovers /\ BranchS /\ Claims /\ BranchR /\ Apart /\ Same /\ Agreed
      /\ NoDuplicate /\ NothingLost /\ DecidedIsHeld /\ Starting /\ Deciding /\ Resuming
  BY DEF ForwardInv
<1>u. /\ s2r' = s2r /\ linkUp' = linkUp /\ where' = where /\ sBranch' = sBranch /\ sMsgs' = sMsgs
      /\ senderXA' = senderXA /\ recoveryList' = recoveryList /\ sConn' = sConn
      /\ started' = started /\ sOps' = sOps
      /\ preparedXA' = preparedXA /\ suspended' = suspended /\ rUp' = rUp /\ rConn' = rConn
      /\ rMsgs' = rMsgs
      /\ commits' = commits /\ currentXA' = currentXA /\ xaList' = xaList /\ puts' = puts
      /\ seqn' = seqn
      /\ received' = received /\ faults' = faults
  BY DEF ReplyDoPrepare, senderVars
<1>r. /\ \A u, k : RLetter(u, k)' <=> RLetter(u, k)
      /\ \A k : Confirmed(k)' <=> Confirmed(k)
      /\ OnceR' /\ s2r' \in Seq(ToR)
  BY <1>i, <1>u, RSame DEF Typed
<1>o. \A o, k : SOp(o, k)' <=> SOp(o, k)
  BY <1>u, SOpSame
<1>a. /\ ROp("prepare", g) /\ rBranch[g] = "inflight"
      /\ rBranch' = [rBranch EXCEPT ![g] = "committing"]
      /\ receiverXA' = [receiverXA EXCEPT ![g] = "prepared"] /\ ToSender(<<Wire("Commit", g)>>)
      /\ rOps' = (rOps \ {Op("prepare", g)}) \cup {Op("commit", g)}
  BY DEF ReplyDoPrepare, PreparedMark, ROp
<1>p. \A o, k : ROp(o, k)' <=> (ROp(o, k) /\ ~(o = "prepare" /\ k = g)) \/ (o = "commit" /\ k = g)
  BY <1>a, OpEq DEF ROp
<1>q. rOps' \subseteq RCalls
  BY <1>i, <1>a, CallsR DEF Typed
<1>s. /\ \A u, k : SLetter(u, k)' <=> SLetter(u, k) \/ (linkUp /\ u = "Commit" /\ k = g)
      /\ \A k, n : Named(k, n)' <=> Named(k, n)
      /\ ConnRep' <=> ConnRep
      /\ OnceS' /\ r2s' \in Seq(ToS)
  <2>1. PICK y : y = Wire("Commit", g)
    OBVIOUS
  <2>2. y \in ToS /\ y.t = "Commit" /\ y.g = g /\ y.t \notin RecTypes
    BY <2>1, WireToS, WireFields DEF RecTypes
  <2> QED BY <1>a, <1>i, <2>1, <2>2, SSend DEF Typed
<1>z. linkUp \/ r2s' = r2s
  BY <1>a DEF ToSender
<1>c. ~Recovery /\ Preparing(g) /\ rUp /\ rConn # "closed" /\ (linkUp => sConn = "open")
  BY <1>i, <1>a DEF Recovers, Quiet, Preparing, LinkPlaced
<1>e. /\ \A k \in Gtrids : /\ rBranch'[k] = IF k = g THEN "committing" ELSE rBranch[k]
                           /\ receiverXA'[k] = IF k = g THEN "prepared" ELSE receiverXA[k]
      /\ sBranch[g] = "prepared" /\ sMsgs[g] = rMsgs[g]
      /\ ~Asked(g) /\ ~Acking(g) /\ ~Answered(g) /\ ~Collecting(g) /\ ~Told(g) /\ ~Telling(g)
      /\ commits[g] = 0
      /\ g <= seqn /\ seqn \in Nat /\ g \in Nat
  <2>1. \A k \in Gtrids : /\ rBranch'[k] = IF k = g THEN "committing" ELSE rBranch[k]
                          /\ receiverXA'[k] = IF k = g THEN "prepared" ELSE receiverXA[k]
    BY <1>i, <1>a DEF Typed, TypeOK
  <2>2. sBranch[g] = "prepared" /\ sMsgs[g] = rMsgs[g]
    BY <1>i, <1>c DEF Agreed
  <2>3. /\ ~Asked(g) /\ ~Acking(g) /\ ~Answered(g) /\ ~Collecting(g) /\ ~Told(g) /\ ~Telling(g)
        /\ commits[g] = 0
    BY <1>i, <1>a, <1>c DEF Placed
  <2>4. g <= seqn /\ seqn \in Nat /\ g \in Nat
    BY <1>i, <1>c, GtridsNat DEF Numbered, Typed, TypeOK
  <2> QED BY <2>1, <2>2, <2>3, <2>4
<1>f. \A k \in Gtrids : Confirmed(k) => k # g
  BY <1>e, ConfirmedIsAnswer
<1>h. \A k \in Gtrids, m \in Msgs : sBranch[k] = "prepared" /\ k # g /\ m \in sMsgs[k] => m \notin rMsgs[g]
  BY <1>i, <1>e DEF Claims, Hold
<1>1. Typed'
  BY <1>i, <1>u, <1>r, <1>a, <1>q, <1>s, <1>z, <1>c, <1>e, <1>h, CallsR DEF Typed, TypeOK
<1>2. LinkPlaced'
  BY <1>i, <1>u, <1>r, <1>a, <1>p, <1>q, <1>s, <1>z, <1>c, <1>e, <1>h DEF LinkPlaced, Preparing
<1>3. Numbered'
  BY <1>i, <1>u, <1>r, <1>o, <1>a, <1>p, <1>s, <1>z, <1>c, <1>e, <1>h DEF Numbered, Asked,
     Acking, Answered, Preparing, Telling, Told, Collecting, Flowing, Gathered, TellCommit,
     TellRoll, Claimed
<1>4. Placed'
  BY <1>i, <1>u, <1>r, <1>o, <1>a, <1>p, <1>s, <1>c, <1>e DEF Placed, Asked, Acking, Answered,
     Preparing, TellCommit, Telling, Told, Collecting, Gathered, TellRoll, Claimed
<1>5. OneToken'
  BY <1>i, <1>u, <1>r, <1>o, <1>s, <1>c DEF OneToken, Recovery, TellRec, Asking
<1>6. Recovers'
  BY <1>i, <1>u, <1>r, <1>o, <1>a, <1>p, <1>s, <1>c, <1>e, <1>h DEF Recovers, TellRec, Recovery,
     Quiet, Asked, Acking, Answered, Preparing, Claimed, Asking
<1>7. BranchS'
  BY <1>i, <1>u, <1>r, <1>o, <1>a, <1>p, <1>s, <1>z, <1>c, <1>e, <1>h DEF BranchS, Asked,
     Acking, Telling, Told, Collecting, Recovery, TellRec, Asking, Gathered, TellCommit,
     TellRoll, Claimed
<1>8. Claims'
  BY <1>i, <1>u, <1>o, <1>s DEF Claims, Claimed, Hold
<1>9. BranchR'
  BY <1>i, <1>u, <1>r, <1>o, <1>a, <1>p, <1>q, <1>s, <1>z, <1>c, <1>e, <1>f, <1>h DEF BranchR,
     Collecting, Asked, Acking, Answered, Preparing, Gathered, Dec, Claimed
<1>10. Apart'
  BY <1>i, <1>u, <1>r, <1>a, <1>e, <1>h DEF Apart, Gathered, Active
<1>11. Same'
  BY <1>i, <1>u, <1>r, <1>o, <1>a, <1>s, <1>z, <1>c, <1>e, <1>h DEF Same, Asked, Acking,
     Gathered, Claimed
<1>12. Agreed'
  BY <1>i, <1>u, <1>r, <1>o, <1>a, <1>p, <1>q, <1>s, <1>z, <1>c, <1>e, <1>f, <1>h DEF Agreed,
     Typed, TypeOK, Telling, Preparing, TellCommit, TellRoll, Dec, Bound
<1>13. NoDuplicate'
  BY <1>i, <1>u DEF NoDuplicate
<1>14. NothingLost'
  BY <1>i, <1>u, <1>a, <1>e, <1>h DEF NothingLost, Bound
<1>15. DecidedIsHeld'
  BY <1>i, <1>u, <1>a, <1>e, <1>h DEF DecidedIsHeld, Bound
<1>16. Starting'
  BY <1>i, <1>u, <1>r, <1>o, <1>a, <1>p, <1>s, <1>z, <1>c, <1>e, <1>h DEF Starting, Asked,
     Acking, Claimed
<1>17. Deciding'
  BY <1>i, <1>u, <1>r, <1>o, <1>a, <1>p, <1>s, <1>z, <1>c, <1>e, <1>h DEF Deciding, Answered,
     Preparing
<1>18. Resuming'
  BY <1>i, <1>u, <1>o, <1>c DEF Resuming
<1> QED
  BY <1>1, <1>2, <1>3, <1>4, <1>5, <1>6, <1>7, <1>8, <1>9, <1>10, <1>11, <1>12, <1>13, <1>14,
     <1>15, <1>16, <1>17, <1>18, <1>r, <1>s DEF ForwardInv

(* Branch R is committed by the receiver's engine.                         *)
LEMMA ReplyEngineCommitKeeps ==
  ASSUME ForwardInv, NEW g \in Gtrids, ReplyEngineCommit(g)
  PROVE  ForwardInv'
<1>i. /\ Typed /\ OnceR /\ OnceS /\ LinkPlaced /\ Numbered /\ Placed /\ OneToken
      /\ Recovers /\ BranchS /\ Claims /\ BranchR /\ Apart /\ Same /\ Agreed
      /\ NoDuplicate /\ NothingLost /\ DecidedIsHeld /\ Starting /\ Deciding /\ Resuming
  BY DEF ForwardInv
<1>u. /\ s2r' = s2r /\ r2s' = r2s /\ linkUp' = linkUp /\ where' = where /\ sBranch' = sBranch
      /\ sMsgs' = sMsgs /\ senderXA' = senderXA /\ recoveryList' = recoveryList
      /\ sConn' = sConn /\ started' = started
      /\ sOps' = sOps /\ preparedXA' = preparedXA /\ suspended' = suspended /\ rUp' = rUp
      /\ rConn' = rConn
      /\ rMsgs' = rMsgs /\ currentXA' = currentXA /\ xaList' = xaList /\ puts' = puts
      /\ seqn' = seqn
      /\ faults' = faults
  BY DEF ReplyEngineCommit, link, senderVars
<1>r. /\ \A u, k : RLetter(u, k)' <=> RLetter(u, k)
      /\ \A k : Confirmed(k)' <=> Confirmed(k)
      /\ OnceR' /\ s2r' \in Seq(ToR)
  BY <1>i, <1>u, RSame DEF Typed
<1>s. /\ \A u, k : SLetter(u, k)' <=> SLetter(u, k)
      /\ \A k, n : Named(k, n)' <=> Named(k, n)
      /\ ConnRep' <=> ConnRep
      /\ OnceS' /\ r2s' \in Seq(ToS)
  BY <1>i, <1>u, SSame DEF Typed
<1>o. \A o, k : SOp(o, k)' <=> SOp(o, k)
  BY <1>u, SOpSame
<1>a. /\ ROp("commit", g) /\ rOps' = rOps \ {Op("commit", g)} /\ received' = Deliver({g})
      /\ CountCommit(g, [rBranch EXCEPT ![g] = "heuristic"])
  BY DEF ReplyEngineCommit, ROp
<1>p. \A o, k : ROp(o, k)' <=> ROp(o, k) /\ ~(o = "commit" /\ k = g)
  BY <1>a, OpEq DEF ROp
<1>d. /\ \A m \in Msgs : received'[m] = IF m \in rMsgs[g] THEN received[m] + 1 ELSE received[m]
      /\ received' \in [Msgs -> Nat] /\ \A m \in Msgs : received[m] \in Nat
  BY <1>i, <1>a, DeliverOne DEF Typed
<1>c. /\ rBranch[g] = "committing" /\ rUp /\ rConn # "closed" /\ ~Recovery
      /\ (commits[g] >= 1 => sBranch[g] # "prepared") /\ ~ROp("recoverCommit", g) /\ ~ROp("create", g)
  BY <1>i, <1>a DEF BranchR, LinkPlaced, ROp, Agreed, Recovers, Quiet
<1>e. /\ \A k \in Gtrids : k # g => /\ rBranch'[k] = rBranch[k] /\ commits'[k] = commits[k]
                                    /\ receiverXA'[k] = receiverXA[k]
      /\ \/ receiverXA[g] = "no" /\ receiverXA'[g] = "no" /\ rBranch'[g] = "heuristic"
         \/ /\ commits[g] = 0 /\ commits'[g] = 1 /\ rBranch'[g] = "heuristic"
            /\ receiverXA'[g] = receiverXA[g]
         \/ commits[g] >= 1 /\ receiverXA'[g] = "no" /\ rBranch'[g] = "forgetting"
      /\ rBranch' \in [Gtrids -> {"none", "inflight", "prepared", "committing", "heuristic",
                                  "forgetting"}]
      /\ commits' \in [Gtrids -> 0..2]
      /\ receiverXA' \in [Gtrids -> {"no", "linked", "prepared"}]
  BY <1>i, <1>a, Counted
<1>v. \A m \in Msgs : \/ m \in rMsgs[g] /\ received[m] = 0 /\ received'[m] = 1
                      \/ m \notin rMsgs[g] /\ received'[m] = received[m]
  BY <1>i, <1>c, <1>d DEF Apart, Active
<1>w. \A m \in Msgs : received[m] \in Nat
  BY <1>d
<1>h. \A k \in Gtrids : sBranch[k] = "prepared" /\ ~Dec(k) => \A m \in sMsgs[k] : received'[m] = 0
  BY <1>i, <1>c, <1>v DEF Agreed, Bound, Typed, TypeOK
<1>1. Typed'
  BY <1>i, <1>u, <1>r, <1>s, <1>a, <1>d, <1>c, <1>e, <1>v, <1>w, <1>h DEF Typed, TypeOK
<1>2. LinkPlaced'
  BY <1>i, <1>u, <1>r, <1>s, <1>a, <1>p, <1>c, <1>e, <1>h DEF LinkPlaced, Preparing
<1>3. Numbered'
  BY <1>i, <1>u, <1>r, <1>s, <1>o, <1>a, <1>p, <1>d, <1>c, <1>e, <1>v, <1>h DEF Numbered, Asked,
     Acking, Answered, Preparing, Telling, Told, Collecting, Flowing, Gathered, TellCommit,
     TellRoll, Claimed
<1>4. Placed'
  BY <1>i, <1>u, <1>r, <1>s, <1>o, <1>a, <1>p, <1>c, <1>e DEF Placed, Asked, Acking, Answered,
     Preparing, TellCommit, Telling, Told, Collecting, Gathered, TellRoll, Claimed
<1>5. OneToken'
  BY <1>i, <1>u, <1>r, <1>s, <1>o DEF OneToken, TellRec, Asking
<1>6. Recovers'
  BY <1>i, <1>u, <1>r, <1>s, <1>o, <1>a, <1>p, <1>d, <1>c, <1>e, <1>v, <1>h DEF Recovers,
     TellRec, Recovery, Quiet, Asked, Acking, Answered, Preparing, Claimed, Asking
<1>7. BranchS'
  BY <1>i, <1>u, <1>r, <1>s, <1>o, <1>a, <1>p, <1>c, <1>h DEF BranchS, Asked, Acking, Telling,
     Told, Collecting, Recovery, TellRec, Asking, Gathered, TellCommit, TellRoll, Claimed
<1>8. Claims'
  BY <1>i, <1>u, <1>s, <1>o, <1>c, <1>h DEF Claims, Claimed, Hold
<1>9. BranchR'
  BY <1>i, <1>u, <1>r, <1>s, <1>o, <1>a, <1>p, <1>c, <1>e, <1>h DEF BranchR, Asked, Acking,
     Answered, Preparing, Gathered, Dec, Claimed
<1>10. Apart'
  BY <1>i, <1>c, <1>e, <1>u, <1>v, <1>w, <1>r DEF Apart, Active, Gathered
<1>11. Same'
  BY <1>i, <1>u, <1>r, <1>s, <1>o, <1>a, <1>d, <1>c, <1>e, <1>v, <1>h DEF Same, Asked, Acking,
     Gathered, Claimed
<1>12. Agreed'
  BY <1>i, <1>c, <1>e, <1>h, <1>u, <1>w, <1>o, <1>p, <1>r, <1>s DEF Agreed, Dec, Bound,
     Preparing, TellCommit, TellRoll
<1>13. NoDuplicate'
  BY <1>i, <1>v DEF NoDuplicate
<1>14. NothingLost'
  BY <1>i, <1>c, <1>e, <1>u, <1>v, <1>w DEF NothingLost
<1>15. DecidedIsHeld'
  BY <1>i, <1>c, <1>e, <1>u, <1>v, <1>w DEF DecidedIsHeld
<1>16. Starting'
  BY <1>i, <1>u, <1>r, <1>s, <1>o, <1>a, <1>p, <1>d, <1>c, <1>v, <1>h DEF Starting, Asked,
     Acking, Claimed
<1>17. Deciding'
  BY <1>i, <1>u, <1>r, <1>s, <1>o, <1>a, <1>p, <1>c, <1>h DEF Deciding, Answered, Preparing
<1>18. Resuming'
  BY <1>i, <1>u, <1>o DEF Resuming
<1> QED
  BY <1>1, <1>2, <1>3, <1>4, <1>5, <1>6, <1>7, <1>8, <1>9, <1>10, <1>11, <1>12, <1>13, <1>14,
     <1>15, <1>16, <1>17, <1>18, <1>r, <1>s DEF ForwardInv

(* Branch R is committed by the receiver during recovery.                  *)
LEMMA ReplyRecoverCommitKeeps ==
  ASSUME ForwardInv, NEW g \in Gtrids, ReplyRecoverCommit(g)
  PROVE  ForwardInv'
<1>i. /\ Typed /\ OnceR /\ OnceS /\ LinkPlaced /\ Numbered /\ Placed /\ OneToken
      /\ Recovers /\ BranchS /\ Claims /\ BranchR /\ Apart /\ Same /\ Agreed
      /\ NoDuplicate /\ NothingLost /\ DecidedIsHeld /\ Starting /\ Deciding /\ Resuming
  BY DEF ForwardInv
<1>u. /\ s2r' = s2r /\ r2s' = r2s /\ linkUp' = linkUp /\ where' = where /\ sBranch' = sBranch
      /\ sMsgs' = sMsgs /\ senderXA' = senderXA /\ recoveryList' = recoveryList
      /\ sConn' = sConn /\ started' = started
      /\ sOps' = sOps /\ preparedXA' = preparedXA /\ suspended' = suspended /\ rUp' = rUp
      /\ rConn' = rConn
      /\ rMsgs' = rMsgs /\ receiverXA' = receiverXA /\ commits' = commits
      /\ currentXA' = currentXA /\ xaList' = xaList
      /\ puts' = puts /\ seqn' = seqn /\ faults' = faults
  BY DEF ReplyRecoverCommit, link, senderVars
<1>r. /\ \A u, k : RLetter(u, k)' <=> RLetter(u, k)
      /\ \A k : Confirmed(k)' <=> Confirmed(k)
      /\ OnceR' /\ s2r' \in Seq(ToR)
  BY <1>i, <1>u, RSame DEF Typed
<1>s. /\ \A u, k : SLetter(u, k)' <=> SLetter(u, k)
      /\ \A k, n : Named(k, n)' <=> Named(k, n)
      /\ ConnRep' <=> ConnRep
      /\ OnceS' /\ r2s' \in Seq(ToS)
  BY <1>i, <1>u, SSame DEF Typed
<1>o. \A o, k : SOp(o, k)' <=> SOp(o, k)
  BY <1>u, SOpSame
<1>a. /\ ROp("recoverCommit", g) /\ rOps' = rOps \ {Op("recoverCommit", g)}
      /\ received' = Deliver({g})
      /\ rBranch' = [rBranch EXCEPT ![g] = "heuristic"]
  BY DEF ReplyRecoverCommit, ROp
<1>p. \A o, k : ROp(o, k)' <=> ROp(o, k) /\ ~(o = "recoverCommit" /\ k = g)
  BY <1>a, OpEq DEF ROp
<1>d. /\ \A m \in Msgs : received'[m] = IF m \in rMsgs[g] THEN received[m] + 1 ELSE received[m]
      /\ received' \in [Msgs -> Nat] /\ \A m \in Msgs : received[m] \in Nat
  BY <1>i, <1>a, DeliverOne DEF Typed
<1>c. rBranch[g] = "committing" /\ rUp /\ ~ROp("commit", g)
  BY <1>i, <1>a DEF BranchR, LinkPlaced, ROp
<1>e. \A k \in Gtrids : rBranch'[k] = IF k = g THEN "heuristic" ELSE rBranch[k]
  BY <1>i, <1>a DEF Typed, TypeOK
<1>v. \A m \in Msgs : \/ m \in rMsgs[g] /\ received[m] = 0 /\ received'[m] = 1
                      \/ m \notin rMsgs[g] /\ received'[m] = received[m]
  BY <1>i, <1>c, <1>d DEF Apart, Active
<1>w. \A m \in Msgs : received[m] \in Nat
  BY <1>d
<1>h. \A k \in Gtrids : sBranch[k] = "prepared" /\ ~Dec(k) => \A m \in sMsgs[k] : received'[m] = 0
  BY <1>i, <1>c, <1>v DEF Agreed, Bound, Typed, TypeOK
<1>1. Typed'
  BY <1>i, <1>u, <1>r, <1>s, <1>a, <1>d, <1>c, <1>e, <1>v, <1>w, <1>h DEF Typed, TypeOK
<1>2. LinkPlaced'
  BY <1>i, <1>u, <1>r, <1>s, <1>a, <1>p, <1>c, <1>e, <1>h DEF LinkPlaced, Preparing
<1>3. Numbered'
  BY <1>i, <1>u, <1>r, <1>s, <1>o, <1>a, <1>p, <1>d, <1>c, <1>e, <1>v, <1>h DEF Numbered, Asked,
     Acking, Answered, Preparing, Telling, Told, Collecting, Flowing, Gathered, TellCommit,
     TellRoll, Claimed
<1>4. Placed'
  BY <1>i, <1>u, <1>r, <1>s, <1>o, <1>a, <1>p, <1>c, <1>e DEF Placed, Asked, Acking, Answered,
     Preparing, TellCommit, Telling, Told, Collecting, Gathered, TellRoll, Claimed
<1>5. OneToken'
  BY <1>i, <1>u, <1>r, <1>s, <1>o DEF OneToken, TellRec, Asking
<1>6. Recovers'
  BY <1>i, <1>u, <1>r, <1>s, <1>o, <1>a, <1>p, <1>d, <1>c, <1>e, <1>v, <1>h DEF Recovers,
     TellRec, Recovery, Quiet, Asked, Acking, Answered, Preparing, Claimed, Asking
<1>7. BranchS'
  BY <1>i, <1>u, <1>r, <1>s, <1>o, <1>a, <1>p, <1>c, <1>h DEF BranchS, Asked, Acking, Telling,
     Told, Collecting, Recovery, TellRec, Asking, Gathered, TellCommit, TellRoll, Claimed
<1>8. Claims'
  BY <1>i, <1>u, <1>s, <1>o, <1>h DEF Claims, Claimed, Hold
<1>9. BranchR'
  BY <1>i, <1>u, <1>r, <1>s, <1>o, <1>a, <1>p, <1>c, <1>e, <1>h DEF BranchR, Asked, Acking,
     Answered, Preparing, Gathered, Dec, Claimed
<1>10. Apart'
  BY <1>i, <1>c, <1>e, <1>u, <1>v, <1>w, <1>r DEF Apart, Active, Gathered
<1>11. Same'
  BY <1>i, <1>u, <1>r, <1>s, <1>o, <1>a, <1>d, <1>c, <1>e, <1>v, <1>h DEF Same, Asked, Acking,
     Gathered, Claimed
<1>12. Agreed'
  BY <1>i, <1>c, <1>e, <1>h, <1>u, <1>w, <1>o, <1>p, <1>r, <1>s DEF Agreed, Dec, Bound,
     Preparing, TellCommit, TellRoll
<1>13. NoDuplicate'
  BY <1>i, <1>v DEF NoDuplicate
<1>14. NothingLost'
  BY <1>i, <1>c, <1>e, <1>u, <1>v, <1>w DEF NothingLost
<1>15. DecidedIsHeld'
  BY <1>i, <1>c, <1>e, <1>u, <1>v, <1>w DEF DecidedIsHeld
<1>16. Starting'
  BY <1>i, <1>u, <1>r, <1>s, <1>o, <1>a, <1>p, <1>d, <1>c, <1>v, <1>h DEF Starting, Asked,
     Acking, Claimed
<1>17. Deciding'
  BY <1>i, <1>u, <1>r, <1>s, <1>o, <1>a, <1>p, <1>c, <1>h DEF Deciding, Answered, Preparing
<1>18. Resuming'
  BY <1>i, <1>u, <1>o DEF Resuming
<1> QED
  BY <1>1, <1>2, <1>3, <1>4, <1>5, <1>6, <1>7, <1>8, <1>9, <1>10, <1>11, <1>12, <1>13, <1>14,
     <1>15, <1>16, <1>17, <1>18, <1>r, <1>s DEF ForwardInv

(* A CommitReply reaches the receiver.                                     *)
LEMMA DoCommitReplyKeeps ==
  ASSUME ForwardInv, DoCommitReply
  PROVE  ForwardInv'
<1>i. /\ Typed /\ OnceR /\ OnceS /\ LinkPlaced /\ Numbered /\ Placed /\ OneToken
      /\ Recovers /\ BranchS /\ Claims /\ BranchR /\ Apart /\ Same /\ Agreed
      /\ NoDuplicate /\ NothingLost /\ DecidedIsHeld /\ Starting /\ Deciding /\ Resuming
  BY DEF ForwardInv
<1>u. /\ r2s' = r2s /\ linkUp' = linkUp /\ where' = where /\ sBranch' = sBranch /\ sMsgs' = sMsgs
      /\ senderXA' = senderXA /\ recoveryList' = recoveryList /\ sConn' = sConn
      /\ started' = started /\ sOps' = sOps
      /\ preparedXA' = preparedXA /\ suspended' = suspended /\ rUp' = rUp /\ rConn' = rConn
      /\ rMsgs' = rMsgs
      /\ currentXA' = currentXA /\ xaList' = xaList /\ puts' = puts /\ rOps' = rOps /\ seqn' = seqn
      /\ received' = received /\ faults' = faults
  BY DEF DoCommitReply, senderVars
<1>s. /\ \A u, k : SLetter(u, k)' <=> SLetter(u, k)
      /\ \A k, n : Named(k, n)' <=> Named(k, n)
      /\ ConnRep' <=> ConnRep
      /\ OnceS' /\ r2s' \in Seq(ToS)
  BY <1>i, <1>u, SSame DEF Typed
<1>o. \A o, k : SOp(o, k)' <=> SOp(o, k)
  BY <1>u, SOpSame
<1>p. \A o, k : ROp(o, k)' <=> ROp(o, k)
  BY <1>u, ROpSame
<1>x. PICK x : x = Head(s2r)
  OBVIOUS
<1>a. /\ rConn = "open" /\ s2r # <<>> /\ x.t = "CommitReply" /\ s2r' = Tail(s2r) /\ x = Head(s2r)
      /\ CountCommit(x.g, rBranch)
  BY <1>x DEF DoCommitReply
<1>r. /\ x \in ToR /\ RLetter(x.t, x.g)
      /\ \A u, k : RLetter(u, k)' => RLetter(u, k)
      /\ \A u, k : RLetter(u, k) /\ ~(u = x.t /\ k = x.g) => RLetter(u, k)'
      /\ x.t \in {"RMessage", "PrepareReply", "Recover"} => ~RLetter(x.t, x.g)'
      /\ x.t = "Recover" => \A k : ~RLetter("Recover", k)'
      /\ \A k : Confirmed(k)' => Confirmed(k)
      /\ x.t = "PrepareReply" /\ x.ok => Confirmed(x.g)
      /\ OnceR' /\ s2r' \in Seq(ToR)
  BY <1>i, <1>a, RTail DEF Typed
<1>g. PICK g \in Gtrids : g = x.g /\ Told(g)
  BY <1>a, <1>r, ToRFields DEF Told
<1>b. /\ \A u, k : RLetter(u, k)' => RLetter(u, k)
      /\ \A u, k : RLetter(u, k) /\ u # "CommitReply" => RLetter(u, k)'
      /\ \A k : Confirmed(k)' => Confirmed(k)
  BY <1>a, <1>r
<1>c. /\ rUp /\ sBranch[g] # "prepared" /\ rBranch[g] # "inflight" /\ ~ROp("create", g)
      /\ rBranch[g] # "prepared" /\ ~ConnRep
      /\ ~Gathered(g) /\ ~Answered(g) /\ ~Preparing(g)
  BY <1>i, <1>a, <1>g DEF BranchS, LinkPlaced, Placed, OneToken, BranchR
<1>e. /\ \A k \in Gtrids : k # g => /\ rBranch'[k] = rBranch[k] /\ commits'[k] = commits[k]
                                    /\ receiverXA'[k] = receiverXA[k]
      /\ \/ rBranch'[g] = rBranch[g] /\ receiverXA'[g] \in {"no", receiverXA[g]}
         \/ rBranch[g] = "heuristic" /\ rBranch'[g] = "forgetting" /\ receiverXA'[g] = "no"
      /\ rBranch' \in [Gtrids -> {"none", "inflight", "prepared", "committing", "heuristic",
                                  "forgetting"}]
      /\ commits' \in [Gtrids -> 0..2]
      /\ receiverXA' \in [Gtrids -> {"no", "linked", "prepared"}]
  <2>1. PICK b \in {"none", "inflight", "prepared", "committing", "heuristic", "forgetting"} :
          b = rBranch[g] /\ rBranch = [rBranch EXCEPT ![g] = b]
    BY <1>i DEF Typed, TypeOK
  <2>2. CountCommit(g, [rBranch EXCEPT ![g] = b])
    BY <1>a, <1>g, <2>1
  <2> HIDE DEF CountCommit
  <2> QED BY <1>i, <2>1, <2>2, Counted
<1>1. Typed'
  BY <1>i, <1>u, <1>s, <1>x, <1>a, <1>r, <1>c, <1>e DEF Typed, TypeOK
<1>2. LinkPlaced'
  BY <1>i, <1>u, <1>s, <1>p, <1>x, <1>a, <1>r, <1>c, <1>e DEF LinkPlaced, Preparing
<1>3. Numbered'
  BY <1>i, <1>u, <1>s, <1>o, <1>p, <1>a, <1>r, <1>g, <1>b, <1>c, <1>e DEF Numbered, Asked,
     Acking, Answered, Preparing, Telling, Told, Collecting, Flowing, Gathered, TellCommit,
     TellRoll, Claimed
<1>4. Placed'
  BY <1>i, <1>u, <1>s, <1>o, <1>p, <1>a, <1>r, <1>g, <1>b, <1>c, <1>e DEF Placed, Asked, Acking,
     Answered, Preparing, TellCommit, Telling, Told, Collecting, Gathered, TellRoll, Claimed
<1>5. OneToken'
  BY <1>i, <1>u, <1>s, <1>o, <1>x, <1>a, <1>r, <1>b, <1>c DEF OneToken, TellRec, Asking
<1>6. Recovers'
  BY <1>i, <1>u, <1>s, <1>o, <1>p, <1>a, <1>r, <1>b, <1>c, <1>e DEF Recovers, TellRec, Recovery,
     Quiet, Asked, Acking, Answered, Preparing, Claimed, Asking
<1>7. BranchS'
  BY <1>i, <1>u, <1>s, <1>o, <1>p, <1>r, <1>g, <1>b, <1>c DEF BranchS, Asked, Acking, Telling,
     Told, Collecting, Recovery, TellRec, Asking, Gathered, TellCommit, TellRoll, Claimed
<1>8. Claims'
  BY <1>i, <1>u, <1>s, <1>o, <1>c DEF Claims, Claimed, Hold
<1>9. BranchR'
  BY <1>i, <1>u, <1>s, <1>o, <1>p, <1>a, <1>r, <1>b, <1>c, <1>e DEF BranchR, Asked, Acking,
     Answered, Preparing, Gathered, Dec, Claimed
<1>10. Apart'
  BY <1>i, <1>u, <1>a, <1>r, <1>b, <1>c, <1>e DEF Apart, Gathered, Active
<1>11. Same'
  BY <1>i, <1>u, <1>s, <1>o, <1>a, <1>r, <1>b, <1>c, <1>e DEF Same, Asked, Acking, Gathered,
     Claimed
<1>12. Agreed'
  BY <1>i, <1>u, <1>s, <1>o, <1>p, <1>a, <1>r, <1>b, <1>c, <1>e DEF Agreed, Preparing,
     TellCommit, TellRoll, Dec, Bound
<1>13. NoDuplicate'
  BY <1>i, <1>u DEF NoDuplicate
<1>14. NothingLost'
  BY <1>i, <1>u, <1>a, <1>c, <1>e DEF NothingLost, Bound
<1>15. DecidedIsHeld'
  BY <1>i, <1>u, <1>a, <1>c, <1>e DEF DecidedIsHeld, Bound
<1>16. Starting'
  BY <1>i, <1>u, <1>s, <1>o, <1>p, <1>r, <1>b, <1>c DEF Starting, Asked, Acking, Claimed
<1>17. Deciding'
  BY <1>i, <1>u, <1>s, <1>o, <1>p, <1>r, <1>b, <1>c DEF Deciding, Answered, Preparing
<1>18. Resuming'
  BY <1>i, <1>u, <1>o DEF Resuming
<1> QED
  BY <1>1, <1>2, <1>3, <1>4, <1>5, <1>6, <1>7, <1>8, <1>9, <1>10, <1>11, <1>12, <1>13, <1>14,
     <1>15, <1>16, <1>17, <1>18, <1>r, <1>s DEF ForwardInv

(* ism_fwd_doRecover: the receiver answers what became of a transaction.   *)
LEMMA DoRecoverKeeps ==
  ASSUME ForwardInv, DoRecover
  PROVE  ForwardInv'
<1>i. /\ Typed /\ OnceR /\ OnceS /\ LinkPlaced /\ Numbered /\ Placed /\ OneToken
      /\ Recovers /\ BranchS /\ Claims /\ BranchR /\ Apart /\ Same /\ Agreed
      /\ NoDuplicate /\ NothingLost /\ DecidedIsHeld /\ Starting /\ Deciding /\ Resuming
  BY DEF ForwardInv
<1>u. /\ linkUp' = linkUp /\ where' = where /\ sBranch' = sBranch /\ sMsgs' = sMsgs
      /\ senderXA' = senderXA
      /\ recoveryList' = recoveryList /\ sConn' = sConn /\ started' = started /\ sOps' = sOps
      /\ preparedXA' = preparedXA
      /\ suspended' = suspended /\ rUp' = rUp /\ rConn' = rConn /\ rBranch' = rBranch
      /\ rMsgs' = rMsgs
      /\ receiverXA' = receiverXA /\ commits' = commits /\ currentXA' = currentXA
      /\ xaList' = xaList /\ puts' = puts
      /\ rOps' = rOps /\ received' = received /\ faults' = faults
  BY DEF DoRecover, senderVars
<1>o. \A o, k : SOp(o, k)' <=> SOp(o, k)
  BY <1>u, SOpSame
<1>p. \A o, k : ROp(o, k)' <=> ROp(o, k)
  BY <1>u, ROpSame
<1>x. PICK x : x = Head(s2r)
  OBVIOUS
<1>a. /\ rConn = "open" /\ s2r # <<>> /\ x.t = "Recover" /\ x.g # NoXA /\ s2r' = Tail(s2r)
      /\ x = Head(s2r)
      /\ seqn' = (IF x.g > seqn THEN x.g + 1 ELSE seqn)
      /\ ToSender(<<Wire(Decision(x.g), x.g)>>)
  BY <1>x DEF DoRecover
<1>r. /\ x \in ToR /\ RLetter(x.t, x.g)
      /\ \A u, k : RLetter(u, k)' => RLetter(u, k)
      /\ \A u, k : RLetter(u, k) /\ ~(u = x.t /\ k = x.g) => RLetter(u, k)'
      /\ x.t \in {"RMessage", "PrepareReply", "Recover"} => ~RLetter(x.t, x.g)'
      /\ x.t = "Recover" => \A k : ~RLetter("Recover", k)'
      /\ \A k : Confirmed(k)' => Confirmed(k)
      /\ x.t = "PrepareReply" /\ x.ok => Confirmed(x.g)
      /\ OnceR' /\ s2r' \in Seq(ToR)
  BY <1>i, <1>a, RTail DEF Typed
<1>g. PICK g \in Gtrids : g = x.g /\ RLetter("Recover", g)
  BY <1>a, <1>r, ToRFields
<1>b. /\ \A u, k : RLetter(u, k)' => RLetter(u, k)
      /\ \A u, k : RLetter(u, k) /\ u # "Recover" => RLetter(u, k)'
      /\ \A k : ~RLetter("Recover", k)'
      /\ \A k : Confirmed(k)' => Confirmed(k)
  BY <1>a, <1>r
<1>c. Quiet /\ ~ConnRep /\ (\A k \in Gtrids : ~TellRec(k)) /\ ~Asking' /\ rUp /\ (linkUp => sConn = "open")
  BY <1>i, <1>a, <1>b, <1>g, AskingSome DEF Recovers, Recovery, OneToken, LinkPlaced, Asking
<1>d. PICK d \in {"CommitRecover", "RollRecover"} : d = Decision(g)
  BY DEF Decision
<1>e. d = "CommitRecover" <=> receiverXA[g] = "prepared"
  BY <1>d DEF Decision
<1>s. /\ \A u, k : SLetter(u, k)' <=> SLetter(u, k) \/ (linkUp /\ u = d /\ k = g)
      /\ \A k, n : Named(k, n)' <=> Named(k, n)
      /\ ConnRep' <=> ConnRep
      /\ OnceS' /\ r2s' \in Seq(ToS)
  <2>1. PICK y : y = Wire(d, g)
    OBVIOUS
  <2>2. y \in ToS /\ y.t = d /\ y.g = g /\ y.t \notin {"ConnectReply", "Prepare"}
    BY <2>1, WireToS, WireFields
  <2>3. /\ ~SLetter("Start", NoXA)
        /\ \A k \in Gtrids : ~SLetter("CommitRecover", k) /\ ~SLetter("RollRecover", k)
    BY <1>c DEF Quiet, TellRec
  <2> QED BY <1>a, <1>c, <1>d, <1>g, <1>i, <2>1, <2>2, <2>3, SSend DEF Typed
<1>z. linkUp \/ r2s' = r2s
  BY <1>a DEF ToSender
<1>f. /\ seqn' \in Nat /\ seqn \in Nat /\ seqn' >= seqn /\ g <= seqn'
      /\ \A k \in Gtrids : /\ k > seqn' => k > seqn /\ k > g
                           /\ k <= seqn => k <= seqn'
  BY <1>i, <1>a, <1>g, GtridsNat DEF Typed, TypeOK
<1>h. ~Flowing /\ ~Flowing'
  <2>1. ~RLetter("Recover", NoXA)
    <3>1. \A k : RLetter("Recover", k) => k = g
      BY <1>a, <1>b, <1>g, <1>r
    <3> QED BY <3>1, GtridsNat
  <2>2. currentXA # NoXA => rMsgs[currentXA] = {}
    BY <1>i, <1>c DEF Quiet, BranchR, Gathered, Typed, TypeOK
  <2>3. ~SLetter("Start", NoXA)'
    BY <1>s, <1>c DEF Quiet
  <2> QED BY <1>b, <1>c, <1>u, <2>1, <2>2, <2>3 DEF Flowing, Quiet
<1>j. /\ ~Asked(g) /\ ~Acking(g) /\ ~Answered(g) /\ ~Preparing(g) /\ ~ROp("create", g)
      /\ sBranch[g] # "inflight"
      /\ d = "CommitRecover" => Dec(g) /\ rBranch[g] # "inflight"
      /\ d = "RollRecover" /\ sBranch[g] = "prepared" => ~Dec(g)
  BY <1>i, <1>c, <1>e DEF Quiet, BranchR, Agreed, Dec
<1>k. ~linkUp => ~Recovery'
  BY <1>b, <1>c, <1>s, <1>o DEF Recovery, TellRec
<1>l. linkUp => TellRec(g)' /\ Recovery'
  BY <1>s, <1>d DEF Recovery, TellRec
<1>1. Typed'
  BY <1>i, <1>u, <1>x, <1>a, <1>r, <1>c, <1>d, <1>e, <1>s, <1>z, <1>f, <1>j, <1>k, <1>l DEF
     Typed, TypeOK
<1>2. LinkPlaced'
  BY <1>i, <1>u, <1>p, <1>x, <1>a, <1>r, <1>c, <1>d, <1>e, <1>s, <1>z, <1>j, <1>k, <1>l DEF
     LinkPlaced, Preparing
<1>3. Numbered'
  BY <1>i, <1>b, <1>c, <1>f, <1>h, <1>o, <1>p, <1>s, <1>u DEF Numbered, Told, Telling,
     TellCommit, TellRoll, Collecting, Gathered, Preparing
<1>4. Placed'
  BY <1>i, <1>u, <1>o, <1>p, <1>r, <1>g, <1>b, <1>d, <1>s, <1>j DEF Placed, Asked, Acking,
     Answered, Preparing, TellCommit, Telling, Told, Collecting, Gathered, TellRoll, Claimed
<1>5. OneToken'
  BY <1>i, <1>u, <1>o, <1>x, <1>a, <1>r, <1>g, <1>b, <1>c, <1>d, <1>s, <1>l DEF OneToken,
     TellRec, Asking
<1>6. Recovers'
  <2>1. Quiet'
    BY <1>b, <1>c, <1>o, <1>p, <1>s, <1>u DEF Quiet, Asked, Acking, Claimed, Answered, Preparing
  <2>2. \A k \in Gtrids : linkUp /\ sConn = "open" /\ sBranch[k] # "none" => k \in recoveryList \/ k = g
    <3>1. \A k : RLetter("Recover", k) => k = g
      BY <1>a, <1>b, <1>g, <1>r
    <3>2. Recovery
      BY <1>g, AskingSome DEF Recovery
    <3> QED BY <1>i, <1>c, <3>1, <3>2 DEF Recovers
  <2> QED BY <1>b, <1>c, <1>k, <1>l, <1>u, <2>1, <2>2 DEF Recovers
<1>7. BranchS'
  BY <1>i, <1>u, <1>o, <1>p, <1>r, <1>g, <1>b, <1>c, <1>d, <1>s, <1>z, <1>j, <1>k, <1>l DEF
     BranchS, Asked, Acking, Telling, Told, Collecting, Recovery, TellRec, Asking, Gathered,
     TellCommit, TellRoll, Claimed
<1>8. Claims'
  BY <1>i, <1>u, <1>o, <1>s DEF Claims, Claimed, Hold
<1>9. BranchR'
  BY <1>i, <1>u, <1>o, <1>p, <1>r, <1>g, <1>b, <1>d, <1>e, <1>s, <1>j DEF BranchR, Asked,
     Acking, Answered, Preparing, Gathered, Dec, Claimed
<1>10. Apart'
  BY <1>i, <1>u, <1>r, <1>g, <1>b, <1>d, <1>j DEF Apart, Gathered, Active
<1>11. Same'
  BY <1>i, <1>u, <1>o, <1>r, <1>g, <1>b, <1>c, <1>d, <1>s, <1>z, <1>j, <1>k, <1>l DEF Same,
     Asked, Acking, Gathered, Claimed
<1>12. Agreed'
  BY <1>i, <1>u, <1>o, <1>p, <1>r, <1>b, <1>c, <1>d, <1>e, <1>s, <1>j DEF Agreed, Preparing,
     TellCommit, TellRoll, Dec, Bound
<1>13. NoDuplicate'
  BY <1>i, <1>u, <1>d DEF NoDuplicate
<1>14. NothingLost'
  BY <1>i, <1>u, <1>d, <1>j DEF NothingLost
<1>15. DecidedIsHeld'
  BY <1>i, <1>u, <1>d, <1>j DEF DecidedIsHeld
<1>16. Starting'
  BY <1>i, <1>u, <1>o, <1>p, <1>r, <1>g, <1>b, <1>c, <1>d, <1>s, <1>z, <1>j, <1>k, <1>l DEF
     Starting, Asked, Acking, Claimed
<1>17. Deciding'
  BY <1>i, <1>u, <1>o, <1>p, <1>r, <1>g, <1>b, <1>c, <1>d, <1>s, <1>z, <1>j, <1>k, <1>l DEF
     Deciding, Answered, Preparing
<1>18. Resuming'
  BY <1>i, <1>u, <1>o, <1>c, <1>d DEF Resuming
<1> QED
  BY <1>1, <1>2, <1>3, <1>4, <1>5, <1>6, <1>7, <1>8, <1>9, <1>10, <1>11, <1>12, <1>13, <1>14,
     <1>15, <1>16, <1>17, <1>18, <1>r, <1>s DEF ForwardInv

(* The receiver hears that nothing is left to recover, and starts.         *)
LEMMA RecoverDoneKeeps ==
  ASSUME ForwardInv, RecoverDone
  PROVE  ForwardInv'
<1>i. /\ Typed /\ OnceR /\ OnceS /\ LinkPlaced /\ Numbered /\ Placed /\ OneToken
      /\ Recovers /\ BranchS /\ Claims /\ BranchR /\ Apart /\ Same /\ Agreed
      /\ NoDuplicate /\ NothingLost /\ DecidedIsHeld /\ Starting /\ Deciding /\ Resuming
  BY DEF ForwardInv
<1>u. /\ linkUp' = linkUp /\ where' = where /\ sBranch' = sBranch /\ sMsgs' = sMsgs
      /\ senderXA' = senderXA
      /\ recoveryList' = recoveryList /\ sConn' = sConn /\ started' = started /\ sOps' = sOps
      /\ preparedXA' = preparedXA
      /\ suspended' = suspended /\ rUp' = rUp /\ rConn' = rConn /\ xaList' = xaList /\ puts' = puts
      /\ rOps' = rOps /\ faults' = faults
  BY DEF RecoverDone, senderVars
<1>o. \A o, k : SOp(o, k)' <=> SOp(o, k)
  BY <1>u, SOpSame
<1>p. \A o, k : ROp(o, k)' <=> ROp(o, k)
  BY <1>u, ROpSame
<1>x. PICK x : x = Head(s2r)
  OBVIOUS
<1>a. /\ rConn = "open" /\ s2r # <<>> /\ x.t = "Recover" /\ x.g = NoXA /\ s2r' = Tail(s2r)
      /\ x = Head(s2r)
      /\ ToSender(<<Wire("Start", NoXA)>>)
  BY <1>x DEF RecoverDone
<1>r. /\ x \in ToR /\ RLetter(x.t, x.g)
      /\ \A u, k : RLetter(u, k)' => RLetter(u, k)
      /\ \A u, k : RLetter(u, k) /\ ~(u = x.t /\ k = x.g) => RLetter(u, k)'
      /\ x.t \in {"RMessage", "PrepareReply", "Recover"} => ~RLetter(x.t, x.g)'
      /\ x.t = "Recover" => \A k : ~RLetter("Recover", k)'
      /\ \A k : Confirmed(k)' => Confirmed(k)
      /\ x.t = "PrepareReply" /\ x.ok => Confirmed(x.g)
      /\ OnceR' /\ s2r' \in Seq(ToR)
  BY <1>i, <1>a, RTail DEF Typed
<1>b. /\ \A u, k : RLetter(u, k)' => RLetter(u, k)
      /\ \A u, k : RLetter(u, k) /\ u # "Recover" => RLetter(u, k)'
      /\ \A k : ~RLetter("Recover", k)'
      /\ RLetter("Recover", NoXA)
      /\ \A k : Confirmed(k)' => Confirmed(k)
  BY <1>a, <1>r
<1>c. /\ Quiet /\ ~ConnRep /\ (\A k \in Gtrids : ~TellRec(k)) /\ ~Asking' /\ rUp /\ (linkUp => sConn = "open")
      /\ \A k \in Gtrids : sBranch[k] = "none" /\ rBranch[k] # "prepared"
      /\ Flowing
  BY <1>i, <1>a, <1>b, AskingSome DEF Recovers, Recovery, OneToken, LinkPlaced, Asking, Flowing
<1>t. \A k \in Gtrids : ~Telling(k)
  BY <1>c DEF Quiet, TellRec, Telling, TellCommit, TellRoll
<1>s. /\ \A u, k : SLetter(u, k)' <=> SLetter(u, k) \/ (linkUp /\ u = "Start" /\ k = NoXA)
      /\ \A k, n : Named(k, n)' <=> Named(k, n)
      /\ ConnRep' <=> ConnRep
      /\ OnceS' /\ r2s' \in Seq(ToS)
  <2>1. PICK y : y = Wire("Start", NoXA)
    OBVIOUS
  <2>2. y \in ToS /\ y.t = "Start" /\ y.g = NoXA
    BY <2>1, WireToS, WireFields
  <2>3. /\ ~ConnRep /\ ~SLetter("Start", NoXA)
        /\ \A k \in Gtrids : ~SLetter("CommitRecover", k) /\ ~SLetter("RollRecover", k)
    BY <1>c DEF Quiet, TellRec
  <2> QED BY <1>a, <1>i, <2>1, <2>2, <2>3, SSend DEF Typed
<1>z. linkUp \/ r2s' = r2s
  BY <1>a DEF ToSender
<1>g. PICK g \in Gtrids :
        /\ NewXA(g, [h \in Gtrids |-> "no"], commits) /\ currentXA' = g
        /\ rMsgs' = [rMsgs EXCEPT ![g] = {}] /\ received' = received
        /\ DOMAIN rBranch' = Gtrids /\ rBranch' = [h \in Gtrids |-> rBranch'[h]]
        /\ \A h \in Gtrids :
             rBranch'[h] = IF h = g THEN "inflight"
                           ELSE IF receiverXA[h] = "prepared" /\ rBranch[h] = "heuristic"
                                THEN "forgetting" ELSE rBranch[h]
  <2> DEFINE decided == {h \in Gtrids : receiverXA[h] = "prepared"}
             late == {h \in decided : rBranch[h] = "prepared"}
             ended == {h \in decided : rBranch[h] = "heuristic"}
  <2>1. late = {}
    BY <1>c
  <2>2. PICK g \in Gtrids :
           /\ NewXA(g, [h \in Gtrids |-> "no"], commits)
           /\ rBranch' = [h \in Gtrids |-> CASE h = g -> "inflight"
                                             [] h \in late -> "none"
                                             [] h \in ended -> "forgetting"
                                             [] OTHER -> rBranch[h]]
           /\ received' = Deliver(late)
           /\ rMsgs' = [rMsgs EXCEPT ![g] = {}]
           /\ currentXA' = g
    BY DEF RecoverDone
  <2>3. received' = received
    BY <1>i, <2>1, <2>2, DeliverNone
  <2>5. \A h : /\ h \notin late
               /\ h \in ended <=> h \in Gtrids /\ receiverXA[h] = "prepared" /\ rBranch[h] = "heuristic"
    BY <2>1
  <2> HIDE DEF late, ended
  <2>7. rBranch[g] = "none"
    BY <1>i, <1>c, <2>2, GtridsNat DEF Numbered, NewXA, Typed, TypeOK
  <2>4. ASSUME NEW h \in Gtrids
        PROVE  rBranch'[h] = IF h = g THEN "inflight"
                             ELSE IF receiverXA[h] = "prepared" /\ rBranch[h] = "heuristic"
                                  THEN "forgetting" ELSE rBranch[h]
    <3>1. rBranch'[h] = CASE h = g -> "inflight"
                          [] h \in late -> "none"
                          [] h \in ended -> "forgetting"
                          [] OTHER -> rBranch[h]
      BY <2>2
    <3>2. CASE h = g
      BY <2>5, <2>7, <3>1, <3>2
    <3>3. CASE h # g /\ h \in ended
      BY <2>5, <3>1, <3>3
    <3>4. CASE h # g /\ h \notin ended
      BY <2>5, <3>1, <3>4
    <3> QED BY <3>2, <3>3, <3>4
  <2>6. DOMAIN rBranch' = Gtrids /\ rBranch' = [h \in Gtrids |-> rBranch'[h]]
    BY <2>2
  <2> QED BY <2>2, <2>3, <2>4, <2>6
<1>e. /\ g = seqn + 1 /\ seqn' = g /\ currentXA' = g /\ seqn \in Nat /\ received' = received
      /\ \A k \in Gtrids : /\ rMsgs'[k] = IF k = g THEN {} ELSE rMsgs[k]
                           /\ receiverXA'[k] = IF k = g THEN "linked" ELSE "no"
                           /\ commits'[k] = IF k = g THEN 0 ELSE commits[k]
                           /\ rBranch'[k] = IF k = g THEN "inflight"
                                            ELSE IF receiverXA[k] = "prepared" /\ rBranch[k] = "heuristic"
                                                 THEN "forgetting" ELSE rBranch[k]
      /\ rMsgs' \in [Gtrids -> SUBSET Msgs] /\ commits' \in [Gtrids -> 0..2]
      /\ receiverXA' \in [Gtrids -> {"no", "linked", "prepared"}]
      /\ rBranch' \in [Gtrids -> {"none", "inflight", "prepared", "committing", "heuristic",
                                  "forgetting"}]
  BY <1>i, <1>g DEF NewXA, Typed, TypeOK
<1>f. /\ rBranch[g] = "none" /\ receiverXA[g] = "no" /\ ~Collecting(g) /\ ~Preparing(g)
      /\ ~ROp("commit", g) /\ ~ROp("recoverCommit", g) /\ ~Told(g)
      /\ \A k \in Gtrids : k > seqn' => k > seqn
      /\ \A k \in Gtrids : k <= seqn => k <= seqn'
  BY <1>i, <1>c, <1>e, GtridsNat DEF Numbered
<1>h. /\ \A k \in Gtrids : /\ ~Asked(k)' /\ ~Acking(k)' /\ ~Answered(k)' /\ ~Preparing(k)'
                           /\ ~Telling(k)' /\ ~ROp("create", k)' /\ ~ROp("commit", k)'
                           /\ ~TellRec(k)' /\ (Told(k)' <=> Told(k)) /\ ~Confirmed(k)'
      /\ ~Recovery' /\ ~ConnRep' /\ \A k, n : ~Named(k, n) \/ k \notin Gtrids
      /\ \A m \in Msgs : ~RLetter("RMessage", m)'
  <2>1. \A k \in Gtrids : /\ ~Asked(k)' /\ ~Acking(k)' /\ ~Answered(k)' /\ ~Preparing(k)'
                          /\ ~Telling(k)' /\ ~ROp("create", k)' /\ ~ROp("commit", k)'
                          /\ ~TellRec(k)' /\ (Told(k)' <=> Told(k))
    BY <1>b, <1>c, <1>o, <1>p, <1>s, <1>t
      DEF Quiet, Asked, Acking, Claimed, Answered, Preparing, Telling,
       TellCommit, TellRoll, TellRec, Told
  <2>2. \A k \in Gtrids : ~Confirmed(k)'
    BY <1>b, <1>c, ConfirmedIsAnswer DEF Quiet
  <2>3. \A k \in Gtrids : \A n : ~Named(k, n)
    BY <1>c DEF Quiet, Asked, Named, SLetter
  <2> QED BY <1>b, <1>c, <1>s, <2>1, <2>2, <2>3 DEF Recovery, Quiet
<1>1. Typed'
  BY <1>i, <1>u, <1>e, <1>r, <1>s, GtridsNat DEF Typed, TypeOK
<1>2. LinkPlaced'
  BY <1>a, <1>c, <1>e, <1>i, <1>u, <1>z, <1>h DEF LinkPlaced
<1>3. Numbered'
  BY <1>c, <1>e, <1>f, <1>h, <1>i, <1>u, <1>p, GtridsNat DEF Numbered, Collecting, Gathered,
     Quiet, Preparing
<1>4. Placed'
  BY <1>c, <1>e, <1>f, <1>h, <1>i, <1>u DEF Placed, Telling
<1>5. OneToken'
  BY <1>c, <1>h, <1>i, <1>s, <1>o DEF OneToken, TellRec
<1>6. Recovers'
  BY <1>b, <1>h DEF Recovers
<1>7. BranchS'
  BY <1>c, <1>h, <1>i, <1>u DEF BranchS, Acking, Claimed
<1>8. Claims'
  BY <1>i, <1>u, <1>o, <1>s DEF Claims, Claimed, Hold
<1>9. BranchR'
  BY <1>c, <1>e, <1>f, <1>h, <1>i, <1>u, <1>p, GtridsNat DEF BranchR, Gathered, Quiet
<1>10. Apart'
  <2>1. \A k \in Gtrids : \/ rMsgs'[k] = {}
                          \/ /\ rMsgs'[k] = rMsgs[k] /\ (Active(k)' <=> Active(k))
                             /\ rBranch'[k] \in {"heuristic", "forgetting"} =>
                                    rBranch[k] \in {"heuristic", "forgetting"}
    BY <1>c, <1>e DEF Active
  <2>2. puts' = {}
    BY <1>c, <1>u DEF Quiet
  <2> QED BY <1>e, <1>h, <1>i, <2>1, <2>2 DEF Apart
<1>11. Same'
  <2>1. \A k \in Gtrids : rBranch'[k] = "inflight" => rMsgs'[k] = {}
    BY <1>c, <1>e DEF Quiet
  <2>2. \A k \in Gtrids : Gathered(k)' => rBranch'[k] = "inflight"
    BY <1>c, <1>e, <1>u DEF Gathered, Quiet
  <2> QED BY <1>h, <2>1, <2>2 DEF Same
<1>12. Agreed'
  BY <1>c, <1>h, <1>u DEF Agreed
<1>13. NoDuplicate'
  BY <1>e, <1>i DEF NoDuplicate
<1>14. NothingLost'
  BY <1>c, <1>e, <1>f, <1>i, <1>u DEF NothingLost
<1>15. DecidedIsHeld'
  BY <1>c, <1>e, <1>f, <1>i, <1>u DEF DecidedIsHeld
<1>16. Starting'
  <2>1. puts = {} /\ ~started
    BY <1>c DEF Quiet
  <2> QED BY <1>c, <1>e, <1>h, <1>u, <2>1 DEF Starting
<1>17. Deciding'
  BY <1>i, <1>u, <1>o, <1>p, <1>r, <1>b, <1>c, <1>s, <1>z, <1>f, <1>h DEF Deciding, Answered,
     Preparing
<1>18. Resuming'
  BY <1>i, <1>u, <1>o, <1>c DEF Resuming
<1> QED
  BY <1>1, <1>2, <1>3, <1>4, <1>5, <1>6, <1>7, <1>8, <1>9, <1>10, <1>11, <1>12, <1>13, <1>14,
     <1>15, <1>16, <1>17, <1>18, <1>r, <1>s DEF ForwardInv

(* The receiving server stops: its prepared branches are left.             *)
LEMMA ReceiverCrashKeeps ==
  ASSUME ForwardInv, ReceiverCrash
  PROVE  ForwardInv'
<1>i. /\ Typed /\ OnceR /\ OnceS /\ LinkPlaced /\ Numbered /\ Placed /\ OneToken
      /\ Recovers /\ BranchS /\ Claims /\ BranchR /\ Apart /\ Same /\ Agreed
      /\ NoDuplicate /\ NothingLost /\ DecidedIsHeld /\ Starting /\ Deciding /\ Resuming
  BY DEF ForwardInv
<1>u. /\ r2s' = r2s /\ where' = where /\ sBranch' = sBranch /\ sMsgs' = sMsgs
      /\ senderXA' = senderXA
      /\ recoveryList' = recoveryList /\ sConn' = sConn /\ started' = started /\ sOps' = sOps
      /\ preparedXA' = preparedXA
      /\ suspended' = suspended /\ rMsgs' = rMsgs /\ received' = received
  BY DEF ReceiverCrash, senderVars
<1>s. /\ \A u, k : SLetter(u, k)' <=> SLetter(u, k)
      /\ \A k, n : Named(k, n)' <=> Named(k, n)
      /\ ConnRep' <=> ConnRep
      /\ OnceS' /\ r2s' \in Seq(ToS)
  BY <1>i, <1>u, SSame DEF Typed
<1>o. \A o, k : SOp(o, k)' <=> SOp(o, k)
  BY <1>u, SOpSame
<1>a. /\ faults < MaxFaults /\ faults' = faults + 1 /\ linkUp' = FALSE /\ s2r' = <<>>
      /\ rUp' = FALSE
      /\ rConn' = "closed" /\ currentXA' = NoXA /\ xaList' = {} /\ puts' = {} /\ rOps' = {}
      /\ seqn' = 0
      /\ receiverXA' = [g \in Gtrids |-> "no"] /\ commits' = [g \in Gtrids |-> 0]
  BY DEF ReceiverCrash
<1>f. faults' \in 0..MaxFaults
  BY <1>i, <1>a, FaultsBounded DEF Typed
<1>r. /\ \A u, k : ~RLetter(u, k)'
      /\ \A k : ~Confirmed(k)'
      /\ OnceR' /\ s2r' \in Seq(ToR)
  BY RNone, <1>a
<1>p. \A o, k : ~ROp(o, k)'
  BY <1>a DEF ROp
<1>e. /\ \A g \in Gtrids :
           /\ rBranch[g] \in {"none", "inflight"} => rBranch'[g] = "none"
           /\ rBranch[g] \in {"prepared", "committing"} => rBranch'[g] = "prepared"
           /\ rBranch[g] \in {"heuristic", "forgetting"} => rBranch'[g] = "heuristic"
           /\ receiverXA'[g] = "no" /\ commits'[g] = 0
      /\ rBranch' \in [Gtrids -> {"none", "inflight", "prepared", "committing", "heuristic",
                                  "forgetting"}]
  <2>1. rBranch \in [Gtrids -> {"none", "inflight", "prepared", "committing", "heuristic",
                               "forgetting"}]
    BY <1>i DEF Typed, TypeOK
  <2>2. rBranch' = [g \in Gtrids |-> CASE rBranch[g] = "inflight" -> "none"
                                      [] rBranch[g] = "committing" -> "prepared"
                                      [] rBranch[g] = "forgetting" -> "heuristic"
                                      [] OTHER -> rBranch[g]]
    BY DEF ReceiverCrash
  <2> QED BY <1>a, <2>1, <2>2
<1>g. \A g \in Gtrids : rBranch[g] \in {"none", "inflight", "prepared", "committing", "heuristic",
                                  "forgetting"}
  BY <1>i DEF Typed, TypeOK
<1>1. Typed'
  <2>1. /\ commits' \in [Gtrids -> 0..2]
        /\ receiverXA' \in [Gtrids -> {"no", "linked", "prepared"}]
        /\ currentXA' \in Gtrids \cup {NoXA} /\ xaList' \subseteq Gtrids /\ puts' \subseteq Msgs
        /\ rOps' \subseteq RCalls /\ (\A y \in rOps' : y.g \in Gtrids) /\ seqn' \in Nat
        /\ rUp' \in BOOLEAN /\ linkUp' \in BOOLEAN /\ rConn' \in {"closed", "open", "closing"}
    <3>1. commits' \in [Gtrids -> 0..2] /\ receiverXA' \in [Gtrids -> {"no", "linked", "prepared"}]
      BY <1>a
    <3>2. rOps' \subseteq RCalls /\ \A y \in rOps' : y.g \in Gtrids
      BY <1>a
    <3>3. /\ currentXA' \in Gtrids \cup {NoXA} /\ xaList' \subseteq Gtrids /\ puts' \subseteq Msgs
          /\ seqn' \in Nat /\ rUp' \in BOOLEAN /\ linkUp' \in BOOLEAN
          /\ rConn' \in {"closed", "open", "closing"}
      BY <1>a
    <3> QED BY <3>1, <3>2, <3>3
  <2>2. TypeOK'
    BY <1>i, <1>u, <1>e, <1>f, <2>1 DEF Typed, TypeOK
  <2> QED BY <1>i, <1>u, <1>r, <1>s, <2>1, <2>2 DEF Typed
<1>2. LinkPlaced'
  BY <1>i, <1>u, <1>s, <1>a, <1>r, <1>p, <1>e, <1>g, GtridsNat DEF LinkPlaced, Preparing
<1>3. Numbered'
  BY <1>i, <1>u, <1>s, <1>o, <1>a, <1>r, <1>p, <1>e, <1>g, GtridsNat DEF Numbered, Asked,
     Acking, Answered, Preparing, Telling, Told, Collecting, Flowing, Gathered, TellCommit,
     TellRoll, Claimed
<1>4. Placed'
  BY <1>i, <1>u, <1>s, <1>o, <1>a, <1>r, <1>p, <1>e, <1>g, GtridsNat DEF Placed, Asked, Acking,
     Answered, Preparing, TellCommit, Telling, Told, Collecting, Gathered, TellRoll, Claimed
<1>5. OneToken'
  BY <1>i, <1>u, <1>s, <1>o, <1>a, <1>r DEF OneToken, TellRec, Asking
<1>6. Recovers'
  BY <1>i, <1>u, <1>s, <1>o, <1>a, <1>r, <1>p, <1>e, <1>g, GtridsNat DEF Recovers, OneToken,
     TellRec, Recovery, Quiet, Asked, Acking, Answered, Preparing, Claimed, Asking
<1>7. BranchS'
  BY <1>i, <1>u, <1>s, <1>o, <1>a, <1>r, <1>p, GtridsNat DEF BranchS, Asked, Acking, Telling,
     Told, Collecting, Recovery, TellRec, Asking, Gathered, TellCommit, TellRoll, Claimed
<1>8. Claims'
  BY <1>i, <1>u, <1>o, <1>s DEF Claims, Claimed, Hold
<1>9. BranchR'
  BY <1>i, <1>u, <1>s, <1>o, <1>a, <1>r, <1>p, <1>e, <1>g, GtridsNat DEF BranchR, Asked, Acking,
     Answered, Preparing, Gathered, Dec, Claimed
<1>10. Apart'
  BY <1>i, <1>u, <1>a, <1>r, <1>e, <1>g, GtridsNat DEF Apart, Gathered, Active
<1>11. Same'
  BY <1>i, <1>u, <1>s, <1>o, <1>a, <1>r, <1>e, <1>g, GtridsNat DEF Same, Asked, Acking,
     Gathered, Claimed
<1>12. Agreed'
  <2>1. \A k \in Gtrids : (Dec(k)' <=> Dec(k)) /\ (rBranch'[k] \in Bound <=> rBranch[k] \in Bound)
    BY <1>e, <1>g DEF Dec, Bound
  <2>2. \A k \in Gtrids : ~Preparing(k)' /\ ~Confirmed(k)' /\ ~ROp("commit", k)' /\ rBranch'[k] # "forgetting"
    BY <1>e, <1>g, <1>p, <1>r DEF Preparing
  <2>3. \A k \in Gtrids : (TellCommit(k)' <=> TellCommit(k)) /\ (TellRoll(k)' <=> TellRoll(k))
    BY <1>o, <1>s DEF TellCommit, TellRoll
  <2> QED BY <1>i, <1>u, <1>a, <2>1, <2>2, <2>3 DEF Agreed
<1>13. NoDuplicate'
  BY <1>i, <1>u DEF NoDuplicate
<1>14. NothingLost'
  BY <1>i, <1>u, <1>e, <1>g DEF NothingLost
<1>15. DecidedIsHeld'
  BY <1>i, <1>u, <1>e, <1>g DEF DecidedIsHeld
<1>16. Starting'
  BY <1>i, <1>u, <1>s, <1>o, <1>a, <1>r, <1>p DEF Starting, Asked, Acking, Claimed
<1>17. Deciding'
  BY <1>i, <1>u, <1>s, <1>o, <1>a, <1>r, <1>p DEF Deciding, Answered, Preparing
<1>18. Resuming'
  BY <1>i, <1>u, <1>o DEF Resuming
<1> QED
  BY <1>1, <1>2, <1>3, <1>4, <1>5, <1>6, <1>7, <1>8, <1>9, <1>10, <1>11, <1>12, <1>13, <1>14,
     <1>15, <1>16, <1>17, <1>18, <1>r, <1>s DEF ForwardInv

(* The receiving server restarts and finds its prepared branches.          *)
LEMMA RecoverTransactionsKeeps ==
  ASSUME ForwardInv, RecoverTransactions
  PROVE  ForwardInv'
<1>i. /\ Typed /\ OnceR /\ OnceS /\ LinkPlaced /\ Numbered /\ Placed /\ OneToken
      /\ Recovers /\ BranchS /\ Claims /\ BranchR /\ Apart /\ Same /\ Agreed
      /\ NoDuplicate /\ NothingLost /\ DecidedIsHeld /\ Starting /\ Deciding /\ Resuming
  BY DEF ForwardInv
<1>u. /\ s2r' = s2r /\ r2s' = r2s /\ linkUp' = linkUp /\ where' = where /\ sBranch' = sBranch
      /\ sMsgs' = sMsgs /\ senderXA' = senderXA /\ recoveryList' = recoveryList
      /\ sConn' = sConn /\ started' = started
      /\ sOps' = sOps /\ preparedXA' = preparedXA /\ suspended' = suspended /\ rConn' = rConn
      /\ rMsgs' = rMsgs
      /\ currentXA' = currentXA /\ xaList' = xaList /\ puts' = puts /\ faults' = faults
  BY DEF RecoverTransactions, link, senderVars
<1>r. /\ \A u, k : RLetter(u, k)' <=> RLetter(u, k)
      /\ \A k : Confirmed(k)' <=> Confirmed(k)
      /\ OnceR' /\ s2r' \in Seq(ToR)
  BY <1>i, <1>u, RSame DEF Typed
<1>s. /\ \A u, k : SLetter(u, k)' <=> SLetter(u, k)
      /\ \A k, n : Named(k, n)' <=> Named(k, n)
      /\ ConnRep' <=> ConnRep
      /\ OnceS' /\ r2s' \in Seq(ToS)
  BY <1>i, <1>u, SSame DEF Typed
<1>o. \A o, k : SOp(o, k)' <=> SOp(o, k)
  BY <1>u, SOpSame
<1>a. ~rUp /\ rUp' = TRUE
  BY DEF RecoverTransactions
<1>c. /\ rConn = "closed" /\ rOps = {} /\ ~linkUp /\ s2r = <<>> /\ currentXA = NoXA
      /\ xaList = {} /\ puts = {}
      /\ \A k \in Gtrids : receiverXA[k] = "no" /\ rBranch[k] \in {"none", "prepared", "heuristic"}
      /\ \A o, k : ~ROp(o, k)
      /\ \A u, k : ~RLetter(u, k)
      /\ \A k : ~Confirmed(k)
  <2>1. /\ rConn = "closed" /\ rOps = {} /\ ~linkUp /\ s2r = <<>>
        /\ currentXA = NoXA /\ xaList = {} /\ puts = {}
        /\ \A k \in Gtrids : receiverXA[k] = "no" /\ rBranch[k] \in {"none", "prepared", "heuristic"}
    BY <1>i, <1>a DEF LinkPlaced
  <2> QED BY <2>1, REmpty DEF ROp
<1>y. PICK sync \in SUBSET ToCommit :
        LET found == ToCommit \cup {g \in Gtrids : rBranch[g] = "heuristic"}
        IN  /\ receiverXA' = [g \in Gtrids |-> IF g \in found THEN "prepared" ELSE receiverXA[g]]
            /\ rBranch' = [g \in Gtrids |-> CASE g \in sync -> "heuristic"
                                              [] g \in ToCommit \ sync -> "committing"
                                              [] OTHER -> rBranch[g]]
            /\ commits' = [g \in Gtrids |-> IF receiverXA'[g] # "no" /\ g \notin ToCommit \ sync
                                            THEN 1 ELSE commits[g]]
            /\ rOps' = rOps \cup {Op("recoverCommit", g) : g \in ToCommit \ sync}
            /\ received' = Deliver(sync)
            /\ IF found = {} THEN UNCHANGED seqn
               ELSE \E last \in found : /\ \A g \in found : g <= last
                                        /\ seqn' = last + RestartGap
  BY DEF RecoverTransactions
<1>t. /\ \A k \in Gtrids : k \in ToCommit <=> rBranch[k] = "prepared"
      /\ ToCommit \subseteq Gtrids /\ sync \subseteq ToCommit
  BY DEF ToCommit
<1>p. /\ \A o, k : ROp(o, k)' <=> o = "recoverCommit" /\ k \in ToCommit /\ k \notin sync
      /\ rOps' \subseteq RCalls /\ \A x \in rOps' : x.g \in Gtrids
  BY <1>c, <1>y, <1>t, OpEq, CallsR DEF ROp
<1>e. /\ \A k \in Gtrids :
           /\ rBranch[k] = "none" => rBranch'[k] = "none" /\ receiverXA'[k] = "no"
           /\ rBranch[k] = "heuristic" => rBranch'[k] = "heuristic" /\ receiverXA'[k] = "prepared"
           /\ rBranch[k] = "prepared" => /\ rBranch'[k] = IF k \in sync THEN "heuristic" ELSE "committing"
                                         /\ receiverXA'[k] = "prepared"
      /\ rBranch' \in [Gtrids -> {"none", "inflight", "prepared", "committing", "heuristic",
                                  "forgetting"}]
      /\ receiverXA' \in [Gtrids -> {"no", "linked", "prepared"}]
  <2>1. ASSUME NEW k \in Gtrids
        PROVE  /\ rBranch'[k] = IF k \in sync THEN "heuristic"
                                ELSE IF k \in ToCommit THEN "committing" ELSE rBranch[k]
               /\ receiverXA'[k] = IF k \in ToCommit \/ rBranch[k] = "heuristic" THEN "prepared" ELSE "no"
    BY <1>c, <1>t, <1>y
  <2>2. DOMAIN rBranch' = Gtrids /\ rBranch' = [k \in Gtrids |-> rBranch'[k]]
    BY <1>y
  <2>3. DOMAIN receiverXA' = Gtrids /\ receiverXA' = [k \in Gtrids |-> receiverXA'[k]]
    BY <1>y
  <2> QED BY <1>c, <1>t, <2>1, <2>2, <2>3
<1>h. commits' \in [Gtrids -> 0..2]
  BY <1>i, <1>y DEF Typed, TypeOK
<1>f. /\ seqn' \in Nat /\ \A k \in Gtrids : k > seqn' => rBranch[k] = "none"
  <2> DEFINE found == ToCommit \cup {g \in Gtrids : rBranch[g] = "heuristic"}
  <2>1. \A k \in Gtrids : k \in found <=> rBranch[k] # "none"
    BY <1>c, <1>t
  <2>2. found \subseteq Gtrids /\ RestartGap \in Nat /\ seqn \in Nat
    BY <1>t, <1>i, ForwarderAssumption DEF Typed, TypeOK
  <2>3. IF found = {} THEN seqn' = seqn
        ELSE \E last \in found : (\A g \in found : g <= last) /\ seqn' = last + RestartGap
    BY <1>y
  <2> HIDE DEF found
  <2>4. CASE found = {}
    BY <2>1, <2>2, <2>3, <2>4
  <2>5. CASE found # {}
    <3>1. PICK last \in found : (\A g \in found : g <= last) /\ seqn' = last + RestartGap
      BY <2>3, <2>5
    <3>2. last \in Nat /\ seqn' \in Nat /\ seqn' >= last
      BY <2>2, <3>1, GtridsNat
    <3>3. \A k \in Gtrids : k > seqn' => k \notin found
      BY <2>2, <3>1, <3>2, GtridsNat
    <3> QED BY <2>1, <3>2, <3>3
  <2> QED BY <2>4, <2>5
<1>d. /\ \A m \in Msgs : received'[m] = IF \E k \in sync : m \in rMsgs[k] THEN received[m] + 1 ELSE received[m]
      /\ received' \in [Msgs -> Nat]
  <2>1. \A m \in Msgs : \A g, h \in sync : m \in rMsgs[g] /\ m \in rMsgs[h] => g = h
    BY <1>i, <1>t DEF Apart, Active
  <2>2. received' = Deliver(sync) /\ sync \subseteq Gtrids
    BY <1>y, <1>t
  <2> QED BY <1>i, <2>1, <2>2, DeliverApart
<1>v. \A m \in Msgs : \/ (\E k \in sync : m \in rMsgs[k]) /\ received[m] = 0 /\ received'[m] = 1
                      \/ (\A k \in sync : m \notin rMsgs[k]) /\ received'[m] = received[m]
  BY <1>i, <1>d, <1>t DEF Apart, Active
<1>w. \A m \in Msgs : received[m] \in Nat
  BY <1>i DEF Typed
<1>l. ~Flowing /\ ~Flowing'
  BY <1>c, <1>u, <1>r DEF Flowing
<1>m. \A k \in Gtrids : Dec(k)' <=> Dec(k)
  BY <1>c, <1>e DEF Dec
<1>n. \A k \in Gtrids : sBranch[k] = "prepared" /\ ~Dec(k) => \A m \in sMsgs[k] : received'[m] = 0
  <2>1. SUFFICES ASSUME NEW k \in Gtrids, sBranch[k] = "prepared", ~Dec(k), NEW m \in sMsgs[k]
                 PROVE  received'[m] = 0
    OBVIOUS
  <2>2. received[m] = 0 /\ m \in Msgs /\ \A h \in Gtrids : rBranch[h] \in Bound => m \notin rMsgs[h]
    BY <1>i, <2>1 DEF Agreed, Typed, TypeOK
  <2> QED BY <1>t, <1>v, <2>2 DEF Bound
<1>1. Typed'
  BY <1>i, <1>u, <1>a, <1>d, <1>e, <1>f, <1>h, <1>p, <1>r, <1>s DEF Typed, TypeOK
<1>2. LinkPlaced'
  BY <1>i, <1>u, <1>a, <1>c, <1>e, <1>p, <1>t DEF LinkPlaced, Preparing
<1>3. Numbered'
  BY <1>c, <1>e, <1>f, <1>l, <1>p, <1>r, <1>t, <1>u, GtridsNat DEF Numbered, Collecting,
     Gathered, Preparing, Told
<1>4. Placed'
  BY <1>i, <1>u, <1>c, <1>e, <1>p, <1>r, <1>s, <1>o, <1>t DEF Placed, Collecting, Gathered,
     Asked, Acking, Claimed, Answered, Preparing, Telling, TellCommit, TellRoll, Told
<1>5. OneToken'
  BY <1>i, <1>u, <1>o, <1>r, <1>s DEF OneToken, TellRec, Asking
<1>6. Recovers'
  <2>1. Recovery' <=> Recovery
    BY <1>o, <1>r, <1>s DEF Recovery, TellRec, Asking
  <2>2. Quiet => Quiet'
    BY <1>u, <1>c, <1>e, <1>o, <1>p, <1>r, <1>s, <1>t
      DEF Quiet, Asked, Acking, Claimed, Answered, Preparing
  <2> QED BY <1>i, <1>u, <1>o, <1>r, <1>s, <2>1, <2>2 DEF Recovers, TellRec
<1>7. BranchS'
  BY <1>i, <1>u, <1>c, <1>o, <1>r, <1>s DEF BranchS, Asked, Acking, Claimed, Telling,
     TellCommit, TellRoll, Told
<1>8. Claims'
  BY <1>i, <1>u, <1>o, <1>s DEF Claims, Claimed, Hold
<1>9. BranchR'
  BY <1>i, <1>u, <1>c, <1>e, <1>m, <1>o, <1>p, <1>r, <1>s, <1>t, GtridsNat DEF BranchR,
     Gathered, Asked, Acking, Claimed, Answered, Preparing
<1>10. Apart'
  BY <1>i, <1>u, <1>c, <1>e, <1>r, <1>t, <1>v, <1>w DEF Apart, Active, Gathered
<1>11. Same'
  BY <1>c, <1>u DEF Same
<1>12. Agreed'
  BY <1>i, <1>u, <1>c, <1>e, <1>m, <1>n, <1>o, <1>p, <1>r, <1>s, <1>t DEF Agreed, Bound,
     Preparing, TellCommit, TellRoll, Dec
<1>13. NoDuplicate'
  BY <1>i, <1>v DEF NoDuplicate
<1>14. NothingLost'
  BY <1>i, <1>u, <1>c, <1>e, <1>t, <1>v, <1>w DEF NothingLost
<1>15. DecidedIsHeld'
  BY <1>i, <1>u, <1>c, <1>e, <1>t, <1>v, <1>w DEF DecidedIsHeld
<1>16. Starting'
  BY <1>i, <1>u, <1>r, <1>s, <1>o, <1>c, <1>p, <1>d, <1>v, <1>n DEF Starting, Asked, Acking,
     Claimed
<1>17. Deciding'
  BY <1>i, <1>u, <1>r, <1>s, <1>o, <1>c, <1>p, <1>n DEF Deciding, Answered, Preparing
<1>18. Resuming'
  BY <1>i, <1>u, <1>o DEF Resuming
<1> QED
  BY <1>1, <1>2, <1>3, <1>4, <1>5, <1>6, <1>7, <1>8, <1>9, <1>10, <1>11, <1>12, <1>13, <1>14,
     <1>15, <1>16, <1>17, <1>18, <1>r, <1>s DEF ForwardInv

(* An engine call of the receiver for a transaction fails.                 *)
LEMMA RFailsCall ==
  ASSUME ForwardInv, RFails, NEW x \in rOps, x.op \in {"create", "prepare"}, rOps' = rOps \ {x},
         receiverXA' = [receiverXA EXCEPT ![x.g] = "no"], puts' = puts
  PROVE  ForwardInv'
<1>i. /\ Typed /\ OnceR /\ OnceS /\ LinkPlaced /\ Numbered /\ Placed /\ OneToken
      /\ Recovers /\ BranchS /\ Claims /\ BranchR /\ Apart /\ Same /\ Agreed
      /\ NoDuplicate /\ NothingLost /\ DecidedIsHeld /\ Starting /\ Deciding /\ Resuming
  BY DEF ForwardInv
<1>u. /\ r2s' = r2s /\ where' = where /\ sBranch' = sBranch /\ sMsgs' = sMsgs
      /\ senderXA' = senderXA
      /\ recoveryList' = recoveryList /\ sConn' = sConn /\ started' = started /\ sOps' = sOps
      /\ preparedXA' = preparedXA
      /\ suspended' = suspended /\ rUp' = rUp /\ rBranch' = rBranch /\ rMsgs' = rMsgs
      /\ commits' = commits
      /\ currentXA' = currentXA /\ xaList' = xaList /\ puts' = puts /\ seqn' = seqn
      /\ received' = received
  BY DEF RFails, CloseIncoming, senderVars
<1>s. /\ \A u, k : SLetter(u, k)' <=> SLetter(u, k)
      /\ \A k, n : Named(k, n)' <=> Named(k, n)
      /\ ConnRep' <=> ConnRep
      /\ OnceS' /\ r2s' \in Seq(ToS)
  BY <1>i, <1>u, SSame DEF Typed
<1>o. \A o, k : SOp(o, k)' <=> SOp(o, k)
  BY <1>u, SOpSame
<1>a. /\ faults < MaxFaults /\ faults' = faults + 1 /\ linkUp' = FALSE /\ s2r' = <<>>
      /\ rConn' = "closing"
  BY DEF RFails, CloseIncoming
<1>f. faults' \in 0..MaxFaults
  BY <1>i, <1>a, FaultsBounded DEF Typed
<1>r. /\ \A u, k : ~RLetter(u, k)'
      /\ \A k : ~Confirmed(k)'
      /\ OnceR' /\ s2r' \in Seq(ToR)
  BY RNone, <1>a
<1>g. PICK g \in Gtrids : x = Op(x.op, g) /\ x.g = g /\ ROp(x.op, g)
  BY <1>i, CallsR DEF Typed, ROp
<1>p. \A o, k : ROp(o, k)' <=> ROp(o, k) /\ ~(o = x.op /\ k = g)
  BY <1>g, OpEq DEF ROp
<1>q. rOps' \subseteq RCalls
  BY <1>i DEF Typed
<1>e. \A k \in Gtrids : receiverXA'[k] = IF k = g THEN "no" ELSE receiverXA[k]
  BY <1>i, <1>g DEF Typed, TypeOK
<1>h. receiverXA' \in [Gtrids -> {"no", "linked", "prepared"}]
  BY <1>i, <1>g DEF Typed, TypeOK
<1>c. /\ rBranch[g] \in {"none", "inflight"} /\ ~Recovery /\ rUp
  BY <1>i, <1>g DEF BranchR, Recovers, Quiet, Preparing, LinkPlaced, ROp
<1>1. Typed'
  BY <1>i, <1>u, <1>s, <1>a, <1>f, <1>r, <1>q, <1>e, <1>h, <1>c DEF Typed, TypeOK
<1>2. LinkPlaced'
  BY <1>i, <1>u, <1>s, <1>a, <1>r, <1>g, <1>p, <1>q, <1>e, <1>h, <1>c DEF LinkPlaced, Preparing
<1>3. Numbered'
  BY <1>i, <1>u, <1>s, <1>o, <1>a, <1>r, <1>g, <1>p, <1>e, <1>h, <1>c DEF Numbered, Asked,
     Acking, Answered, Preparing, Telling, Told, Collecting, Flowing, Gathered, TellCommit,
     TellRoll, Claimed
<1>4. Placed'
  BY <1>i, <1>u, <1>s, <1>o, <1>r, <1>g, <1>p, <1>c DEF Placed, Asked, Acking, Answered,
     Preparing, TellCommit, Telling, Told, Collecting, Gathered, TellRoll, Claimed
<1>5. OneToken'
  BY <1>i, <1>u, <1>s, <1>o, <1>a, <1>r, <1>c DEF OneToken, Recovery, TellRec, Asking
<1>6. Recovers'
  BY <1>i, <1>u, <1>s, <1>o, <1>a, <1>r, <1>g, <1>p, <1>c DEF Recovers, OneToken, TellRec,
     Recovery, Quiet, Asked, Acking, Answered, Preparing, Claimed, Asking
<1>7. BranchS'
  BY <1>i, <1>u, <1>s, <1>o, <1>a, <1>r, <1>g, <1>p, <1>c DEF BranchS, Asked, Acking, Telling,
     Told, Collecting, Recovery, TellRec, Asking, Gathered, TellCommit, TellRoll, Claimed
<1>8. Claims'
  BY <1>i, <1>u, <1>s, <1>o DEF Claims, Claimed, Hold
<1>9. BranchR'
  BY <1>i, <1>u, <1>s, <1>o, <1>r, <1>g, <1>p, <1>e, <1>h, <1>c DEF BranchR, Asked, Acking,
     Answered, Preparing, Gathered, Dec, Claimed
<1>10. Apart'
  BY <1>i, <1>u, <1>r, <1>c DEF Apart, Gathered, Active
<1>11. Same'
  BY <1>i, <1>u, <1>s, <1>o, <1>a, <1>r, <1>c DEF Same, Asked, Acking, Gathered, Claimed
<1>12. Agreed'
  BY <1>i, <1>u, <1>s, <1>o, <1>r, <1>g, <1>p, <1>e, <1>h, <1>c DEF Agreed, Preparing,
     TellCommit, TellRoll, Dec, Bound
<1>13. NoDuplicate'
  BY <1>i, <1>u DEF NoDuplicate
<1>14. NothingLost'
  BY <1>i, <1>u, <1>c DEF NothingLost
<1>15. DecidedIsHeld'
  BY <1>i, <1>u, <1>c DEF DecidedIsHeld
<1>16. Starting'
  BY <1>i, <1>u, <1>s, <1>o, <1>a, <1>r, <1>g, <1>p DEF Starting, Asked, Acking, Claimed
<1>17. Deciding'
  BY <1>i, <1>u, <1>s, <1>o, <1>a, <1>r, <1>g, <1>p DEF Deciding, Answered, Preparing
<1>18. Resuming'
  BY <1>i, <1>u, <1>o DEF Resuming
<1> QED
  BY <1>1, <1>2, <1>3, <1>4, <1>5, <1>6, <1>7, <1>8, <1>9, <1>10, <1>11, <1>12, <1>13, <1>14,
     <1>15, <1>16, <1>17, <1>18, <1>r, <1>s DEF ForwardInv

(* A put of the receiver fails.                                            *)
LEMMA RFailsPut ==
  ASSUME ForwardInv, RFails, NEW m \in puts, puts' = puts \ {m}, UNCHANGED <<rOps, receiverXA>>
  PROVE  ForwardInv'
<1>i. /\ Typed /\ OnceR /\ OnceS /\ LinkPlaced /\ Numbered /\ Placed /\ OneToken
      /\ Recovers /\ BranchS /\ Claims /\ BranchR /\ Apart /\ Same /\ Agreed
      /\ NoDuplicate /\ NothingLost /\ DecidedIsHeld /\ Starting /\ Deciding /\ Resuming
  BY DEF ForwardInv
<1>u. /\ r2s' = r2s /\ where' = where /\ sBranch' = sBranch /\ sMsgs' = sMsgs
      /\ senderXA' = senderXA
      /\ recoveryList' = recoveryList /\ sConn' = sConn /\ started' = started /\ sOps' = sOps
      /\ preparedXA' = preparedXA
      /\ suspended' = suspended /\ rUp' = rUp /\ rBranch' = rBranch /\ rMsgs' = rMsgs
      /\ receiverXA' = receiverXA
      /\ commits' = commits /\ currentXA' = currentXA /\ xaList' = xaList /\ rOps' = rOps
      /\ seqn' = seqn
      /\ received' = received
  BY DEF RFails, CloseIncoming, senderVars
<1>s. /\ \A u, k : SLetter(u, k)' <=> SLetter(u, k)
      /\ \A k, n : Named(k, n)' <=> Named(k, n)
      /\ ConnRep' <=> ConnRep
      /\ OnceS' /\ r2s' \in Seq(ToS)
  BY <1>i, <1>u, SSame DEF Typed
<1>o. \A o, k : SOp(o, k)' <=> SOp(o, k)
  BY <1>u, SOpSame
<1>p. \A o, k : ROp(o, k)' <=> ROp(o, k)
  BY <1>u, ROpSame
<1>a. /\ faults < MaxFaults /\ faults' = faults + 1 /\ linkUp' = FALSE /\ s2r' = <<>>
      /\ rConn' = "closing"
  BY DEF RFails, CloseIncoming
<1>f. faults' \in 0..MaxFaults
  BY <1>i, <1>a, FaultsBounded DEF Typed
<1>r. /\ \A u, k : ~RLetter(u, k)'
      /\ \A k : ~Confirmed(k)'
      /\ OnceR' /\ s2r' \in Seq(ToR)
  BY RNone, <1>a
<1>c. /\ ~Recovery /\ rUp
  BY <1>i DEF Recovers, Quiet, LinkPlaced
<1>1. Typed'
  BY <1>i, <1>u, <1>s, <1>a, <1>f, <1>r, <1>c DEF Typed, TypeOK
<1>2. LinkPlaced'
  BY <1>i, <1>u, <1>s, <1>p, <1>a, <1>r, <1>c DEF LinkPlaced, Preparing
<1>3. Numbered'
  BY <1>i, <1>u, <1>s, <1>o, <1>p, <1>a, <1>r, <1>c DEF Numbered, Asked, Acking, Answered,
     Preparing, Telling, Told, Collecting, Flowing, Gathered, TellCommit, TellRoll, Claimed
<1>4. Placed'
  BY <1>i, <1>u, <1>s, <1>o, <1>p, <1>r DEF Placed, Asked, Acking, Answered, Preparing,
     TellCommit, Telling, Told, Collecting, Gathered, TellRoll, Claimed
<1>5. OneToken'
  BY <1>i, <1>u, <1>s, <1>o, <1>a, <1>r, <1>c DEF OneToken, Recovery, TellRec, Asking
<1>6. Recovers'
  BY <1>i, <1>u, <1>s, <1>o, <1>p, <1>a, <1>r, <1>c DEF Recovers, OneToken, TellRec, Recovery,
     Quiet, Asked, Acking, Answered, Preparing, Claimed, Asking
<1>7. BranchS'
  BY <1>i, <1>u, <1>s, <1>o, <1>p, <1>a, <1>r, <1>c DEF BranchS, Asked, Acking, Telling, Told,
     Collecting, Recovery, TellRec, Asking, Gathered, TellCommit, TellRoll, Claimed
<1>8. Claims'
  BY <1>i, <1>u, <1>s, <1>o DEF Claims, Claimed, Hold
<1>9. BranchR'
  BY <1>i, <1>u, <1>s, <1>o, <1>p, <1>r DEF BranchR, Asked, Acking, Answered, Preparing,
     Gathered, Dec, Claimed
<1>10. Apart'
  BY <1>i, <1>u, <1>r DEF Apart, Gathered, Active
<1>11. Same'
  BY <1>i, <1>u, <1>s, <1>o, <1>a, <1>r DEF Same, Asked, Acking, Gathered, Claimed
<1>12. Agreed'
  BY <1>i, <1>u, <1>s, <1>o, <1>p, <1>r, <1>c DEF Agreed, Preparing, TellCommit, TellRoll, Dec,
     Bound
<1>13. NoDuplicate'
  BY <1>i, <1>u DEF NoDuplicate
<1>14. NothingLost'
  BY <1>i, <1>u DEF NothingLost
<1>15. DecidedIsHeld'
  BY <1>i, <1>u DEF DecidedIsHeld
<1>16. Starting'
  BY <1>i, <1>u, <1>s, <1>o, <1>p, <1>a, <1>r DEF Starting, Asked, Acking, Claimed
<1>17. Deciding'
  BY <1>i, <1>u, <1>s, <1>o, <1>p, <1>a, <1>r DEF Deciding, Answered, Preparing
<1>18. Resuming'
  BY <1>i, <1>u, <1>o DEF Resuming
<1> QED
  BY <1>1, <1>2, <1>3, <1>4, <1>5, <1>6, <1>7, <1>8, <1>9, <1>10, <1>11, <1>12, <1>13, <1>14,
     <1>15, <1>16, <1>17, <1>18, <1>r, <1>s DEF ForwardInv

(* An engine call of the receiver fails, in both cases.                    *)
LEMMA RFailsKeeps ==
  ASSUME ForwardInv, RFails
  PROVE  ForwardInv'
<1>1. CASE \E x \in rOps : /\ x.op \in {"create", "prepare"}
                           /\ rOps' = rOps \ {x}
                           /\ receiverXA' = [receiverXA EXCEPT ![x.g] = "no"]
                           /\ UNCHANGED puts
  BY <1>1, RFailsCall
<1>2. CASE \E m \in puts : puts' = puts \ {m} /\ UNCHANGED <<rOps, receiverXA>>
  BY <1>2, RFailsPut
<1> QED BY <1>1, <1>2 DEF RFails

(* The timer closes the current transaction and opens the next one.        *)
LEMMA TimedCommitNew ==
  ASSUME ForwardInv, TimedCommit, NEW g \in Gtrids, NewXA(g, receiverXA, commits),
         rOps' = rOps \cup {Op("create", g)}
  PROVE  ForwardInv'
<1>i. /\ Typed /\ OnceR /\ OnceS /\ LinkPlaced /\ Numbered /\ Placed /\ OneToken
      /\ Recovers /\ BranchS /\ Claims /\ BranchR /\ Apart /\ Same /\ Agreed
      /\ NoDuplicate /\ NothingLost /\ DecidedIsHeld /\ Starting /\ Deciding /\ Resuming
  BY DEF ForwardInv
<1>u. /\ s2r' = s2r /\ r2s' = r2s /\ linkUp' = linkUp /\ where' = where /\ sBranch' = sBranch
      /\ sMsgs' = sMsgs /\ senderXA' = senderXA /\ recoveryList' = recoveryList
      /\ sConn' = sConn /\ started' = started
      /\ sOps' = sOps /\ preparedXA' = preparedXA /\ suspended' = suspended /\ rUp' = rUp
      /\ rConn' = rConn
      /\ rBranch' = rBranch /\ rMsgs' = rMsgs /\ currentXA' = currentXA /\ xaList' = xaList
      /\ puts' = puts
      /\ received' = received /\ faults' = faults
  BY DEF TimedCommit, link, senderVars
<1>r. /\ \A u, k : RLetter(u, k)' <=> RLetter(u, k)
      /\ \A k : Confirmed(k)' <=> Confirmed(k)
      /\ OnceR' /\ s2r' \in Seq(ToR)
  BY <1>i, <1>u, RSame DEF Typed
<1>s. /\ \A u, k : SLetter(u, k)' <=> SLetter(u, k)
      /\ \A k, n : Named(k, n)' <=> Named(k, n)
      /\ ConnRep' <=> ConnRep
      /\ OnceS' /\ r2s' \in Seq(ToS)
  BY <1>i, <1>u, SSame DEF Typed
<1>o. \A o, k : SOp(o, k)' <=> SOp(o, k)
  BY <1>u, SOpSame
<1>p. \A o, k : ROp(o, k)' <=> ROp(o, k) \/ (o = "create" /\ k = g)
  BY <1>i, Created
<1>k. /\ seqn' = g /\ g > seqn /\ seqn \in Nat /\ g \in Nat
      /\ \A k \in Gtrids : /\ receiverXA'[k] = IF k = g THEN "linked" ELSE receiverXA[k]
                           /\ commits'[k] = IF k = g THEN 0 ELSE commits[k]
      /\ receiverXA' \in [Gtrids -> {"no", "linked", "prepared"}]
      /\ commits' \in [Gtrids -> 0..2]
      /\ rOps' \subseteq RCalls /\ \A y \in rOps' : y.g \in Gtrids
  BY <1>i, Created
<1>c. /\ rUp /\ rConn # "closed" /\ currentXA # NoXA /\ currentXA \in Gtrids /\ Flowing
      /\ ~Recovery
  <2>1. /\ rConn # "closed" /\ currentXA # NoXA /\ currentXA \in Gtrids /\ rMsgs[currentXA] # {}
    BY <1>i DEF TimedCommit, Typed, TypeOK
  <2>2. rUp /\ rBranch[currentXA] = "inflight"
    BY <1>i, <2>1 DEF LinkPlaced, BranchR, Gathered
  <2> QED BY <1>i, <2>1, <2>2 DEF Flowing, Recovers, Quiet
<1>n. /\ rBranch[g] = "none" /\ receiverXA[g] = "no" /\ ~Collecting(g) /\ ~Preparing(g)
      /\ ~ROp("commit", g) /\ ~ROp("recoverCommit", g)
      /\ sBranch[g] = "none" /\ ~Asked(g) /\ ~Acking(g) /\ ~Answered(g) /\ ~Telling(g) /\ ~Told(g)
  BY <1>i, <1>c, <1>k, Unused
<1>1. Typed'
  BY <1>i, <1>u, <1>r, <1>s, <1>k, <1>c, <1>n DEF Typed, TypeOK
<1>2. LinkPlaced'
  BY <1>i, <1>u, <1>r, <1>s, <1>p, <1>k, <1>c, <1>n DEF LinkPlaced, Preparing
<1>3. Numbered'
  BY <1>i, <1>u, <1>r, <1>s, <1>o, <1>p, <1>k, <1>c, <1>n DEF Numbered, Asked, Acking, Answered,
     Preparing, Telling, Told, Collecting, Flowing, Gathered, TellCommit, TellRoll, Claimed
<1>4. Placed'
  BY <1>i, <1>u, <1>r, <1>s, <1>o, <1>p, <1>k, <1>c, <1>n DEF Placed, Asked, Acking, Answered,
     Preparing, TellCommit, Telling, Told, Collecting, Gathered, TellRoll, Claimed
<1>5. OneToken'
  BY <1>i, <1>u, <1>r, <1>s, <1>o, <1>c DEF OneToken, Recovery, TellRec, Asking
<1>6. Recovers'
  BY <1>i, <1>u, <1>r, <1>s, <1>o, <1>p, <1>c, <1>n DEF Recovers, TellRec, Recovery, Quiet,
     Asked, Acking, Answered, Preparing, Claimed, Asking
<1>7. BranchS'
  BY <1>i, <1>u, <1>r, <1>s, <1>o, <1>p, <1>c, <1>n DEF BranchS, Asked, Acking, Telling, Told,
     Collecting, Recovery, TellRec, Asking, Gathered, TellCommit, TellRoll, Claimed
<1>8. Claims'
  BY <1>i, <1>u, <1>o, <1>s DEF Claims, Claimed, Hold
<1>9. BranchR'
  BY <1>i, <1>u, <1>r, <1>s, <1>o, <1>p, <1>k, <1>c, <1>n DEF BranchR, Asked, Acking, Answered,
     Preparing, Gathered, Dec, Claimed
<1>10. Apart'
  BY <1>i, <1>u, <1>r, <1>c, <1>n DEF Apart, Gathered, Active
<1>11. Same'
  BY <1>i, <1>u, <1>r, <1>s, <1>o, <1>c, <1>n DEF Same, Asked, Acking, Gathered, Claimed
<1>12. Agreed'
  BY <1>i, <1>u, <1>r, <1>s, <1>o, <1>p, <1>k, <1>c, <1>n DEF Agreed, Preparing, TellCommit,
     TellRoll, Dec, Bound
<1>13. NoDuplicate'
  BY <1>i, <1>u DEF NoDuplicate
<1>14. NothingLost'
  BY <1>i, <1>u, <1>n DEF NothingLost
<1>15. DecidedIsHeld'
  BY <1>i, <1>u, <1>n DEF DecidedIsHeld
<1>16. Starting'
  <2>1. rMsgs[currentXA] # {}
    BY DEF TimedCommit
  <2> QED BY <1>i, <1>u, <1>c, <1>s, <2>1 DEF Starting
<1>17. Deciding'
  BY <1>i, <1>u, <1>r, <1>s, <1>o, <1>p, <1>n DEF Deciding, Answered, Preparing
<1>18. Resuming'
  BY <1>i, <1>u, <1>o DEF Resuming
<1> QED
  BY <1>1, <1>2, <1>3, <1>4, <1>5, <1>6, <1>7, <1>8, <1>9, <1>10, <1>11, <1>12, <1>13, <1>14,
     <1>15, <1>16, <1>17, <1>18, <1>r, <1>s DEF ForwardInv

(* The timed commit of the receiver.                                       *)
LEMMA TimedCommitKeeps ==
  ASSUME ForwardInv, TimedCommit
  PROVE  ForwardInv'
  BY TimedCommitNew DEF TimedCommit, FwdCreateXA

(* A message joins the current transaction.                                *)
LEMMA MessageAdds ==
  ASSUME ForwardInv, DoMessage, UNCHANGED <<rOps, seqn, receiverXA, commits>>
  PROVE  ForwardInv'
<1>i. /\ Typed /\ OnceR /\ OnceS /\ LinkPlaced /\ Numbered /\ Placed /\ OneToken
      /\ Recovers /\ BranchS /\ Claims /\ BranchR /\ Apart /\ Same /\ Agreed
      /\ NoDuplicate /\ NothingLost /\ DecidedIsHeld /\ Starting /\ Deciding /\ Resuming
  BY DEF ForwardInv
<1>u. /\ r2s' = r2s /\ linkUp' = linkUp /\ where' = where /\ sBranch' = sBranch /\ sMsgs' = sMsgs
      /\ senderXA' = senderXA /\ recoveryList' = recoveryList /\ sConn' = sConn
      /\ started' = started /\ sOps' = sOps
      /\ preparedXA' = preparedXA /\ suspended' = suspended /\ rUp' = rUp /\ rConn' = rConn
      /\ rBranch' = rBranch
      /\ receiverXA' = receiverXA /\ commits' = commits /\ currentXA' = currentXA
      /\ xaList' = xaList /\ rOps' = rOps
      /\ seqn' = seqn /\ received' = received /\ faults' = faults
  BY DEF DoMessage, senderVars
<1>s. /\ \A u, k : SLetter(u, k)' <=> SLetter(u, k)
      /\ \A k, n : Named(k, n)' <=> Named(k, n)
      /\ ConnRep' <=> ConnRep
      /\ OnceS' /\ r2s' \in Seq(ToS)
  BY <1>i, <1>u, SSame DEF Typed
<1>o. \A o, k : SOp(o, k)' <=> SOp(o, k)
  BY <1>u, SOpSame
<1>p. \A o, k : ROp(o, k)' <=> ROp(o, k)
  BY <1>u, ROpSame
<1>x. PICK x : x = Head(s2r)
  OBVIOUS
<1>a. /\ rConn = "open" /\ s2r # <<>> /\ x.t = "RMessage" /\ s2r' = Tail(s2r) /\ x = Head(s2r)
      /\ currentXA # NoXA
      /\ puts' = puts \cup {x.g}
      /\ rMsgs' = [rMsgs EXCEPT ![currentXA] = rMsgs[currentXA] \cup {x.g}]
  BY <1>x DEF DoMessage
<1>r. /\ x \in ToR /\ RLetter(x.t, x.g)
      /\ \A u, k : RLetter(u, k)' => RLetter(u, k)
      /\ \A u, k : RLetter(u, k) /\ ~(u = x.t /\ k = x.g) => RLetter(u, k)'
      /\ x.t \in {"RMessage", "PrepareReply", "Recover"} => ~RLetter(x.t, x.g)'
      /\ x.t = "Recover" => \A k : ~RLetter("Recover", k)'
      /\ \A k : Confirmed(k)' => Confirmed(k)
      /\ x.t = "PrepareReply" /\ x.ok => Confirmed(x.g)
      /\ OnceR' /\ s2r' \in Seq(ToR)
  BY <1>i, <1>a, RTail DEF Typed
<1>m. PICK m \in Msgs : m = x.g /\ RLetter("RMessage", m)
  BY <1>a, <1>r, ToRFields
<1>b. /\ \A u, k : RLetter(u, k)' <=> RLetter(u, k) /\ ~(u = "RMessage" /\ k = m)
      /\ \A k : Confirmed(k)' => Confirmed(k)
  BY <1>a, <1>r, <1>m
<1>c. /\ rUp /\ Flowing /\ ~Recovery /\ currentXA \in Gtrids
  BY <1>i, <1>a, <1>m DEF LinkPlaced, Flowing, Recovers, Quiet, Typed, TypeOK
<1>d. PICK c \in Gtrids : c = currentXA
  BY <1>c
<1>e. /\ \A k \in Gtrids : rMsgs'[k] = IF k = c THEN rMsgs[c] \cup {m} ELSE rMsgs[k]
      /\ rMsgs' \in [Gtrids -> SUBSET Msgs] /\ puts' = puts \cup {m} /\ puts' \subseteq Msgs
  BY <1>i, <1>a, <1>d, <1>m DEF Typed, TypeOK
<1>h. /\ rBranch[c] = "inflight" /\ Gathered(c) /\ Collecting(c) /\ ~Asked(c) /\ ~Acking(c)
      /\ ~Answered(c) /\ ~Preparing(c)
      /\ ~Confirmed(c) /\ c \notin xaList /\ ~Dec(c) /\ ~ROp("create", c)
  <2>1. Gathered(c) /\ Collecting(c)
    BY <1>d DEF Gathered, Collecting
  <2> QED BY <1>i, <1>d, <2>1, ConfirmedIsAnswer DEF BranchR, Placed, Dec
<1>v. /\ received[m] = 0 /\ (linkUp => where[m] = "sent")
      /\ \A k \in Gtrids : Active(k) => m \notin rMsgs[k]
  BY <1>i, <1>m DEF Apart, Same
<1>1. Typed'
  BY <1>i, <1>u, <1>s, <1>x, <1>a, <1>r, <1>c, <1>d, <1>e, <1>h, <1>v DEF Typed, TypeOK
<1>2. LinkPlaced'
  BY <1>i, <1>u, <1>s, <1>p, <1>x, <1>a, <1>r, <1>c, <1>d, <1>e, <1>h, <1>v DEF LinkPlaced,
     Preparing
<1>3. Numbered'
  BY <1>i, <1>u, <1>s, <1>o, <1>p, <1>a, <1>r, <1>m, <1>b, <1>c, <1>d, <1>e, <1>h, <1>v DEF
     Numbered, Asked, Acking, Answered, Preparing, Telling, Told, Collecting, Flowing, Gathered,
     TellCommit, TellRoll, Claimed
<1>4. Placed'
  BY <1>i, <1>u, <1>s, <1>o, <1>p, <1>a, <1>r, <1>m, <1>b, <1>c, <1>d, <1>h DEF Placed, Asked,
     Acking, Answered, Preparing, TellCommit, Telling, Told, Collecting, Gathered, TellRoll,
     Claimed
<1>5. OneToken'
  BY <1>i, <1>u, <1>s, <1>o, <1>x, <1>a, <1>r, <1>m, <1>b, <1>c DEF OneToken, Recovery, TellRec,
     Asking
<1>6. Recovers'
  BY <1>i, <1>u, <1>s, <1>o, <1>p, <1>a, <1>r, <1>m, <1>b, <1>c, <1>e, <1>h, <1>v DEF Recovers,
     TellRec, Recovery, Quiet, Asked, Acking, Answered, Preparing, Claimed, Asking
<1>7. BranchS'
  BY <1>i, <1>u, <1>s, <1>o, <1>p, <1>a, <1>r, <1>m, <1>b, <1>c, <1>d, <1>h, <1>v DEF BranchS,
     Asked, Acking, Telling, Told, Collecting, Recovery, TellRec, Asking, Gathered, TellCommit,
     TellRoll, Claimed
<1>8. Claims'
  BY <1>i, <1>u, <1>o, <1>s DEF Claims, Claimed, Hold
<1>9. BranchR'
  BY <1>i, <1>u, <1>s, <1>o, <1>p, <1>a, <1>r, <1>m, <1>b, <1>c, <1>d, <1>h DEF BranchR, Asked,
     Acking, Answered, Preparing, Gathered, Dec, Claimed
<1>10. Apart'
  BY <1>i, <1>u, <1>b, <1>e, <1>h, <1>v DEF Apart, Active, Gathered
<1>11. Same'
  BY <1>i, <1>u, <1>b, <1>e, <1>h, <1>o, <1>s, <1>v DEF Same, Asked, Acking, Claimed, Gathered
<1>12. Agreed'
  BY <1>i, <1>u, <1>b, <1>e, <1>h, <1>o, <1>p, <1>s DEF Agreed, Bound, Dec, Preparing,
     TellCommit, TellRoll
<1>13. NoDuplicate'
  BY <1>i, <1>u, <1>v DEF NoDuplicate
<1>14. NothingLost'
  BY <1>i, <1>u, <1>e, <1>h DEF NothingLost
<1>15. DecidedIsHeld'
  BY <1>i, <1>u, <1>e, <1>h DEF DecidedIsHeld
<1>16. Starting'
  BY <1>i, <1>u, <1>s, <1>o, <1>p, <1>a, <1>r, <1>m, <1>b, <1>c, <1>d, <1>e, <1>h, <1>v DEF
     Starting, Asked, Acking, Claimed
<1>17. Deciding'
  BY <1>i, <1>u, <1>s, <1>o, <1>p, <1>r, <1>m, <1>b, <1>h, <1>v DEF Deciding, Answered,
     Preparing
<1>18. Resuming'
  BY <1>i, <1>u, <1>o DEF Resuming
<1> QED
  BY <1>1, <1>2, <1>3, <1>4, <1>5, <1>6, <1>7, <1>8, <1>9, <1>10, <1>11, <1>12, <1>13, <1>14,
     <1>15, <1>16, <1>17, <1>18, <1>r, <1>s DEF ForwardInv

(* A message fills the current transaction, which is closed.               *)
LEMMA MessageFills ==
  ASSUME ForwardInv, DoMessage, NEW g \in Gtrids, NewXA(g, receiverXA, commits),
         rOps' = rOps \cup {Op("create", g)}
  PROVE  ForwardInv'
<1>i. /\ Typed /\ OnceR /\ OnceS /\ LinkPlaced /\ Numbered /\ Placed /\ OneToken
      /\ Recovers /\ BranchS /\ Claims /\ BranchR /\ Apart /\ Same /\ Agreed
      /\ NoDuplicate /\ NothingLost /\ DecidedIsHeld /\ Starting /\ Deciding /\ Resuming
  BY DEF ForwardInv
<1>u. /\ r2s' = r2s /\ linkUp' = linkUp /\ where' = where /\ sBranch' = sBranch /\ sMsgs' = sMsgs
      /\ senderXA' = senderXA /\ recoveryList' = recoveryList /\ sConn' = sConn
      /\ started' = started /\ sOps' = sOps
      /\ preparedXA' = preparedXA /\ suspended' = suspended /\ rUp' = rUp /\ rConn' = rConn
      /\ rBranch' = rBranch
      /\ currentXA' = currentXA /\ xaList' = xaList /\ received' = received /\ faults' = faults
  BY DEF DoMessage, senderVars
<1>s. /\ \A u, k : SLetter(u, k)' <=> SLetter(u, k)
      /\ \A k, n : Named(k, n)' <=> Named(k, n)
      /\ ConnRep' <=> ConnRep
      /\ OnceS' /\ r2s' \in Seq(ToS)
  BY <1>i, <1>u, SSame DEF Typed
<1>o. \A o, k : SOp(o, k)' <=> SOp(o, k)
  BY <1>u, SOpSame
<1>p. \A o, k : ROp(o, k)' <=> ROp(o, k) \/ (o = "create" /\ k = g)
  BY <1>i, Created
<1>k. /\ seqn' = g /\ g > seqn /\ seqn \in Nat /\ g \in Nat
      /\ \A k \in Gtrids : /\ receiverXA'[k] = IF k = g THEN "linked" ELSE receiverXA[k]
                           /\ commits'[k] = IF k = g THEN 0 ELSE commits[k]
      /\ receiverXA' \in [Gtrids -> {"no", "linked", "prepared"}]
      /\ commits' \in [Gtrids -> 0..2]
      /\ rOps' \subseteq RCalls /\ \A y \in rOps' : y.g \in Gtrids
  BY <1>i, Created
<1>x. PICK x : x = Head(s2r)
  OBVIOUS
<1>a. /\ rConn = "open" /\ s2r # <<>> /\ x.t = "RMessage" /\ s2r' = Tail(s2r) /\ x = Head(s2r)
      /\ currentXA # NoXA
      /\ puts' = puts \cup {x.g}
      /\ rMsgs' = [rMsgs EXCEPT ![currentXA] = rMsgs[currentXA] \cup {x.g}]
  BY <1>x DEF DoMessage
<1>r. /\ x \in ToR /\ RLetter(x.t, x.g)
      /\ \A u, k : RLetter(u, k)' => RLetter(u, k)
      /\ \A u, k : RLetter(u, k) /\ ~(u = x.t /\ k = x.g) => RLetter(u, k)'
      /\ x.t \in {"RMessage", "PrepareReply", "Recover"} => ~RLetter(x.t, x.g)'
      /\ x.t = "Recover" => \A k : ~RLetter("Recover", k)'
      /\ \A k : Confirmed(k)' => Confirmed(k)
      /\ x.t = "PrepareReply" /\ x.ok => Confirmed(x.g)
      /\ OnceR' /\ s2r' \in Seq(ToR)
  BY <1>i, <1>a, RTail DEF Typed
<1>m. PICK m \in Msgs : m = x.g /\ RLetter("RMessage", m)
  BY <1>a, <1>r, ToRFields
<1>b. /\ \A u, k : RLetter(u, k)' <=> RLetter(u, k) /\ ~(u = "RMessage" /\ k = m)
      /\ \A k : Confirmed(k)' => Confirmed(k)
  BY <1>a, <1>r, <1>m
<1>c. /\ rUp /\ Flowing /\ ~Recovery /\ currentXA \in Gtrids
  BY <1>i, <1>a, <1>m DEF LinkPlaced, Flowing, Recovers, Quiet, Typed, TypeOK
<1>d. PICK c \in Gtrids : c = currentXA
  BY <1>c
<1>e. /\ \A k \in Gtrids : rMsgs'[k] = IF k = c THEN rMsgs[c] \cup {m} ELSE rMsgs[k]
      /\ rMsgs' \in [Gtrids -> SUBSET Msgs] /\ puts' = puts \cup {m} /\ puts' \subseteq Msgs
  BY <1>i, <1>a, <1>d, <1>m DEF Typed, TypeOK
<1>h. /\ rBranch[c] = "inflight" /\ Gathered(c) /\ Collecting(c) /\ ~Asked(c) /\ ~Acking(c)
      /\ ~Answered(c) /\ ~Preparing(c)
      /\ ~Confirmed(c) /\ c \notin xaList /\ ~Dec(c) /\ ~ROp("create", c)
  <2>1. Gathered(c) /\ Collecting(c)
    BY <1>d DEF Gathered, Collecting
  <2> QED BY <1>i, <1>d, <2>1, ConfirmedIsAnswer DEF BranchR, Placed, Dec
<1>v. /\ received[m] = 0 /\ (linkUp => where[m] = "sent")
      /\ \A k \in Gtrids : Active(k) => m \notin rMsgs[k]
  BY <1>i, <1>m DEF Apart, Same
<1>n. /\ rBranch[g] = "none" /\ receiverXA[g] = "no" /\ ~Collecting(g) /\ ~Preparing(g)
      /\ ~ROp("commit", g) /\ ~ROp("recoverCommit", g)
      /\ sBranch[g] = "none" /\ ~Asked(g) /\ ~Acking(g) /\ ~Answered(g) /\ ~Telling(g) /\ ~Told(g)
  BY <1>i, <1>c, <1>k, Unused
<1>1. Typed'
  BY <1>i, <1>u, <1>s, <1>k, <1>x, <1>a, <1>r, <1>c, <1>d, <1>e, <1>h, <1>v, <1>n DEF Typed,
     TypeOK
<1>2. LinkPlaced'
  BY <1>i, <1>u, <1>s, <1>p, <1>k, <1>x, <1>a, <1>r, <1>c, <1>d, <1>e, <1>h, <1>v, <1>n DEF
     LinkPlaced, Preparing
<1>3. Numbered'
  BY <1>i, <1>u, <1>s, <1>o, <1>p, <1>k, <1>x, <1>a, <1>r, <1>m, <1>b, <1>c, <1>d, <1>e, <1>h,
     <1>v, <1>n DEF Numbered, Asked, Acking, Answered, Preparing, Telling, Told, Collecting,
     Flowing, Gathered, TellCommit, TellRoll, Claimed
<1>4. Placed'
  BY <1>i, <1>u, <1>s, <1>o, <1>p, <1>k, <1>a, <1>r, <1>m, <1>b, <1>c, <1>d, <1>h, <1>n DEF
     Placed, Asked, Acking, Answered, Preparing, TellCommit, Telling, Told, Collecting,
     Gathered, TellRoll, Claimed
<1>5. OneToken'
  BY <1>i, <1>u, <1>s, <1>o, <1>x, <1>a, <1>r, <1>m, <1>b, <1>c DEF OneToken, Recovery, TellRec,
     Asking
<1>6. Recovers'
  BY <1>i, <1>u, <1>s, <1>o, <1>p, <1>a, <1>r, <1>m, <1>b, <1>c, <1>e, <1>h, <1>v, <1>n DEF
     Recovers, TellRec, Recovery, Quiet, Asked, Acking, Answered, Preparing, Claimed, Asking
<1>7. BranchS'
  BY <1>i, <1>u, <1>s, <1>o, <1>p, <1>a, <1>r, <1>m, <1>b, <1>c, <1>d, <1>h, <1>v, <1>n DEF
     BranchS, Asked, Acking, Telling, Told, Collecting, Recovery, TellRec, Asking, Gathered,
     TellCommit, TellRoll, Claimed
<1>8. Claims'
  BY <1>i, <1>u, <1>o, <1>s DEF Claims, Claimed, Hold
<1>9. BranchR'
  BY <1>i, <1>u, <1>s, <1>o, <1>p, <1>k, <1>a, <1>r, <1>m, <1>b, <1>c, <1>d, <1>h, <1>n DEF
     BranchR, Asked, Acking, Answered, Preparing, Gathered, Dec, Claimed
<1>10. Apart'
  BY <1>i, <1>u, <1>b, <1>e, <1>h, <1>v DEF Apart, Active, Gathered
<1>11. Same'
  BY <1>i, <1>u, <1>b, <1>e, <1>h, <1>o, <1>s, <1>v DEF Same, Asked, Acking, Claimed, Gathered
<1>12. Agreed'
  <2>1. \A k \in Gtrids : /\ Preparing(k)' <=> Preparing(k)
                          /\ ROp("commit", k)' <=> ROp("commit", k)
                          /\ TellCommit(k)' <=> TellCommit(k)
                          /\ TellRoll(k)' <=> TellRoll(k)
                          /\ Dec(k)' <=> Dec(k)
    BY <1>o, <1>p, <1>s, <1>u DEF Preparing, TellCommit, TellRoll, Dec
  <2>2. \A k \in Gtrids : /\ Preparing(k) \/ Confirmed(k)' \/ Dec(k) => k # c
                          /\ Dec(k) \/ ROp("commit", k) => k # g
    BY <1>b, <1>h, <1>n DEF Dec
  <2>3. \A k \in Gtrids : rBranch[k] \in Bound => k # c
    BY <1>h DEF Bound
  <2> QED BY <1>i, <1>u, <1>b, <1>e, <1>k, <2>1, <2>2, <2>3 DEF Agreed
<1>13. NoDuplicate'
  BY <1>i, <1>u, <1>v DEF NoDuplicate
<1>14. NothingLost'
  BY <1>i, <1>u, <1>e, <1>h DEF NothingLost
<1>15. DecidedIsHeld'
  BY <1>i, <1>u, <1>e, <1>h DEF DecidedIsHeld
<1>16. Starting'
  BY <1>i, <1>u, <1>s, <1>o, <1>p, <1>a, <1>r, <1>m, <1>b, <1>c, <1>d, <1>e, <1>h, <1>v, <1>n DEF
     Starting, Asked, Acking, Claimed
<1>17. Deciding'
  BY <1>i, <1>u, <1>s, <1>o, <1>p, <1>r, <1>m, <1>b, <1>h, <1>v, <1>n DEF Deciding, Answered,
     Preparing
<1>18. Resuming'
  BY <1>i, <1>u, <1>o DEF Resuming
<1> QED
  BY <1>1, <1>2, <1>3, <1>4, <1>5, <1>6, <1>7, <1>8, <1>9, <1>10, <1>11, <1>12, <1>13, <1>14,
     <1>15, <1>16, <1>17, <1>18, <1>r, <1>s DEF ForwardInv

(* ism_fwd_doMessage, in both cases.                                       *)
LEMMA DoMessageKeeps ==
  ASSUME ForwardInv, DoMessage
  PROVE  ForwardInv'
  BY MessageAdds, MessageFills DEF DoMessage, FwdCreateXA

(* Branch R is created while a put of its predecessor is pending.          *)
LEMMA CreateWaits ==
  ASSUME ForwardInv, NEW g \in Gtrids, ReplyCreateXA(g), PutsPending(currentXA, puts)
  PROVE  ForwardInv'
<1>i. /\ Typed /\ OnceR /\ OnceS /\ LinkPlaced /\ Numbered /\ Placed /\ OneToken
      /\ Recovers /\ BranchS /\ Claims /\ BranchR /\ Apart /\ Same /\ Agreed
      /\ NoDuplicate /\ NothingLost /\ DecidedIsHeld /\ Starting /\ Deciding /\ Resuming
  BY DEF ForwardInv
<1>u. /\ s2r' = s2r /\ r2s' = r2s /\ linkUp' = linkUp /\ where' = where /\ sBranch' = sBranch
      /\ sMsgs' = sMsgs /\ senderXA' = senderXA /\ recoveryList' = recoveryList
      /\ sConn' = sConn /\ started' = started
      /\ sOps' = sOps /\ preparedXA' = preparedXA /\ suspended' = suspended /\ rUp' = rUp
      /\ rConn' = rConn
      /\ receiverXA' = receiverXA /\ commits' = commits /\ puts' = puts /\ seqn' = seqn
      /\ received' = received
      /\ faults' = faults
  BY DEF ReplyCreateXA, senderVars
<1>r. /\ \A u, k : RLetter(u, k)' <=> RLetter(u, k)
      /\ \A k : Confirmed(k)' <=> Confirmed(k)
      /\ OnceR' /\ s2r' \in Seq(ToR)
  BY <1>i, <1>u, RSame DEF Typed
<1>s. /\ \A u, k : SLetter(u, k)' <=> SLetter(u, k)
      /\ \A k, n : Named(k, n)' <=> Named(k, n)
      /\ ConnRep' <=> ConnRep
      /\ OnceS' /\ r2s' \in Seq(ToS)
  BY <1>i, <1>u, SSame DEF Typed
<1>o. \A o, k : SOp(o, k)' <=> SOp(o, k)
  BY <1>u, SOpSame
<1>d. PICK c : c = currentXA
  OBVIOUS
<1>a. /\ ROp("create", g) /\ rOps' = rOps \ {Op("create", g)}
      /\ rBranch' = [rBranch EXCEPT ![g] = "inflight"]
      /\ rMsgs' = [rMsgs EXCEPT ![g] = {}] /\ currentXA' = g /\ xaList' = xaList \cup {c}
  BY <1>d DEF ReplyCreateXA, ROp
<1>p. \A o, k : ROp(o, k)' <=> ROp(o, k) /\ ~(o = "create" /\ k = g)
  BY <1>a, OpEq DEF ROp
<1>q. rOps' \subseteq RCalls
  BY <1>i, <1>a DEF Typed
<1>c. /\ ~Recovery /\ rUp /\ rConn # "closed" /\ rBranch[g] = "none" /\ ~Gathered(g)
      /\ c \in Gtrids /\ c # g
      /\ Collecting(g) /\ commits[g] = 0 /\ ~Told(g) /\ ~TellCommit(g) /\ ~Asked(g) /\ ~Acking(g)
      /\ ~Answered(g) /\ ~Preparing(g)
  <2>1. ~Recovery /\ rUp /\ rConn # "closed"
    BY <1>i, <1>a DEF Recovers, Quiet, LinkPlaced, ROp
  <2>2. rBranch[g] = "none" /\ ~Gathered(g) /\ currentXA # NoXA /\ currentXA # g /\ Collecting(g)
    BY <1>i, <1>a DEF BranchR, Gathered, Collecting
  <2>3. c \in Gtrids
    BY <1>i, <1>d, <2>2 DEF Typed, TypeOK
  <2>4. commits[g] = 0 /\ ~Told(g) /\ ~TellCommit(g) /\ ~Asked(g) /\ ~Acking(g) /\ ~Answered(g) /\ ~Preparing(g)
    BY <1>i, <1>a, <2>2 DEF Placed
  <2> QED BY <1>d, <2>1, <2>2, <2>3, <2>4
<1>h. /\ Gathered(c) /\ Collecting(c) /\ rBranch[c] = "inflight" /\ ~Asked(c) /\ ~Acking(c)
      /\ ~Answered(c) /\ ~Preparing(c)
      /\ ~Told(c) /\ ~TellCommit(c) /\ ~Telling(c) /\ ~ROp("create", c) /\ c \notin xaList
      /\ c <= seqn /\ seqn \in Nat /\ c \in Nat /\ (linkUp => sConn = "open" /\ sBranch[c] = "none")
  <2>1. Gathered(c) /\ Collecting(c)
    BY <1>d DEF Gathered, Collecting
  <2>2. rBranch[c] = "inflight" /\ ~ROp("create", c) /\ c \notin xaList
    BY <1>i, <1>c, <1>d, <2>1 DEF BranchR
  <2>3. ~Asked(c) /\ ~Acking(c) /\ ~Answered(c) /\ ~Preparing(c) /\ ~Told(c) /\ ~TellCommit(c)
    BY <1>i, <1>c, <2>1, <2>2 DEF Placed
  <2>4. ~Telling(c)
    BY <1>c, <2>3 DEF Telling, TellRoll, Recovery, TellRec
  <2>5. c <= seqn /\ seqn \in Nat /\ c \in Nat
    BY <1>i, <1>c, <2>2, GtridsNat DEF Numbered, Typed, TypeOK
  <2>6. linkUp => sConn = "open" /\ sBranch[c] = "none"
    BY <1>i, <1>c, <2>1 DEF LinkPlaced, BranchS
  <2> QED BY <2>1, <2>2, <2>3, <2>4, <2>5, <2>6
<1>e. /\ \A k \in Gtrids : /\ rBranch'[k] = IF k = g THEN "inflight" ELSE rBranch[k]
                           /\ rMsgs'[k] = IF k = g THEN {} ELSE rMsgs[k]
      /\ rMsgs' \in [Gtrids -> SUBSET Msgs]
      /\ rBranch' \in [Gtrids -> {"none", "inflight", "prepared", "committing", "heuristic",
                                  "forgetting"}]
  BY <1>i, <1>a DEF Typed, TypeOK
<1>f. Flowing' => Flowing
  BY <1>u, <1>a, <1>c, <1>e, <1>r, <1>s DEF Flowing
<1>j. \A k \in Gtrids : Gathered(k)' <=> Gathered(k) \/ k = g
  BY <1>a, <1>d DEF Gathered
<1>1. Typed'
  <2>1. currentXA' \in Gtrids \cup {NoXA} /\ xaList' \subseteq Gtrids
    BY <1>i, <1>a, <1>c DEF Typed, TypeOK
  <2>2. \A x \in rOps' : x.g \in Gtrids
    BY <1>i, <1>a DEF Typed, TypeOK
  <2> QED BY <1>i, <1>u, <1>q, <1>e, <2>1, <2>2 DEF Typed, TypeOK
<1>2. LinkPlaced'
  BY <1>i, <1>u, <1>r, <1>s, <1>d, <1>a, <1>p, <1>q, <1>c, <1>h, <1>e DEF LinkPlaced, Preparing
<1>3. Numbered'
  BY <1>i, <1>u, <1>r, <1>s, <1>o, <1>d, <1>a, <1>p, <1>c, <1>h, <1>e, <1>f, <1>j DEF Numbered,
     Asked, Acking, Answered, Preparing, Telling, Told, Collecting, Flowing, Gathered,
     TellCommit, TellRoll, Claimed
<1>4. Placed'
  BY <1>i, <1>u, <1>r, <1>s, <1>o, <1>d, <1>a, <1>p, <1>c, <1>h, <1>e, <1>j DEF Placed, Asked,
     Acking, Answered, Preparing, TellCommit, Telling, Told, Collecting, Gathered, TellRoll,
     Claimed
<1>5. OneToken'
  BY <1>i, <1>u, <1>r, <1>s, <1>o, <1>c DEF OneToken, Recovery, TellRec, Asking
<1>6. Recovers'
  BY <1>i, <1>u, <1>r, <1>s, <1>o, <1>a, <1>p, <1>c, <1>h, <1>e DEF Recovers, TellRec, Recovery,
     Quiet, Asked, Acking, Answered, Preparing, Claimed, Asking
<1>7. BranchS'
  BY <1>i, <1>u, <1>r, <1>s, <1>o, <1>d, <1>a, <1>p, <1>c, <1>h, <1>j DEF BranchS, Asked,
     Acking, Telling, Told, Collecting, Recovery, TellRec, Asking, Gathered, TellCommit,
     TellRoll, Claimed
<1>8. Claims'
  BY <1>i, <1>u, <1>o, <1>s DEF Claims, Claimed, Hold
<1>9. BranchR'
  <2>1. g \notin xaList' /\ (\A k \in Gtrids : k = currentXA' <=> k = g) /\ currentXA' # NoXA
    BY <1>u, <1>a, <1>c, GtridsNat DEF Gathered
  <2> QED BY <1>i, <1>u, <1>c, <1>e, <1>h, <1>j, <1>o, <1>p, <1>r, <1>s, <2>1
         DEF BranchR, Dec, Asked, Acking, Claimed, Answered, Preparing
<1>10. Apart'
  BY <1>i, <1>u, <1>r, <1>d, <1>a, <1>c, <1>h, <1>e, <1>j DEF Apart, Gathered, Active
<1>11. Same'
  BY <1>i, <1>u, <1>r, <1>s, <1>o, <1>c, <1>e, <1>j DEF Same, Asked, Acking, Claimed
<1>12. Agreed'
  <2>1. ~Confirmed(g) /\ ~Dec(g) /\ ~Dec(g)' /\ rBranch'[g] \notin Bound
    BY <1>c, <1>e, ConfirmedIsAnswer DEF Dec, Bound
  <2> QED BY <1>i, <1>u, <1>c, <1>e, <1>o, <1>p, <1>r, <1>s, <2>1 DEF Agreed, Bound, Dec, Preparing, TellCommit, TellRoll
<1>13. NoDuplicate'
  BY <1>i, <1>u DEF NoDuplicate
<1>14. NothingLost'
  BY <1>i, <1>u, <1>a, <1>c, <1>h, <1>e DEF NothingLost
<1>15. DecidedIsHeld'
  BY <1>i, <1>u, <1>a, <1>c, <1>h, <1>e DEF DecidedIsHeld
<1>16. Starting'
  BY <1>i, <1>u, <1>a, <1>s DEF Starting
<1>17. Deciding'
  BY <1>i, <1>u, <1>r, <1>s, <1>o, <1>a, <1>p, <1>c, <1>h DEF Deciding, Answered, Preparing
<1>18. Resuming'
  BY <1>i, <1>u, <1>o, <1>h DEF Resuming
<1> QED
  BY <1>1, <1>2, <1>3, <1>4, <1>5, <1>6, <1>7, <1>8, <1>9, <1>10, <1>11, <1>12, <1>13, <1>14,
     <1>15, <1>16, <1>17, <1>18, <1>r, <1>s DEF ForwardInv

(* Branch R is created and its predecessor is sent for prepare.            *)
LEMMA CreatePrepares ==
  ASSUME ForwardInv, NEW g \in Gtrids, ReplyCreateXA(g), ~PutsPending(currentXA, puts)
  PROVE  ForwardInv'
<1>i. /\ Typed /\ OnceR /\ OnceS /\ LinkPlaced /\ Numbered /\ Placed /\ OneToken
      /\ Recovers /\ BranchS /\ Claims /\ BranchR /\ Apart /\ Same /\ Agreed
      /\ NoDuplicate /\ NothingLost /\ DecidedIsHeld /\ Starting /\ Deciding /\ Resuming
  BY DEF ForwardInv
<1>u. /\ s2r' = s2r /\ linkUp' = linkUp /\ where' = where /\ sBranch' = sBranch /\ sMsgs' = sMsgs
      /\ senderXA' = senderXA /\ recoveryList' = recoveryList /\ sConn' = sConn
      /\ started' = started /\ sOps' = sOps
      /\ preparedXA' = preparedXA /\ suspended' = suspended /\ rUp' = rUp /\ rConn' = rConn
      /\ receiverXA' = receiverXA
      /\ commits' = commits /\ xaList' = xaList /\ puts' = puts /\ seqn' = seqn
      /\ received' = received
      /\ faults' = faults
  BY DEF ReplyCreateXA, senderVars
<1>r. /\ \A u, k : RLetter(u, k)' <=> RLetter(u, k)
      /\ \A k : Confirmed(k)' <=> Confirmed(k)
      /\ OnceR' /\ s2r' \in Seq(ToR)
  BY <1>i, <1>u, RSame DEF Typed
<1>o. \A o, k : SOp(o, k)' <=> SOp(o, k)
  BY <1>u, SOpSame
<1>d. PICK c : c = currentXA
  OBVIOUS
<1>a. /\ ROp("create", g) /\ rOps' = rOps \ {Op("create", g)}
      /\ rBranch' = [rBranch EXCEPT ![g] = "inflight"]
      /\ rMsgs' = [rMsgs EXCEPT ![g] = {}] /\ currentXA' = g /\ ToSender(PrepareMsg(c))
  BY <1>d DEF ReplyCreateXA, ROp
<1>p. \A o, k : ROp(o, k)' <=> ROp(o, k) /\ ~(o = "create" /\ k = g)
  BY <1>a, OpEq DEF ROp
<1>q. rOps' \subseteq RCalls
  BY <1>i, <1>a DEF Typed
<1>c. /\ ~Recovery /\ rUp /\ rConn # "closed" /\ rBranch[g] = "none" /\ ~Gathered(g)
      /\ c \in Gtrids /\ c # g
      /\ Collecting(g) /\ commits[g] = 0 /\ ~Told(g) /\ ~TellCommit(g) /\ ~Asked(g) /\ ~Acking(g)
      /\ ~Answered(g) /\ ~Preparing(g)
  <2>1. ~Recovery /\ rUp /\ rConn # "closed"
    BY <1>i, <1>a DEF Recovers, Quiet, LinkPlaced, ROp
  <2>2. rBranch[g] = "none" /\ ~Gathered(g) /\ currentXA # NoXA /\ currentXA # g /\ Collecting(g)
    BY <1>i, <1>a DEF BranchR, Gathered, Collecting
  <2>3. c \in Gtrids
    BY <1>i, <1>d, <2>2 DEF Typed, TypeOK
  <2>4. commits[g] = 0 /\ ~Told(g) /\ ~TellCommit(g) /\ ~Asked(g) /\ ~Acking(g) /\ ~Answered(g) /\ ~Preparing(g)
    BY <1>i, <1>a, <2>2 DEF Placed
  <2> QED BY <1>d, <2>1, <2>2, <2>3, <2>4
<1>h. /\ Gathered(c) /\ Collecting(c) /\ rBranch[c] = "inflight" /\ ~Asked(c) /\ ~Acking(c)
      /\ ~Answered(c) /\ ~Preparing(c)
      /\ ~Told(c) /\ ~TellCommit(c) /\ ~Telling(c) /\ ~ROp("create", c) /\ c \notin xaList
      /\ c <= seqn /\ seqn \in Nat /\ c \in Nat /\ (linkUp => sConn = "open" /\ sBranch[c] = "none")
  <2>1. Gathered(c) /\ Collecting(c)
    BY <1>d DEF Gathered, Collecting
  <2>2. rBranch[c] = "inflight" /\ ~ROp("create", c) /\ c \notin xaList
    BY <1>i, <1>c, <1>d, <2>1 DEF BranchR
  <2>3. ~Asked(c) /\ ~Acking(c) /\ ~Answered(c) /\ ~Preparing(c) /\ ~Told(c) /\ ~TellCommit(c)
    BY <1>i, <1>c, <2>1, <2>2 DEF Placed
  <2>4. ~Telling(c)
    BY <1>c, <2>3 DEF Telling, TellRoll, Recovery, TellRec
  <2>5. c <= seqn /\ seqn \in Nat /\ c \in Nat
    BY <1>i, <1>c, <2>2, GtridsNat DEF Numbered, Typed, TypeOK
  <2>6. linkUp => sConn = "open" /\ sBranch[c] = "none"
    BY <1>i, <1>c, <2>1 DEF LinkPlaced, BranchS
  <2> QED BY <2>1, <2>2, <2>3, <2>4, <2>5, <2>6
<1>e. /\ \A k \in Gtrids : /\ rBranch'[k] = IF k = g THEN "inflight" ELSE rBranch[k]
                           /\ rMsgs'[k] = IF k = g THEN {} ELSE rMsgs[k]
      /\ rMsgs' \in [Gtrids -> SUBSET Msgs]
      /\ rBranch' \in [Gtrids -> {"none", "inflight", "prepared", "committing", "heuristic",
                                  "forgetting"}]
  BY <1>i, <1>a DEF Typed, TypeOK
<1>s. /\ \A u, k : SLetter(u, k)' <=> SLetter(u, k) \/ (linkUp /\ u = "Prepare" /\ k = c)
      /\ \A k, n : Named(k, n)' <=> Named(k, n) \/ (linkUp /\ k = c /\ n \in rMsgs[c])
      /\ ConnRep' <=> ConnRep
      /\ OnceS' /\ r2s' \in Seq(ToS) /\ (linkUp \/ r2s' = r2s)
  BY <1>i, <1>a, <1>c, <1>h, SendsPrepare
<1>f. Flowing' => Flowing
  BY <1>u, <1>a, <1>c, <1>e, <1>r, <1>s DEF Flowing
<1>j. \A k \in Gtrids : Gathered(k)' <=> (Gathered(k) /\ k # c) \/ k = g
  BY <1>u, <1>a, <1>d, <1>h DEF Gathered
<1>v. \A n \in Msgs : linkUp /\ n \in rMsgs[c] =>
        where[n] = "sent" /\ \A h \in Gtrids : ~Named(h, n) /\ ~(Acking(h) /\ n \in sMsgs[h])
  BY <1>i, <1>a, <1>c, <1>h, NamedApart
<1>w. \A m \in Msgs : m \in rMsgs[c] => m \notin puts
  BY <1>d DEF PutsPending
<1>1. Typed'
  BY <1>i, <1>u, <1>r, <1>d, <1>a, <1>q, <1>c, <1>h, <1>e, <1>s, <1>v, <1>w DEF Typed, TypeOK
<1>2. LinkPlaced'
  BY <1>i, <1>u, <1>r, <1>d, <1>a, <1>p, <1>q, <1>c, <1>h, <1>e, <1>s, <1>v, <1>w DEF
     LinkPlaced, Preparing
<1>3. Numbered'
  BY <1>i, <1>u, <1>r, <1>o, <1>d, <1>a, <1>p, <1>c, <1>h, <1>e, <1>s, <1>f, <1>j, <1>v, <1>w DEF
     Numbered, Asked, Acking, Answered, Preparing, Telling, Told, Collecting, Flowing, Gathered,
     TellCommit, TellRoll, Claimed
<1>4. Placed'
  BY <1>i, <1>u, <1>r, <1>o, <1>d, <1>a, <1>p, <1>c, <1>h, <1>e, <1>s, <1>j, <1>v DEF Placed,
     Asked, Acking, Answered, Preparing, TellCommit, Telling, Told, Collecting, Gathered,
     TellRoll, Claimed
<1>5. OneToken'
  BY <1>i, <1>u, <1>r, <1>o, <1>c, <1>s DEF OneToken, Recovery, TellRec, Asking
<1>6. Recovers'
  BY <1>i, <1>u, <1>r, <1>o, <1>a, <1>p, <1>c, <1>h, <1>e, <1>s, <1>v, <1>w DEF Recovers,
     TellRec, Recovery, Quiet, Asked, Acking, Answered, Preparing, Claimed, Asking
<1>7. BranchS'
  BY <1>i, <1>u, <1>r, <1>o, <1>d, <1>a, <1>p, <1>c, <1>h, <1>s, <1>j, <1>v DEF BranchS, Asked,
     Acking, Telling, Told, Collecting, Recovery, TellRec, Asking, Gathered, TellCommit,
     TellRoll, Claimed
<1>8. Claims'
  BY <1>i, <1>u, <1>o, <1>s, <1>v DEF Claims, Claimed, Acking, Hold
<1>9. BranchR'
  <2>1. g \notin xaList' /\ (\A k \in Gtrids : k = currentXA' <=> k = g) /\ currentXA' # NoXA
    BY <1>u, <1>a, <1>c, GtridsNat DEF Gathered
  <2> QED BY <1>i, <1>u, <1>c, <1>e, <1>h, <1>j, <1>o, <1>p, <1>r, <1>s, <2>1
         DEF BranchR, Dec, Asked, Acking, Claimed, Answered, Preparing
<1>10. Apart'
  BY <1>i, <1>u, <1>r, <1>d, <1>a, <1>c, <1>h, <1>e, <1>s, <1>j, <1>v, <1>w DEF Apart, Gathered,
     Active
<1>11. Same'
  BY <1>i, <1>u, <1>a, <1>c, <1>e, <1>h, <1>j, <1>o, <1>r, <1>s, <1>v, NamedIsAsked DEF Same,
     Asked, Acking, Claimed
<1>12. Agreed'
  <2>1. ~Confirmed(g) /\ ~Dec(g) /\ ~Dec(g)' /\ rBranch'[g] \notin Bound
    BY <1>c, <1>e, ConfirmedIsAnswer DEF Dec, Bound
  <2> QED BY <1>i, <1>u, <1>c, <1>e, <1>o, <1>p, <1>r, <1>s, <2>1 DEF Agreed, Bound, Dec, Preparing, TellCommit, TellRoll
<1>13. NoDuplicate'
  BY <1>i, <1>u DEF NoDuplicate
<1>14. NothingLost'
  BY <1>i, <1>u, <1>a, <1>c, <1>h, <1>e, <1>s, <1>v, <1>w DEF NothingLost
<1>15. DecidedIsHeld'
  BY <1>i, <1>u, <1>a, <1>c, <1>h, <1>e, <1>s, <1>v, <1>w DEF DecidedIsHeld
<1>16. Starting'
  BY <1>i, <1>u, <1>a, <1>s DEF Starting
<1>17. Deciding'
  BY <1>i, <1>u, <1>r, <1>o, <1>a, <1>p, <1>c, <1>h, <1>s, <1>v DEF Deciding, Answered,
     Preparing
<1>18. Resuming'
  BY <1>i, <1>u, <1>o, <1>h DEF Resuming
<1> QED
  BY <1>1, <1>2, <1>3, <1>4, <1>5, <1>6, <1>7, <1>8, <1>9, <1>10, <1>11, <1>12, <1>13, <1>14,
     <1>15, <1>16, <1>17, <1>18, <1>r, <1>s DEF ForwardInv

(* Branch R is created, in both cases.                                     *)
LEMMA ReplyCreateXAKeeps ==
  ASSUME ForwardInv, NEW g \in Gtrids, ReplyCreateXA(g)
  PROVE  ForwardInv'
  BY CreateWaits, CreatePrepares

(* A put ends and its transaction waits.                                   *)
LEMMA PutOnly ==
  ASSUME ForwardInv, NEW m \in Msgs, PutDone(m), UNCHANGED <<xaList, r2s>>
  PROVE  ForwardInv'
<1>i. /\ Typed /\ OnceR /\ OnceS /\ LinkPlaced /\ Numbered /\ Placed /\ OneToken
      /\ Recovers /\ BranchS /\ Claims /\ BranchR /\ Apart /\ Same /\ Agreed
      /\ NoDuplicate /\ NothingLost /\ DecidedIsHeld /\ Starting /\ Deciding /\ Resuming
  BY DEF ForwardInv
<1>u. /\ s2r' = s2r /\ r2s' = r2s /\ linkUp' = linkUp /\ where' = where /\ sBranch' = sBranch
      /\ sMsgs' = sMsgs /\ senderXA' = senderXA /\ recoveryList' = recoveryList
      /\ sConn' = sConn /\ started' = started
      /\ sOps' = sOps /\ preparedXA' = preparedXA /\ suspended' = suspended /\ rUp' = rUp
      /\ rConn' = rConn
      /\ rBranch' = rBranch /\ rMsgs' = rMsgs /\ receiverXA' = receiverXA /\ commits' = commits
      /\ currentXA' = currentXA
      /\ xaList' = xaList /\ rOps' = rOps /\ seqn' = seqn /\ received' = received
      /\ faults' = faults
  BY DEF PutDone, senderVars
<1>r. /\ \A u, k : RLetter(u, k)' <=> RLetter(u, k)
      /\ \A k : Confirmed(k)' <=> Confirmed(k)
      /\ OnceR' /\ s2r' \in Seq(ToR)
  BY <1>i, <1>u, RSame DEF Typed
<1>s. /\ \A u, k : SLetter(u, k)' <=> SLetter(u, k)
      /\ \A k, n : Named(k, n)' <=> Named(k, n)
      /\ ConnRep' <=> ConnRep
      /\ OnceS' /\ r2s' \in Seq(ToS)
  BY <1>i, <1>u, SSame DEF Typed
<1>o. \A o, k : SOp(o, k)' <=> SOp(o, k)
  BY <1>u, SOpSame
<1>p. \A o, k : ROp(o, k)' <=> ROp(o, k)
  BY <1>u, ROpSame
<1>a. m \in puts /\ puts' = puts \ {m}
  BY DEF PutDone
<1>c. ~Recovery /\ rConn # "closed"
  BY <1>i, <1>a DEF Recovers, Quiet, LinkPlaced
<1>1. Typed'
  BY <1>i, <1>u, <1>r, <1>s, <1>a, <1>c DEF Typed, TypeOK
<1>2. LinkPlaced'
  BY <1>i, <1>u, <1>r, <1>s, <1>p, <1>a, <1>c DEF LinkPlaced, Preparing
<1>3. Numbered'
  BY <1>i, <1>u, <1>r, <1>s, <1>o, <1>p DEF Numbered, Asked, Acking, Answered, Preparing,
     Telling, Told, Collecting, Flowing, Gathered, TellCommit, TellRoll, Claimed
<1>4. Placed'
  BY <1>i, <1>u, <1>r, <1>s, <1>o, <1>p DEF Placed, Asked, Acking, Answered, Preparing,
     TellCommit, Telling, Told, Collecting, Gathered, TellRoll, Claimed
<1>5. OneToken'
  BY <1>i, <1>u, <1>r, <1>s, <1>o, <1>c DEF OneToken, Recovery, TellRec, Asking
<1>6. Recovers'
  BY <1>i, <1>u, <1>r, <1>s, <1>o, <1>p, <1>a, <1>c DEF Recovers, TellRec, Recovery, Quiet,
     Asked, Acking, Answered, Preparing, Claimed, Asking
<1>7. BranchS'
  BY <1>i, <1>u, <1>r, <1>s, <1>o, <1>p, <1>c DEF BranchS, Asked, Acking, Telling, Told,
     Collecting, Recovery, TellRec, Asking, Gathered, TellCommit, TellRoll, Claimed
<1>8. Claims'
  BY <1>i, <1>u, <1>o, <1>s DEF Claims, Claimed, Hold
<1>9. BranchR'
  BY <1>i, <1>u, <1>r, <1>s, <1>o, <1>p DEF BranchR, Asked, Acking, Answered, Preparing,
     Gathered, Dec, Claimed
<1>10. Apart'
  BY <1>i, <1>u, <1>r, <1>a DEF Apart, Gathered, Active
<1>11. Same'
  BY <1>i, <1>u, <1>r, <1>s, <1>o DEF Same, Asked, Acking, Gathered, Claimed
<1>12. Agreed'
  BY <1>i, <1>u, <1>r, <1>s, <1>o, <1>p DEF Agreed, Preparing, TellCommit, TellRoll, Dec, Bound
<1>13. NoDuplicate'
  BY <1>i, <1>u DEF NoDuplicate
<1>14. NothingLost'
  BY <1>i, <1>u DEF NothingLost
<1>15. DecidedIsHeld'
  BY <1>i, <1>u DEF DecidedIsHeld
<1>16. Starting'
  BY <1>i, <1>u, <1>r, <1>s, <1>o, <1>p, <1>a DEF Starting, Asked, Acking, Claimed
<1>17. Deciding'
  BY <1>i, <1>u, <1>r, <1>s, <1>o, <1>p DEF Deciding, Answered, Preparing
<1>18. Resuming'
  BY <1>i, <1>u, <1>o DEF Resuming
<1> QED
  BY <1>1, <1>2, <1>3, <1>4, <1>5, <1>6, <1>7, <1>8, <1>9, <1>10, <1>11, <1>12, <1>13, <1>14,
     <1>15, <1>16, <1>17, <1>18, <1>r, <1>s DEF ForwardInv

(* The last put of a closed transaction ends and Prepare is sent.          *)
LEMMA PutPrepares ==
  ASSUME ForwardInv, NEW m \in Msgs, PutDone(m), NEW c \in xaList, ~PutsPending(c, puts \ {m}),
         xaList' = xaList \ {c}, ToSender(PrepareMsg(c))
  PROVE  ForwardInv'
<1>i. /\ Typed /\ OnceR /\ OnceS /\ LinkPlaced /\ Numbered /\ Placed /\ OneToken
      /\ Recovers /\ BranchS /\ Claims /\ BranchR /\ Apart /\ Same /\ Agreed
      /\ NoDuplicate /\ NothingLost /\ DecidedIsHeld /\ Starting /\ Deciding /\ Resuming
  BY DEF ForwardInv
<1>u. /\ s2r' = s2r /\ linkUp' = linkUp /\ where' = where /\ sBranch' = sBranch /\ sMsgs' = sMsgs
      /\ senderXA' = senderXA /\ recoveryList' = recoveryList /\ sConn' = sConn
      /\ started' = started /\ sOps' = sOps
      /\ preparedXA' = preparedXA /\ suspended' = suspended /\ rUp' = rUp /\ rConn' = rConn
      /\ rBranch' = rBranch
      /\ rMsgs' = rMsgs /\ receiverXA' = receiverXA /\ commits' = commits
      /\ currentXA' = currentXA /\ rOps' = rOps
      /\ seqn' = seqn /\ received' = received /\ faults' = faults
  BY DEF PutDone, senderVars
<1>r. /\ \A u, k : RLetter(u, k)' <=> RLetter(u, k)
      /\ \A k : Confirmed(k)' <=> Confirmed(k)
      /\ OnceR' /\ s2r' \in Seq(ToR)
  BY <1>i, <1>u, RSame DEF Typed
<1>o. \A o, k : SOp(o, k)' <=> SOp(o, k)
  BY <1>u, SOpSame
<1>p. \A o, k : ROp(o, k)' <=> ROp(o, k)
  BY <1>u, ROpSame
<1>a. m \in puts /\ puts' = puts \ {m} /\ ToSender(PrepareMsg(c)) /\ c \in Gtrids /\ xaList' = xaList \ {c}
  BY <1>i DEF PutDone, Typed, TypeOK
<1>c. ~Recovery /\ rConn # "closed" /\ rUp
  BY <1>i, <1>a DEF Recovers, Quiet, LinkPlaced
<1>h. /\ Gathered(c) /\ Collecting(c) /\ rBranch[c] = "inflight" /\ ~Asked(c) /\ ~Acking(c)
      /\ ~Answered(c) /\ ~Preparing(c)
      /\ ~Told(c) /\ ~TellCommit(c) /\ ~Telling(c) /\ ~ROp("create", c) /\ c # currentXA
      /\ c <= seqn /\ seqn \in Nat /\ c \in Nat /\ (linkUp => sConn = "open" /\ sBranch[c] = "none")
  <2>1. Gathered(c) /\ Collecting(c)
    BY DEF Gathered, Collecting
  <2>2. rBranch[c] = "inflight" /\ ~ROp("create", c) /\ c # currentXA
    BY <1>i, <1>a, <2>1 DEF BranchR
  <2>3. ~Asked(c) /\ ~Acking(c) /\ ~Answered(c) /\ ~Preparing(c) /\ ~Told(c) /\ ~TellCommit(c)
    BY <1>i, <1>a, <2>1, <2>2 DEF Placed
  <2>4. ~Telling(c)
    BY <1>a, <1>c, <2>3 DEF Telling, TellRoll, Recovery, TellRec
  <2>5. c <= seqn /\ seqn \in Nat /\ c \in Nat
    BY <1>i, <1>a, <1>c, <2>2, GtridsNat DEF Numbered, Typed, TypeOK
  <2>6. linkUp => sConn = "open" /\ sBranch[c] = "none"
    BY <1>i, <1>a, <1>c, <2>1 DEF LinkPlaced, BranchS
  <2> QED BY <2>1, <2>2, <2>3, <2>4, <2>5, <2>6
<1>s. /\ \A u, k : SLetter(u, k)' <=> SLetter(u, k) \/ (linkUp /\ u = "Prepare" /\ k = c)
      /\ \A k, n : Named(k, n)' <=> Named(k, n) \/ (linkUp /\ k = c /\ n \in rMsgs[c])
      /\ ConnRep' <=> ConnRep
      /\ OnceS' /\ r2s' \in Seq(ToS) /\ (linkUp \/ r2s' = r2s)
  BY <1>i, <1>a, <1>c, <1>h, SendsPrepare
<1>f. Flowing' => Flowing
  BY <1>u, <1>r, <1>s DEF Flowing
<1>j. \A k \in Gtrids : Gathered(k)' <=> Gathered(k) /\ k # c
  BY <1>u, <1>a, <1>h DEF Gathered
<1>v. \A n \in Msgs : linkUp /\ n \in rMsgs[c] =>
        where[n] = "sent" /\ \A h \in Gtrids : ~Named(h, n) /\ ~(Acking(h) /\ n \in sMsgs[h])
  BY <1>i, <1>a, <1>c, <1>h, NamedApart
<1>w. \A n \in Msgs : n \in rMsgs[c] => n \notin puts'
  BY <1>a DEF PutsPending
<1>1. Typed'
  BY <1>i, <1>u, <1>r, <1>a, <1>c, <1>h, <1>s, <1>v, <1>w DEF Typed, TypeOK
<1>2. LinkPlaced'
  BY <1>i, <1>u, <1>r, <1>p, <1>a, <1>c, <1>h, <1>s, <1>v, <1>w DEF LinkPlaced, Preparing
<1>3. Numbered'
  BY <1>i, <1>u, <1>r, <1>o, <1>p, <1>a, <1>c, <1>h, <1>s, <1>f, <1>j, <1>v, <1>w DEF Numbered,
     Asked, Acking, Answered, Preparing, Telling, Told, Collecting, Flowing, Gathered,
     TellCommit, TellRoll, Claimed
<1>4. Placed'
  BY <1>i, <1>u, <1>r, <1>o, <1>p, <1>a, <1>h, <1>s, <1>j, <1>v DEF Placed, Asked, Acking,
     Answered, Preparing, TellCommit, Telling, Told, Collecting, Gathered, TellRoll, Claimed
<1>5. OneToken'
  BY <1>i, <1>u, <1>r, <1>o, <1>c, <1>s DEF OneToken, Recovery, TellRec, Asking
<1>6. Recovers'
  BY <1>i, <1>u, <1>r, <1>o, <1>p, <1>a, <1>c, <1>h, <1>s, <1>v, <1>w DEF Recovers, TellRec,
     Recovery, Quiet, Asked, Acking, Answered, Preparing, Claimed, Asking
<1>7. BranchS'
  BY <1>i, <1>u, <1>r, <1>o, <1>p, <1>a, <1>c, <1>h, <1>s, <1>j, <1>v DEF BranchS, Asked,
     Acking, Telling, Told, Collecting, Recovery, TellRec, Asking, Gathered, TellCommit,
     TellRoll, Claimed
<1>8. Claims'
  BY <1>i, <1>u, <1>o, <1>s, <1>v DEF Claims, Claimed, Acking, Hold
<1>9. BranchR'
  BY <1>i, <1>u, <1>r, <1>o, <1>p, <1>a, <1>h, <1>s, <1>j, <1>v DEF BranchR, Asked, Acking,
     Answered, Preparing, Gathered, Dec, Claimed
<1>10. Apart'
  BY <1>i, <1>u, <1>r, <1>a, <1>h, <1>s, <1>j, <1>v, <1>w DEF Apart, Gathered, Active
<1>11. Same'
  BY <1>i, <1>u, <1>a, <1>h, <1>j, <1>o, <1>r, <1>s, <1>v, NamedIsAsked DEF Same, Asked, Acking,
     Claimed
<1>12. Agreed'
  BY <1>i, <1>u, <1>r, <1>o, <1>p, <1>c, <1>h, <1>s, <1>v, <1>w DEF Agreed, Preparing,
     TellCommit, TellRoll, Dec, Bound
<1>13. NoDuplicate'
  BY <1>i, <1>u DEF NoDuplicate
<1>14. NothingLost'
  BY <1>i, <1>u, <1>h, <1>s, <1>v, <1>w DEF NothingLost
<1>15. DecidedIsHeld'
  BY <1>i, <1>u, <1>h, <1>s, <1>v, <1>w DEF DecidedIsHeld
<1>16. Starting'
  BY <1>i, <1>u, <1>r, <1>o, <1>p, <1>a, <1>h, <1>s, <1>v, <1>w DEF Starting, Asked, Acking,
     Claimed
<1>17. Deciding'
  BY <1>i, <1>u, <1>r, <1>o, <1>p, <1>h, <1>s, <1>v DEF Deciding, Answered, Preparing
<1>18. Resuming'
  BY <1>i, <1>u, <1>o, <1>h DEF Resuming
<1> QED
  BY <1>1, <1>2, <1>3, <1>4, <1>5, <1>6, <1>7, <1>8, <1>9, <1>10, <1>11, <1>12, <1>13, <1>14,
     <1>15, <1>16, <1>17, <1>18, <1>r, <1>s DEF ForwardInv

(* fwdReplyPublish and fwdReliableACK, in both cases.                      *)
LEMMA PutDoneKeeps ==
  ASSUME ForwardInv, NEW m \in Msgs, PutDone(m)
  PROVE  ForwardInv'
<1> DEFINE ready == {g \in xaList : m \in rMsgs[g] /\ ~PutsPending(g, puts \ {m})}
<1>1. CASE rConn = "open" /\ ready # {}
  <2>1. PICK c : c = CHOOSE h \in ready : TRUE
    OBVIOUS
  <2>2. c \in ready
    BY <1>1, <2>1
  <2>3. c \in xaList /\ ~PutsPending(c, puts \ {m})
    BY <2>2
  <2>4. xaList' = xaList \ {c} /\ ToSender(PrepareMsg(c))
    BY <1>1, <2>1 DEF PutDone
  <2> QED BY <2>3, <2>4, PutPrepares
<1>2. CASE ~(rConn = "open" /\ ready # {})
  <2>1. UNCHANGED <<xaList, r2s>>
    BY <1>2 DEF PutDone
  <2> QED BY <2>1, PutOnly
<1> QED BY <1>1, <1>2

(* The invariant speaks of the variables only.                             *)
LEMMA StutterKeeps ==
  ASSUME ForwardInv, UNCHANGED vars
  PROVE  ForwardInv'
<1>i. /\ Typed /\ OnceR /\ OnceS /\ LinkPlaced /\ Numbered /\ Placed /\ OneToken
      /\ Recovers /\ BranchS /\ Claims /\ BranchR /\ Apart /\ Same /\ Agreed
      /\ NoDuplicate /\ NothingLost /\ DecidedIsHeld /\ Starting /\ Deciding /\ Resuming
  BY DEF ForwardInv
<1>u. /\ s2r' = s2r /\ r2s' = r2s /\ linkUp' = linkUp /\ where' = where /\ sBranch' = sBranch
      /\ sMsgs' = sMsgs /\ senderXA' = senderXA /\ recoveryList' = recoveryList
      /\ sConn' = sConn /\ started' = started
      /\ sOps' = sOps /\ preparedXA' = preparedXA /\ suspended' = suspended /\ rUp' = rUp
      /\ rConn' = rConn
      /\ rBranch' = rBranch /\ rMsgs' = rMsgs /\ receiverXA' = receiverXA /\ commits' = commits
      /\ currentXA' = currentXA
      /\ xaList' = xaList /\ puts' = puts /\ rOps' = rOps /\ seqn' = seqn /\ received' = received
      /\ faults' = faults
  BY DEF vars, link, senderVars, receiverVars
<1>r. /\ \A u, k : RLetter(u, k)' <=> RLetter(u, k)
      /\ \A k : Confirmed(k)' <=> Confirmed(k)
      /\ OnceR' /\ s2r' \in Seq(ToR)
  BY <1>i, <1>u, RSame DEF Typed
<1>s. /\ \A u, k : SLetter(u, k)' <=> SLetter(u, k)
      /\ \A k, n : Named(k, n)' <=> Named(k, n)
      /\ ConnRep' <=> ConnRep
      /\ OnceS' /\ r2s' \in Seq(ToS)
  BY <1>i, <1>u, SSame DEF Typed
<1>o. \A o, k : SOp(o, k)' <=> SOp(o, k)
  BY <1>u, SOpSame
<1>p. \A o, k : ROp(o, k)' <=> ROp(o, k)
  BY <1>u, ROpSame
<1>1. Typed'
  BY <1>i, <1>u, <1>r, <1>s, <1>o, <1>p DEF Typed, TypeOK
<1>2. LinkPlaced'
  BY <1>i, <1>u, <1>r, <1>s, <1>o, <1>p DEF LinkPlaced, Preparing
<1>3. Numbered'
  BY <1>i, <1>u, <1>r, <1>s, <1>o, <1>p DEF Numbered, Asked, Acking, Answered, Preparing,
     Telling, Told, Collecting, Flowing, Gathered, TellCommit, TellRoll, Claimed
<1>4. Placed'
  BY <1>i, <1>u, <1>r, <1>s, <1>o, <1>p DEF Placed, Asked, Acking, Answered, Preparing,
     TellCommit, Telling, Told, Collecting, Gathered, TellRoll, Claimed
<1>5. OneToken'
  BY <1>i, <1>u, <1>r, <1>s, <1>o, <1>p DEF OneToken, TellRec, Asking
<1>6. Recovers'
  BY <1>i, <1>u, <1>r, <1>s, <1>o, <1>p DEF Recovers, TellRec, Recovery, Quiet, Asked, Acking,
     Answered, Preparing, Claimed, Asking
<1>7. BranchS'
  BY <1>i, <1>u, <1>r, <1>s, <1>o, <1>p DEF BranchS, Asked, Acking, Telling, Told, Collecting,
     Recovery, TellRec, Asking, Gathered, TellCommit, TellRoll, Claimed
<1>8. Claims'
  BY <1>i, <1>u, <1>r, <1>s, <1>o, <1>p DEF Claims, Claimed, Hold
<1>9. BranchR'
  BY <1>i, <1>u, <1>r, <1>s, <1>o, <1>p DEF BranchR, Asked, Acking, Answered, Preparing,
     Gathered, Dec, Claimed
<1>10. Apart'
  BY <1>i, <1>u, <1>r, <1>s, <1>o, <1>p DEF Apart, Gathered, Active
<1>11. Same'
  BY <1>i, <1>u, <1>r, <1>s, <1>o, <1>p DEF Same, Asked, Acking, Gathered, Claimed
<1>12. Agreed'
  BY <1>i, <1>u, <1>r, <1>s, <1>o, <1>p DEF Agreed, Preparing, TellCommit, TellRoll, Dec, Bound
<1>13. NoDuplicate'
  BY <1>i, <1>u, <1>r, <1>s, <1>o, <1>p DEF NoDuplicate
<1>14. NothingLost'
  BY <1>i, <1>u, <1>r, <1>s, <1>o, <1>p DEF NothingLost
<1>15. DecidedIsHeld'
  BY <1>i, <1>u, <1>r, <1>s, <1>o, <1>p DEF DecidedIsHeld
<1>16. Starting'
  BY <1>i, <1>u, <1>r, <1>s, <1>o, <1>p DEF Starting, Asked, Acking, Claimed
<1>17. Deciding'
  BY <1>i, <1>u, <1>r, <1>s, <1>o, <1>p DEF Deciding, Answered, Preparing
<1>18. Resuming'
  BY <1>i, <1>u, <1>o DEF Resuming
<1> QED
  BY <1>1, <1>2, <1>3, <1>4, <1>5, <1>6, <1>7, <1>8, <1>9, <1>10, <1>11, <1>12, <1>13, <1>14,
     <1>15, <1>16, <1>17, <1>18, <1>r, <1>s DEF ForwardInv

-----------------------------------------------------------------------------
(* The invariant and what it implies.                                      *)

(* It holds when both servers start with nothing between them.             *)
LEMMA InitForward == Init => ForwardInv
<1> SUFFICES ASSUME Init PROVE ForwardInv
  OBVIOUS
<1>a. /\ s2r = <<>> /\ r2s = <<>> /\ linkUp = FALSE /\ senderXA = {} /\ recoveryList = {}
      /\ sConn = "closed" /\ started = FALSE /\ sOps = {} /\ preparedXA = 0 /\ suspended = FALSE
      /\ rUp = TRUE /\ rConn = "closed" /\ currentXA = NoXA /\ xaList = {} /\ puts = {}
      /\ rOps = {} /\ seqn = 0 /\ faults = 0
  BY DEF Init
<1>b. /\ sBranch = [g \in Gtrids |-> "none"] /\ sMsgs = [g \in Gtrids |-> {}]
      /\ rBranch = [g \in Gtrids |-> "none"] /\ rMsgs = [g \in Gtrids |-> {}]
      /\ receiverXA = [g \in Gtrids |-> "no"] /\ commits = [g \in Gtrids |-> 0]
      /\ received = [m \in Msgs |-> 0]
  BY DEF Init
<1>c. PICK n \in Msgs : where = [m \in Msgs |-> IF m <= n THEN "queued" ELSE "absent"]
  BY DEF Init
<1>d. \A m \in Msgs : where[m] \in {"queued", "absent"} /\ received[m] = 0
  BY <1>b, <1>c
<1>e. \A g \in Gtrids : /\ sBranch[g] = "none" /\ rBranch[g] = "none" /\ receiverXA[g] = "no"
                        /\ sMsgs[g] = {} /\ rMsgs[g] = {} /\ commits[g] = 0
  BY <1>b
<1>r. (\A u, g : ~RLetter(u, g)) /\ (\A g : ~Confirmed(g)) /\ OnceR /\ s2r \in Seq(ToR)
  BY <1>a, REmpty DEF OnceR
<1>s. /\ (\A u, g : ~SLetter(u, g)) /\ (\A g, m : ~Named(g, m)) /\ ~ConnRep
      /\ OnceS /\ r2s \in Seq(ToS)
  BY <1>a, SEmpty DEF OnceS
<1>o. \A o, g : ~SOp(o, g) /\ ~ROp(o, g)
  BY <1>a DEF SOp, ROp
<1>1. Typed
  <2>1. /\ sBranch \in [Gtrids -> {"none", "inflight", "prepared"}]
        /\ sMsgs \in [Gtrids -> SUBSET Msgs] /\ rMsgs \in [Gtrids -> SUBSET Msgs]
        /\ rBranch \in [Gtrids -> {"none", "inflight", "prepared", "committing", "heuristic",
                                   "forgetting"}]
        /\ receiverXA \in [Gtrids -> {"no", "linked", "prepared"}]
    BY <1>b
  <2>2. commits \in [Gtrids -> 0..2] /\ received \in [Msgs -> Nat]
    BY <1>b
  <2>3. where \in [Msgs -> {"absent", "queued", "sent", "acked", "gone"}]
    BY <1>c
  <2>4. /\ seqn \in Nat /\ preparedXA \in Nat /\ faults \in 0..MaxFaults
        /\ linkUp \in BOOLEAN /\ started \in BOOLEAN /\ suspended \in BOOLEAN /\ rUp \in BOOLEAN
    <3>1. MaxFaults \in Nat
      BY ForwarderAssumption
    <3>2. faults \in 0..MaxFaults
      BY <1>a, <3>1
    <3>3. seqn \in Nat /\ preparedXA \in Nat
      BY <1>a
    <3>4. linkUp \in BOOLEAN /\ started \in BOOLEAN /\ suspended \in BOOLEAN /\ rUp \in BOOLEAN
      BY <1>a
    <3> QED BY <3>2, <3>3, <3>4
  <2>5. TypeOK
    BY <1>a, <2>1, <2>2, <2>3, <2>4 DEF TypeOK
  <2> QED BY <1>a, <1>r, <1>s, <2>2, <2>5 DEF Typed
<1>2. LinkPlaced
  BY <1>a, <1>e, <1>o DEF LinkPlaced, Preparing
<1>f. \A g \in Gtrids : ~Gathered(g) /\ ~Collecting(g)
  BY <1>a, <1>o, GtridsNat DEF Gathered, Collecting
<1>g. \A g \in Gtrids : /\ ~Asked(g) /\ ~Claimed(g) /\ ~Acking(g) /\ ~Hold(g) /\ ~Answered(g)
                        /\ ~Preparing(g) /\ ~TellRec(g) /\ ~TellCommit(g) /\ ~TellRoll(g)
                        /\ ~Telling(g) /\ ~Told(g) /\ ~Dec(g) /\ ~Active(g)
  BY <1>e, <1>o, <1>r, <1>s DEF Asked, Claimed, Acking, Hold, Answered, Preparing, TellRec,
     TellCommit, TellRoll, Telling, Told, Dec, Active
<1>h. ~Asking /\ ~Recovery
  BY <1>g, <1>r, <1>s DEF Asking, Recovery
<1>3. Numbered
  BY <1>e, <1>f, <1>g, <1>o DEF Numbered
<1>4. Placed
  BY <1>e, <1>f, <1>g, <1>o DEF Placed
<1>5. OneToken
  BY <1>h, <1>o, <1>s DEF OneToken
<1>6. Recovers
  BY <1>e, <1>h DEF Recovers
<1>7. BranchS
  BY <1>e, <1>g, <1>o DEF BranchS
<1>8. Claims
  BY <1>g, <1>s DEF Claims
<1>9. BranchR
  BY <1>a, <1>e, <1>f, <1>g, <1>o DEF BranchR
<1>10. Apart
  BY <1>e, <1>g, <1>r DEF Apart
<1>11. Same
  BY <1>a DEF Same
<1>12. Agreed
  BY <1>e, <1>g, <1>o, <1>r DEF Agreed
<1>13. NoDuplicate /\ NothingLost /\ DecidedIsHeld
  BY <1>d, <1>e DEF NoDuplicate, NothingLost, DecidedIsHeld
<1>14. Starting /\ Deciding /\ Resuming
  BY <1>a DEF Starting, Deciding, Resuming
<1> QED BY <1>1, <1>2, <1>3, <1>4, <1>5, <1>6, <1>7, <1>8, <1>9, <1>10, <1>11, <1>12, <1>13, <1>14,
           <1>r, <1>s DEF ForwardInv

(* It implies the safety of the forwarder.                                 *)
LEMMA ForwardOnce ==
  ASSUME ForwardInv
  PROVE  NoDuplicate /\ NothingLost /\ DecidedIsHeld /\ PreparedIsComplete /\ HandlesKnown
<1>1. Typed /\ Placed /\ Claims /\ BranchR /\ Apart /\ NoDuplicate /\ NothingLost /\ DecidedIsHeld
  BY DEF ForwardInv
<1>2. TypeOK
  BY <1>1 DEF Typed
<1>3. PreparedIsComplete
  <2>1. SUFFICES ASSUME NEW g \in Gtrids, Op("prepare", g) \in rOps \/ rBranch[g] = "committing"
                 PROVE  rMsgs[g] \cap puts = {}
    BY DEF PreparedIsComplete
  <2>2. Active(g) /\ ~Gathered(g)
    BY <1>1, <2>1 DEF Active, BranchR, Placed, Collecting, Preparing, ROp
  <2>3. rMsgs[g] \subseteq Msgs
    BY <1>2 DEF TypeOK
  <2> QED BY <1>1, <2>2, <2>3 DEF Apart
<1>4. HandlesKnown
  <2>1. SUFFICES ASSUME NEW i \in 1..Len(r2s), r2s[i].t = "Prepare", NEW m \in r2s[i].msgs
                 PROVE  where[m] = "sent"
    BY DEF HandlesKnown
  <2>2. r2s[i] \in ToS /\ r2s[i] \in LettersS
    BY <1>1 DEF Typed, LettersS
  <2>3. PICK g \in Gtrids : r2s[i].g = g /\ m \in Msgs
    BY <2>1, <2>2, ToSFields
  <2>4. Named(g, m)
    BY <2>1, <2>2, <2>3 DEF Named
  <2> QED BY <1>1, <2>3, <2>4 DEF Claims
<1> QED BY <1>1, <1>3, <1>4

(* It implies that no prepared branch S is left without its decision.      *)
LEMMA ForwardMoves ==
  ASSUME ForwardInv
  PROVE  DecisionOnTheWay
<1>1. Typed /\ Deciding
  BY DEF ForwardInv
<1>2. ASSUME NEW g \in Gtrids
      PROVE  /\ Answered(g) => \E i \in 1..Len(s2r) : s2r[i].t = "PrepareReply" /\ s2r[i].g = g
             /\ SLetter("Commit", g) => \E i \in 1..Len(r2s) : r2s[i].t = "Commit" /\ r2s[i].g = g
  <2>1. DOMAIN s2r = 1..Len(s2r) /\ DOMAIN r2s = 1..Len(r2s)
    BY <1>1 DEF Typed
  <2> QED BY <2>1 DEF Answered, RLetter, SLetter, LettersR, LettersS
<1> QED BY <1>1, <1>2 DEF DecisionOnTheWay, Deciding, Preparing, ROp, SOp

(* Every step keeps it: one lemma for each action.                         *)
LEMMA NextForward ==
  ASSUME ForwardInv, [Next]_vars, ~early'
  PROVE  ForwardInv'
<1>1. CASE SenderStep
  <2>1. CASE Connect \/ SClosing \/ SClosed
    BY <2>1, ConnectKeeps, SClosingKeeps, SClosedKeeps
  <2>2. CASE DoConnectReply \/ DoStart \/ ReplyMessage \/ StartDelivery
    BY <2>2, DoConnectReplyKeeps, DoStartKeeps, ReplyMessageKeeps, StartDeliveryKeeps
  <2>3. CASE DoPrepare \/ DoDecision
    BY <2>3, DoPrepareKeeps, DoDecisionKeeps
  <2>4. CASE \E g \in Gtrids : SCreated(g) \/ SAcked(g) \/ SPrepared(g) \/ SRolledBack(g)
    BY <2>4, SCreatedKeeps, SAckedKeeps, SPreparedKeeps, SRolledBackKeeps
  <2>5. CASE \E x \in sOps : SCommitted(x)
    BY <2>5, SCommittedKeeps
  <2> QED BY <1>1, <2>1, <2>2, <2>3, <2>4, <2>5 DEF SenderStep
<1>2. CASE ReceiverStep
  <2>1. CASE RejectConnect \/ AcceptConnect \/ RClosing \/ RClosed
    BY <2>1, RejectConnectKeeps, AcceptConnectKeeps, RClosingKeeps, RClosedKeeps
  <2>2. CASE DoMessage \/ TimedCommit \/ DoPrepareReply \/ DoCommitReply
    BY <2>2, DoMessageKeeps, TimedCommitKeeps, DoPrepareReplyKeeps, DoCommitReplyKeeps
  <2>3. CASE DoRecover \/ RecoverDone \/ RecoverTransactions
    BY <2>3, DoRecoverKeeps, RecoverDoneKeeps, RecoverTransactionsKeeps
  <2>4. CASE \E m \in Msgs : PutDone(m)
    BY <2>4, PutDoneKeeps
  <2>5. CASE \E g \in Gtrids : \/ ReplyCreateXA(g) \/ ReplyDoPrepare(g) \/ ReplyEngineCommit(g)
                               \/ ForgetDone(g) \/ ReplyRecoverCommit(g)
    BY <2>5, ReplyCreateXAKeeps, ReplyDoPrepareKeeps, ReplyEngineCommitKeeps, ForgetDoneKeeps,
       ReplyRecoverCommitKeeps
  <2> QED BY <1>2, <2>1, <2>2, <2>3, <2>4, <2>5 DEF ReceiverStep
<1>3. CASE Fault
  <2>1. CASE SenderCrash \/ ReceiverCrash \/ Break \/ RFails
    BY <2>1, SenderCrashKeeps, ReceiverCrashKeeps, BreakKeeps, RFailsKeeps
  <2>2. CASE \E x \in sOps : SPrepareFails(x)
    BY <2>2, SPrepareFailsKeeps
  <2> QED BY <1>3, <2>1, <2>2 DEF Fault
<1>4. CASE UNCHANGED vars
  BY <1>4, StutterKeeps
<1> QED BY <1>1, <1>2, <1>3, <1>4 DEF Next

(* No step takes back that a connection came early.                        *)
LEMMA EarlyStays ==
  ASSUME early, [Next]_vars
  PROVE  early'
<1>1. CASE SenderStep
  BY <1>1 DEF SenderStep, receiverVars, Connect, SClosing, SClosed, DoConnectReply, DoStart,
     ReplyMessage, StartDelivery, DoPrepare, DoDecision, SCreated, SAcked, SPrepared,
     SRolledBack, SCommitted
<1>2. CASE ReceiverStep
  BY <1>2 DEF ReceiverStep, RejectConnect, AcceptConnect, RClosing, RClosed, DoMessage,
     TimedCommit, DoPrepareReply, DoCommitReply, DoRecover, RecoverDone, RecoverTransactions,
     PutDone, ReplyCreateXA, ReplyDoPrepare, ReplyEngineCommit, ForgetDone, ReplyRecoverCommit
<1>3. CASE Fault
  BY <1>3 DEF Fault, receiverVars, SenderCrash, ReceiverCrash, Break, RFails, SPrepareFails
<1>4. CASE UNCHANGED vars
  BY <1>4 DEF vars, receiverVars
<1> QED BY <1>1, <1>2, <1>3, <1>4 DEF Next

(* The invariant of the behaviours in which no connection came early.      *)
TimelyInv == ~early => ForwardInv

(* It holds at first and every step keeps it.                              *)
LEMMA TimelyInductive ==
  /\ Init => TimelyInv
  /\ TimelyInv /\ [Next]_vars => TimelyInv'
<1>1. Init => TimelyInv
  BY InitForward DEF TimelyInv
<1>2. ASSUME TimelyInv, [Next]_vars, ~early' PROVE ForwardInv'
  <2>1. ~early
    BY <1>2, EarlyStays
  <2> QED BY <1>2, <2>1, NextForward DEF TimelyInv
<1> QED BY <1>1, <1>2 DEF TimelyInv

-----------------------------------------------------------------------------
(* What holds of every behaviour, connections that come early included:    *)
(* the types, and the flow control of the sender.                          *)

SenderTyped ==
    /\ where \in [Msgs -> {"absent", "queued", "sent", "acked", "gone"}]
    /\ sBranch \in [Gtrids -> {"none", "inflight", "prepared"}]
    /\ sMsgs \in [Gtrids -> SUBSET Msgs]
    /\ senderXA \subseteq Gtrids /\ recoveryList \subseteq Gtrids
    /\ sConn \in {"closed", "connecting", "open", "closing"}
    /\ started \in BOOLEAN /\ suspended \in BOOLEAN
    /\ preparedXA \in Nat /\ sOps \subseteq SCalls

ReceiverTyped ==
    /\ rUp \in BOOLEAN /\ rConn \in {"closed", "open", "closing"}
    /\ rBranch \in [Gtrids -> {"none", "inflight", "prepared", "committing", "heuristic", "forgetting"}]
    /\ rMsgs \in [Gtrids -> SUBSET Msgs]
    /\ receiverXA \in [Gtrids -> {"no", "linked", "prepared"}]
    /\ commits \in [Gtrids -> 0..2]
    /\ currentXA \in Gtrids \cup {NoXA} /\ xaList \subseteq Gtrids
    /\ puts \subseteq Msgs /\ rOps \subseteq RCalls
    /\ seqn \in Nat /\ received \in [Msgs -> Nat]

LinkTyped == linkUp \in BOOLEAN /\ s2r \in Seq(ToR) /\ r2s \in Seq(ToS)

(* A transaction is created to follow the current one.                     *)
Succeeds == \A g \in Gtrids : ROp("create", g) => currentXA # NoXA

AlwaysInv == Typed /\ Resuming /\ Succeeds

(* The types, part by part.                                                *)
LEMMA TypedParts ==
  Typed <=> SenderTyped /\ ReceiverTyped /\ LinkTyped /\ faults \in 0..MaxFaults
<1>1. sOps \subseteq SCalls => \A x \in sOps : x.g \in Gtrids \cup {NoXA}
  BY CallsS
<1>2. rOps \subseteq RCalls => \A x \in rOps : x.g \in Gtrids
  BY CallsR
<1> QED BY <1>1, <1>2 DEF Typed, TypeOK, SenderTyped, ReceiverTyped, LinkTyped

(* And of the next state.                                                  *)
LEMMA TypedNext ==
  ASSUME SenderTyped', ReceiverTyped', LinkTyped', faults' \in 0..MaxFaults
  PROVE  Typed'
<1>1. \A x \in sOps' : x.g \in Gtrids \cup {NoXA}
  BY CallsS DEF SenderTyped
<1>2. \A x \in rOps' : x.g \in Gtrids
  BY CallsR DEF ReceiverTyped
<1> QED BY <1>1, <1>2 DEF Typed, TypeOK, SenderTyped, ReceiverTyped, LinkTyped

(* Letters that are sent or read leave letters on the connection.          *)
LEMMA LettersTyped ==
  ASSUME LinkTyped
  PROVE  /\ \A x \in ToR : ToReceiver(<<x>>) => s2r' \in Seq(ToR)
         /\ \A x, y \in ToR : ToReceiver(<<x>> \o <<y>>) => s2r' \in Seq(ToR)
         /\ \A x \in ToS : ToSender(<<x>>) => r2s' \in Seq(ToS)
         /\ s2r # <<>> => Head(s2r) \in ToR /\ Tail(s2r) \in Seq(ToR)
         /\ r2s # <<>> => Head(r2s) \in ToS /\ Tail(r2s) \in Seq(ToS)
         /\ <<>> \in Seq(ToR) /\ <<>> \in Seq(ToS)
<1>1. /\ s2r # <<>> => Head(s2r) \in ToR /\ Tail(s2r) \in Seq(ToR)
      /\ r2s # <<>> => Head(r2s) \in ToS /\ Tail(r2s) \in Seq(ToS)
      /\ <<>> \in Seq(ToR) /\ <<>> \in Seq(ToS)
  BY DEF LinkTyped
<1>2. ASSUME NEW x \in ToR, ToReceiver(<<x>>) PROVE s2r' \in Seq(ToR)
  BY <1>2 DEF LinkTyped, ToReceiver
<1>3. ASSUME NEW x \in ToR, NEW y \in ToR, ToReceiver(<<x>> \o <<y>>) PROVE s2r' \in Seq(ToR)
  <2>1. <<x>> \o <<y>> \in Seq(ToR)
    OBVIOUS
  <2> QED BY <1>3, <2>1 DEF LinkTyped, ToReceiver
<1>4. ASSUME NEW x \in ToS, ToSender(<<x>>) PROVE r2s' \in Seq(ToS)
  BY <1>4 DEF LinkTyped, ToSender
<1> QED BY <1>1, <1>2, <1>3, <1>4

(* What a commit delivers is counted in natural numbers.                   *)
LEMMA DeliverTyped ==
  ASSUME received \in [Msgs -> Nat], NEW S, S \subseteq Gtrids, received' = Deliver(S)
  PROVE  received' \in [Msgs -> Nat]
<1>1. IsFiniteSet(Gtrids)
  BY FS_Interval, ForwarderAssumption DEF Gtrids
<1>2. ASSUME NEW m \in Msgs
      PROVE  Cardinality({g \in S : m \in rMsgs[g]}) \in Nat
  <2>1. IsFiniteSet({g \in S : m \in rMsgs[g]})
    BY <1>1, FS_Subset
  <2> QED BY <2>1, FS_CardinalityType
<1> QED BY <1>2 DEF Deliver

(* Every step of the sender keeps its types and what the connection holds. *)
LEMMA SenderKeepsTypes ==
  ASSUME Typed, SenderStep
  PROVE  Typed'
<1>t. SenderTyped /\ ReceiverTyped /\ LinkTyped /\ faults \in 0..MaxFaults
  BY TypedParts
<1>f. UNCHANGED <<receiverVars, faults>> => ReceiverTyped' /\ faults' \in 0..MaxFaults
  BY <1>t DEF receiverVars, ReceiverTyped
<1>l. LinkTyped /\ UNCHANGED link => LinkTyped'
  BY DEF LinkTyped, link
<1>c. \A o \in {"create", "ack", "prepare", "Commit", "CommitRecover", "RollRecover"}, g \in Gtrids :
        Op(o, g) \in SCalls
  BY CallsS
<1>r. /\ ResumeAfter(preparedXA) \subseteq SCalls /\ OneFewer(preparedXA) \in Nat
      /\ \A list \in SUBSET Gtrids :
           /\ RestOf(list) \subseteq Gtrids /\ Recovering(list) \in {0, 1}
           /\ Wire("Recover", NextOf(list)) \in ToR
  <2>1. preparedXA \in Nat
    BY <1>t DEF SenderTyped
  <2> QED BY <2>1, Resumes, CallsS, NextOne, WireToR
<1>1. CASE Connect
  <2>1. SenderTyped' BY <1>1, <1>t DEF Connect, SenderTyped
  <2> QED BY <1>1, <2>1, <1>t, <1>f, <1>l, TypedNext DEF Connect
<1>2. CASE SClosing
  <2>1. SenderTyped' BY <1>2, <1>t DEF SClosing, SenderTyped
  <2>2. LinkTyped' BY <1>2, <1>t, LettersTyped DEF SClosing, LinkTyped
  <2> QED BY <1>2, <2>1, <2>2, <1>f, TypedNext DEF SClosing
<1>3. CASE SClosed
  <2>1. SenderTyped'
    BY <1>3, <1>t, Requeued DEF SClosed, SenderTyped
  <2> QED BY <1>3, <2>1, <1>t, <1>f, <1>l, TypedNext DEF SClosed
<1>4. CASE DoConnectReply
  <2>a. /\ \/ /\ recoveryList' = RestOf(senderXA)
              /\ preparedXA' = preparedXA + Recovering(senderXA) /\ started' = started
           \/ started' = TRUE /\ recoveryList' = recoveryList /\ preparedXA' = preparedXA
        /\ UNCHANGED <<where, sBranch, sMsgs, senderXA, sConn, sOps, suspended>>
    BY <1>4 DEF DoConnectReply
  <2>b. /\ RestOf(senderXA) \subseteq Gtrids /\ preparedXA + Recovering(senderXA) \in Nat
    BY <1>t, <1>r DEF SenderTyped
  <2>1. SenderTyped'
    BY <1>t, <2>a, <2>b DEF SenderTyped
  <2>2. senderXA \in SUBSET Gtrids /\ s2r \in Seq(ToR)
    BY <1>t DEF SenderTyped, LinkTyped
  <2>3. \/ ToReceiver(<<Wire("Recover", NextOf(senderXA))>>)
        \/ s2r' = s2r
    BY <1>4 DEF DoConnectReply, RecoverMsg
  <2>4. s2r' \in Seq(ToR)
    BY <1>t, <1>r, <2>2, <2>3, LettersTyped
  <2>5. LinkTyped'
    BY <1>4, <1>t, <2>4, LettersTyped DEF DoConnectReply, LinkTyped
  <2> QED BY <1>4, <2>1, <2>5, <1>f, TypedNext DEF DoConnectReply
<1>5. CASE DoStart
  <2>1. SenderTyped' BY <1>5, <1>t DEF DoStart, SenderTyped
  <2>2. LinkTyped' BY <1>5, <1>t, LettersTyped DEF DoStart, LinkTyped
  <2> QED BY <1>5, <2>1, <2>2, <1>f, TypedNext DEF DoStart
<1>6. CASE ReplyMessage
  <2>1. SenderTyped' BY <1>6, <1>t DEF ReplyMessage, SenderTyped
  <2>2. LinkTyped' BY <1>6, <1>t, WireToR, LettersTyped DEF ReplyMessage, LinkTyped
  <2> QED BY <1>6, <2>1, <2>2, <1>f, TypedNext DEF ReplyMessage
<1>7. CASE StartDelivery
  <2>1. SenderTyped' BY <1>7, <1>t DEF StartDelivery, SenderTyped
  <2> QED BY <1>7, <2>1, <1>t, <1>f, <1>l, TypedNext DEF StartDelivery
<1>8. CASE DoPrepare
  <2>1. Head(r2s) \in ToS /\ Head(r2s).g \in Gtrids /\ Head(r2s).msgs \subseteq Msgs
    BY <1>8, <1>t, LettersTyped, ToSFields DEF DoPrepare
  <2>2. SenderTyped' BY <1>8, <1>t, <1>c, <2>1 DEF DoPrepare, SenderTyped
  <2>3. LinkTyped' BY <1>8, <1>t, LettersTyped DEF DoPrepare, LinkTyped
  <2> QED BY <1>8, <2>2, <2>3, <1>f, TypedNext DEF DoPrepare
<1>9. CASE DoDecision
  <2>1. Head(r2s) \in ToS /\ Head(r2s).g \in Gtrids
    BY <1>9, <1>t, LettersTyped, ToSFields DEF DoDecision
  <2>2. SenderTyped' BY <1>9, <1>t, <1>c, <2>1 DEF DoDecision, SenderTyped
  <2>3. LinkTyped' BY <1>9, <1>t, LettersTyped DEF DoDecision, LinkTyped
  <2> QED BY <1>9, <2>2, <2>3, <1>f, TypedNext DEF DoDecision
<1>10. ASSUME NEW g \in Gtrids, SCreated(g) PROVE Typed'
  <2>1. SenderTyped' BY <1>10, <1>t, <1>c DEF SCreated, SenderTyped
  <2> QED BY <1>10, <2>1, <1>t, <1>f, <1>l, TypedNext DEF SCreated
<1>11. ASSUME NEW g \in Gtrids, SAcked(g) PROVE Typed'
  <2>1. SenderTyped' BY <1>11, <1>t, <1>c DEF SAcked, SenderTyped
  <2> QED BY <1>11, <2>1, <1>t, <1>f, <1>l, TypedNext DEF SAcked
<1>12. ASSUME NEW g \in Gtrids, SPrepared(g) PROVE Typed'
  <2>1. SenderTyped' BY <1>12, <1>t DEF SPrepared, SenderTyped
  <2>2. LinkTyped' BY <1>12, <1>t, WireToR, LettersTyped DEF SPrepared, LinkTyped
  <2> QED BY <1>12, <2>1, <2>2, <1>f, TypedNext DEF SPrepared
<1>13. ASSUME NEW g \in Gtrids, SRolledBack(g) PROVE Typed'
  <2>1. SenderTyped' BY <1>13, <1>t, <1>r DEF SRolledBack, SenderTyped, EndBranchS
  <2>2. LinkTyped'
    BY <1>13, <1>t, <1>r, LettersTyped DEF SRolledBack, LinkTyped, RecoverMsg, SenderTyped
  <2> QED BY <1>13, <2>1, <2>2, <1>f, TypedNext DEF SRolledBack
<1>14. ASSUME NEW x \in sOps, SCommitted(x) PROVE Typed'
  <2>1. x.g \in Gtrids
    BY <1>14, <1>t, CallsS DEF SCommitted, SenderTyped
  <2>2. /\ sBranch' \in [Gtrids -> {"none", "inflight", "prepared"}]
        /\ where' \in [Msgs -> {"absent", "queued", "sent", "acked", "gone"}]
    BY <1>14, <1>t, <2>1 DEF SCommitted, SenderTyped, EndBranchS
  <2>3. SenderTyped' BY <1>14, <1>t, <1>r, <2>2 DEF SCommitted, SenderTyped
  <2>4. Wire("CommitReply", x.g) \in ToR /\ Wire("Recover", NextOf(recoveryList)) \in ToR
    BY <1>t, <1>r, <2>1, WireToR DEF SenderTyped
  <2>5. s2r' \in Seq(ToR)
    BY <1>14, <1>t, <2>4, LettersTyped DEF SCommitted, RecoverMsg
  <2>6. LinkTyped' BY <1>14, <1>t, <2>5 DEF SCommitted, LinkTyped
  <2> QED BY <1>14, <2>3, <2>6, <1>f, TypedNext DEF SCommitted
<1> QED BY <1>1, <1>2, <1>3, <1>4, <1>5, <1>6, <1>7, <1>8, <1>9, <1>10, <1>11, <1>12, <1>13,
           <1>14 DEF SenderStep

(* Every step of the receiver keeps the types.                             *)
LEMMA ReceiverKeepsTypes ==
  ASSUME Typed, Succeeds, ReceiverStep
  PROVE  Typed'
<1>t. SenderTyped /\ ReceiverTyped /\ LinkTyped /\ faults \in 0..MaxFaults
  BY TypedParts
<1>f. UNCHANGED <<senderVars, faults>> => SenderTyped' /\ faults' \in 0..MaxFaults
  BY <1>t DEF senderVars, SenderTyped
<1>l. LinkTyped /\ UNCHANGED link => LinkTyped'
  BY DEF LinkTyped, link
<1>c. \A o \in {"create", "prepare", "commit", "recoverCommit"}, g \in Gtrids : Op(o, g) \in RCalls
  BY CallsR
<1>e. <<>> \in Seq(ToR) /\ <<>> \in Seq(ToS)
  BY <1>t, LettersTyped
<1>n. \A g \in Gtrids : g \in Nat
  BY GtridsNat
<1>p. \A g \in Gtrids : ToSender(PrepareMsg(g)) => r2s' \in Seq(ToS)
  BY <1>t, WireToS, LettersTyped DEF PrepareMsg, ReceiverTyped
<1>1. CASE RejectConnect
  <2>1. SenderTyped' BY <1>1, <1>t DEF RejectConnect, SenderTyped
  <2>2. ReceiverTyped' BY <1>1, <1>t DEF RejectConnect, ReceiverTyped
  <2>3. LinkTyped' BY <1>1, <1>t, <1>e DEF RejectConnect, LinkTyped
  <2> QED BY <1>1, <1>t, <2>1, <2>2, <2>3, TypedNext DEF RejectConnect
<1>2. CASE AcceptConnect
  <2>1. SenderTyped' BY <1>2, <1>t DEF AcceptConnect, SenderTyped
  <2>2. ReceiverTyped'
    <3>1. \/ UNCHANGED <<seqn, receiverXA, commits, currentXA, rBranch, rMsgs>>
          \/ \E g \in Gtrids :
               /\ seqn' = g /\ currentXA' = g
               /\ receiverXA' = [receiverXA EXCEPT ![g] = "linked"]
               /\ commits' = [commits EXCEPT ![g] = 0]
               /\ rBranch' = [rBranch EXCEPT ![g] = "inflight"]
               /\ rMsgs' = [rMsgs EXCEPT ![g] = {}]
      BY <1>2 DEF AcceptConnect, NewXA
    <3>2. /\ rUp' = rUp /\ rConn' = "open" /\ xaList' = xaList /\ puts' = puts /\ rOps' = rOps
          /\ received' = received
      BY <1>2 DEF AcceptConnect
    <3>3. CASE UNCHANGED <<seqn, receiverXA, commits, currentXA, rBranch, rMsgs>>
      BY <1>t, <3>2, <3>3 DEF ReceiverTyped
    <3>4. CASE \E g \in Gtrids :
                 /\ seqn' = g /\ currentXA' = g
                 /\ receiverXA' = [receiverXA EXCEPT ![g] = "linked"]
                 /\ commits' = [commits EXCEPT ![g] = 0]
                 /\ rBranch' = [rBranch EXCEPT ![g] = "inflight"]
                 /\ rMsgs' = [rMsgs EXCEPT ![g] = {}]
      BY <1>t, <1>n, <3>2, <3>4 DEF ReceiverTyped
    <3> QED BY <3>1, <3>3, <3>4
  <2>3. r2s' \in Seq(ToS)
    BY <1>2, SFirst DEF AcceptConnect
  <2>4. LinkTyped' BY <1>2, <1>e, <2>3 DEF AcceptConnect, LinkTyped
  <2> QED BY <1>2, <1>t, <2>1, <2>2, <2>4, TypedNext DEF AcceptConnect
<1>3. CASE RClosing
  <2>1. ReceiverTyped' BY <1>3, <1>t DEF RClosing, ReceiverTyped
  <2>2. LinkTyped' BY <1>3, <1>t, <1>e DEF RClosing, LinkTyped
  <2> QED BY <1>3, <1>f, <2>1, <2>2, TypedNext DEF RClosing
<1>4. CASE RClosed
  <2>1. ReceiverTyped' BY <1>4, <1>t DEF RClosed, ReceiverTyped
  <2> QED BY <1>4, <1>t, <1>f, <1>l, <2>1, TypedNext DEF RClosed
<1>5. CASE DoMessage
  <2>1. Head(s2r) \in ToR /\ Head(s2r).g \in Msgs /\ currentXA \in Gtrids
    BY <1>5, <1>t, LettersTyped, ToRFields DEF DoMessage, ReceiverTyped
  <2>2. /\ rMsgs' \in [Gtrids -> SUBSET Msgs] /\ puts' \subseteq Msgs
    BY <1>5, <1>t, <2>1 DEF DoMessage, ReceiverTyped
  <2>a. FwdCreateXA \/ UNCHANGED <<rOps, seqn, receiverXA, commits>>
    BY <1>5 DEF DoMessage
  <2>b. /\ rOps' \subseteq RCalls /\ seqn' \in Nat /\ commits' \in [Gtrids -> 0..2]
        /\ receiverXA' \in [Gtrids -> {"no", "linked", "prepared"}]
    BY <1>t, <1>c, <1>n, <2>a DEF FwdCreateXA, NewXA, ReceiverTyped
  <2>3. ReceiverTyped' BY <1>5, <1>t, <2>2, <2>b DEF DoMessage, ReceiverTyped
  <2>4. LinkTyped' BY <1>5, <1>t, LettersTyped DEF DoMessage, LinkTyped
  <2> QED BY <1>5, <1>f, <2>3, <2>4, TypedNext DEF DoMessage
<1>6. CASE TimedCommit
  <2>a. /\ rOps' \subseteq RCalls /\ seqn' \in Nat /\ commits' \in [Gtrids -> 0..2]
        /\ receiverXA' \in [Gtrids -> {"no", "linked", "prepared"}]
    BY <1>6, <1>t, <1>c, <1>n DEF TimedCommit, FwdCreateXA, NewXA, ReceiverTyped
  <2>1. ReceiverTyped'
    BY <1>6, <1>t, <2>a DEF TimedCommit, ReceiverTyped
  <2> QED BY <1>6, <1>t, <1>f, <1>l, <2>1, TypedNext DEF TimedCommit
<1>7. CASE DoPrepareReply
  <2>1. Head(s2r) \in ToR /\ Head(s2r).g \in Gtrids
    BY <1>7, <1>t, LettersTyped, ToRFields DEF DoPrepareReply
  <2>2. ReceiverTyped'
    BY <1>7, <1>t, <1>c, <2>1 DEF DoPrepareReply, CloseIncoming, ReceiverTyped
  <2>3. LinkTyped'
    BY <1>7, <1>t, <1>e, LettersTyped DEF DoPrepareReply, CloseIncoming, LinkTyped
  <2> QED BY <1>7, <1>f, <2>2, <2>3, TypedNext DEF DoPrepareReply
<1>8. CASE DoCommitReply
  <2>1. Head(s2r) \in ToR /\ Head(s2r).g \in Gtrids
    BY <1>8, <1>t, LettersTyped, ToRFields DEF DoCommitReply
  <2>a. PICK b \in {"none", "inflight", "prepared", "committing", "heuristic", "forgetting"} :
           b = rBranch[Head(s2r).g]
    BY <1>t, <2>1 DEF ReceiverTyped
  <2>b. [rBranch EXCEPT ![Head(s2r).g] = b] = rBranch
    BY <1>t, <2>1, <2>a DEF ReceiverTyped
  <2>c. CountCommit(Head(s2r).g, [rBranch EXCEPT ![Head(s2r).g] = b])
    BY <1>8, <2>b DEF DoCommitReply
  <2>d. /\ rBranch' \in [Gtrids -> {"none", "inflight", "prepared", "committing", "heuristic",
                                    "forgetting"}]
        /\ commits' \in [Gtrids -> 0..2]
        /\ receiverXA' \in [Gtrids -> {"no", "linked", "prepared"}]
    BY <2>1, <2>c, Counted
  <2>2. ReceiverTyped'
    BY <1>8, <1>t, <2>d DEF DoCommitReply, ReceiverTyped
  <2>3. LinkTyped'
    BY <1>8, <1>t, LettersTyped DEF DoCommitReply, LinkTyped
  <2> QED BY <1>8, <1>f, <2>2, <2>3, TypedNext DEF DoCommitReply
<1>9. CASE DoRecover
  <2>1. Head(s2r) \in ToR /\ Head(s2r).g \in Gtrids
    BY <1>9, <1>t, LettersTyped, ToRFields DEF DoRecover
  <2>2. ReceiverTyped'
    BY <1>9, <1>t, <1>n, <2>1 DEF DoRecover, ReceiverTyped
  <2>3. Wire(Decision(Head(s2r).g), Head(s2r).g) \in ToS
    BY <2>1, WireToS DEF Decision
  <2>4. r2s' \in Seq(ToS) /\ s2r' \in Seq(ToR)
    BY <1>9, <1>t, <2>3, LettersTyped DEF DoRecover
  <2>5. LinkTyped'
    BY <1>9, <1>t, <2>4 DEF DoRecover, LinkTyped
  <2> QED BY <1>9, <1>f, <2>2, <2>5, TypedNext DEF DoRecover
<1>10. CASE RecoverDone
  <2>1. received' = Deliver({g \in {h \in Gtrids : receiverXA[h] = "prepared"} : rBranch[g] = "prepared"})
    BY <1>10 DEF RecoverDone
  <2>2. received' \in [Msgs -> Nat]
    BY <1>t, <2>1, DeliverTyped DEF ReceiverTyped
  <2>3. ReceiverTyped'
    BY <1>10, <1>t, <1>n, <2>2 DEF RecoverDone, NewXA, ReceiverTyped
  <2>4. r2s' \in Seq(ToS) /\ s2r' \in Seq(ToR)
    BY <1>10, <1>t, WireToS, LettersTyped DEF RecoverDone
  <2>5. LinkTyped'
    BY <1>10, <1>t, <2>4 DEF RecoverDone, LinkTyped
  <2> QED BY <1>10, <1>f, <2>3, <2>5, TypedNext DEF RecoverDone
<1>11. CASE RecoverTransactions
  <2>1. PICK sync \in SUBSET ToCommit : received' = Deliver(sync)
    BY <1>11 DEF RecoverTransactions
  <2>2. received' \in [Msgs -> Nat]
    BY <1>t, <2>1, DeliverTyped DEF ReceiverTyped, ToCommit
  <2>3. rOps' \subseteq RCalls
    BY <1>11, <1>t, <1>c DEF RecoverTransactions, ReceiverTyped, ToCommit
  <2>4. seqn' \in Nat
    BY <1>11, <1>t, <1>n, ForwarderAssumption DEF RecoverTransactions, ReceiverTyped, ToCommit
  <2>5. /\ receiverXA' \in [Gtrids -> {"no", "linked", "prepared"}]
        /\ commits' \in [Gtrids -> 0..2]
        /\ rBranch' \in [Gtrids -> {"none", "inflight", "prepared", "committing", "heuristic",
                                    "forgetting"}]
    BY <1>11, <1>t DEF RecoverTransactions, ReceiverTyped
  <2>6. ReceiverTyped'
    BY <1>11, <1>t, <2>2, <2>3, <2>4, <2>5 DEF RecoverTransactions, ReceiverTyped
  <2> QED BY <1>11, <1>t, <1>f, <1>l, <2>6, TypedNext DEF RecoverTransactions
<1>12. ASSUME NEW m \in Msgs, PutDone(m) PROVE Typed'
  <2> DEFINE ready == {g \in xaList : m \in rMsgs[g] /\ ~PutsPending(g, puts \ {m})}
  <2>1. ready \subseteq Gtrids /\ (ready # {} => (CHOOSE h \in ready : TRUE) \in ready)
    BY <1>t DEF ReceiverTyped
  <2>2. /\ xaList' \subseteq xaList
        /\ \/ r2s' = r2s
           \/ ready # {} /\ ToSender(PrepareMsg(CHOOSE h \in ready : TRUE))
    BY <1>12 DEF PutDone
  <2>3. r2s' \in Seq(ToS)
    BY <1>t, <1>p, <2>1, <2>2 DEF LinkTyped
  <2>4. ReceiverTyped'
    BY <1>12, <1>t, <2>2 DEF PutDone, ReceiverTyped
  <2>5. LinkTyped'
    BY <1>12, <1>t, <2>3 DEF PutDone, LinkTyped
  <2> QED BY <1>12, <1>f, <2>4, <2>5, TypedNext DEF PutDone
<1>13. ASSUME NEW g \in Gtrids, ReplyCreateXA(g) PROVE Typed'
  <2>1. currentXA \in Gtrids
    BY <1>13, <1>t DEF ReplyCreateXA, Succeeds, ROp, ReceiverTyped
  <2>2. r2s' \in Seq(ToS)
    BY <1>13, <1>t, <1>p, <2>1 DEF ReplyCreateXA, LinkTyped
  <2>3. ReceiverTyped'
    BY <1>13, <1>t, <2>1 DEF ReplyCreateXA, ReceiverTyped
  <2>4. LinkTyped'
    BY <1>13, <1>t, <2>2 DEF ReplyCreateXA, LinkTyped
  <2> QED BY <1>13, <1>f, <2>3, <2>4, TypedNext DEF ReplyCreateXA
<1>14. ASSUME NEW g \in Gtrids, ReplyDoPrepare(g) PROVE Typed'
  <2>1. ReceiverTyped'
    BY <1>14, <1>t, <1>c DEF ReplyDoPrepare, PreparedMark, ReceiverTyped
  <2>2. r2s' \in Seq(ToS)
    BY <1>14, <1>t, WireToS, LettersTyped DEF ReplyDoPrepare
  <2>3. LinkTyped'
    BY <1>14, <1>t, <2>2 DEF ReplyDoPrepare, LinkTyped
  <2> QED BY <1>14, <1>f, <2>1, <2>3, TypedNext DEF ReplyDoPrepare
<1>15. ASSUME NEW g \in Gtrids, ReplyEngineCommit(g) PROVE Typed'
  <2>1. received' \in [Msgs -> Nat]
    BY <1>15, DeliverOne DEF ReplyEngineCommit
  <2>2. /\ rBranch' \in [Gtrids -> {"none", "inflight", "prepared", "committing", "heuristic",
                                    "forgetting"}]
        /\ commits' \in [Gtrids -> 0..2]
        /\ receiverXA' \in [Gtrids -> {"no", "linked", "prepared"}]
    BY <1>15, Counted DEF ReplyEngineCommit
  <2>3. ReceiverTyped'
    BY <1>15, <1>t, <2>1, <2>2 DEF ReplyEngineCommit, ReceiverTyped
  <2> QED BY <1>15, <1>t, <1>f, <1>l, <2>3, TypedNext DEF ReplyEngineCommit
<1>16. ASSUME NEW g \in Gtrids, ForgetDone(g) PROVE Typed'
  <2>1. ReceiverTyped' BY <1>16, <1>t DEF ForgetDone, ReceiverTyped
  <2> QED BY <1>16, <1>t, <1>f, <1>l, <2>1, TypedNext DEF ForgetDone
<1>17. ASSUME NEW g \in Gtrids, ReplyRecoverCommit(g) PROVE Typed'
  <2>1. received' \in [Msgs -> Nat]
    BY <1>17, DeliverOne DEF ReplyRecoverCommit
  <2>2. ReceiverTyped' BY <1>17, <1>t, <2>1 DEF ReplyRecoverCommit, ReceiverTyped
  <2> QED BY <1>17, <1>t, <1>f, <1>l, <2>2, TypedNext DEF ReplyRecoverCommit
<1> QED BY <1>1, <1>2, <1>3, <1>4, <1>5, <1>6, <1>7, <1>8, <1>9, <1>10, <1>11, <1>12, <1>13,
           <1>14, <1>15, <1>16, <1>17 DEF ReceiverStep

(* Every fault keeps the types.                                            *)
LEMMA FaultKeepsTypes ==
  ASSUME Typed, Fault
  PROVE  Typed'
<1>t. SenderTyped /\ ReceiverTyped /\ LinkTyped /\ TypeOK
  BY TypedParts DEF Typed
<1>e. <<>> \in Seq(ToR) /\ <<>> \in Seq(ToS)
  BY <1>t, LettersTyped
<1>1. CASE SenderCrash
  <2>1. SenderTyped' BY <1>1, <1>t, Requeued DEF SenderCrash, SenderTyped
  <2>2. ReceiverTyped' BY <1>1, <1>t DEF SenderCrash, ReceiverTyped, receiverVars
  <2>3. LinkTyped' BY <1>1, <1>t, <1>e DEF SenderCrash, LinkTyped
  <2> QED BY <1>1, <1>t, <2>1, <2>2, <2>3, FaultsBounded, TypedNext DEF SenderCrash
<1>2. CASE ReceiverCrash
  <2>1. SenderTyped' BY <1>2, <1>t DEF ReceiverCrash, SenderTyped, senderVars
  <2>a. rBranch' \in [Gtrids -> {"none", "inflight", "prepared", "committing", "heuristic",
                                 "forgetting"}]
    BY <1>2, <1>t DEF ReceiverCrash, ReceiverTyped
  <2>b. /\ receiverXA' \in [Gtrids -> {"no", "linked", "prepared"}]
        /\ commits' \in [Gtrids -> 0..2]
    BY <1>2 DEF ReceiverCrash
  <2>2. ReceiverTyped'
    BY <1>2, <1>t, <2>a, <2>b DEF ReceiverCrash, ReceiverTyped
  <2>3. LinkTyped' BY <1>2, <1>t, <1>e DEF ReceiverCrash, LinkTyped
  <2> QED BY <1>2, <1>t, <2>1, <2>2, <2>3, FaultsBounded, TypedNext DEF ReceiverCrash
<1>3. CASE Break
  <2>1. SenderTyped' BY <1>3, <1>t DEF Break, SenderTyped, senderVars
  <2>2. ReceiverTyped' BY <1>3, <1>t DEF Break, ReceiverTyped, receiverVars
  <2>3. LinkTyped' BY <1>3, <1>t DEF Break, LinkTyped
  <2> QED BY <1>3, <1>t, <2>1, <2>2, <2>3, FaultsBounded, TypedNext DEF Break
<1>4. CASE RFails
  <2>1. SenderTyped' BY <1>4, <1>t DEF RFails, SenderTyped, senderVars
  <2>2. \A x \in rOps : x.g \in Gtrids
    BY <1>t, CallsR DEF ReceiverTyped
  <2>a. /\ rOps' \subseteq RCalls /\ puts' \subseteq Msgs
        /\ receiverXA' \in [Gtrids -> {"no", "linked", "prepared"}]
    BY <1>4, <1>t, <2>2 DEF RFails, ReceiverTyped
  <2>3. ReceiverTyped' BY <1>4, <1>t, <2>a DEF RFails, CloseIncoming, ReceiverTyped
  <2>4. LinkTyped' BY <1>4, <1>t, <1>e DEF RFails, CloseIncoming, LinkTyped
  <2> QED BY <1>4, <1>t, <2>1, <2>3, <2>4, FaultsBounded, TypedNext DEF RFails
<1>5. ASSUME NEW x \in sOps, SPrepareFails(x) PROVE Typed'
  <2>1. x.g \in Gtrids
    BY <1>5, <1>t, CallsS DEF SPrepareFails, SenderTyped
  <2>2. SenderTyped' BY <1>5, <1>t DEF SPrepareFails, SenderTyped
  <2>3. ReceiverTyped' BY <1>5, <1>t DEF SPrepareFails, ReceiverTyped, receiverVars
  <2>4. s2r' \in Seq(ToR)
    BY <1>5, <1>t, <2>1, WireToR, LettersTyped DEF SPrepareFails
  <2>5. LinkTyped' BY <1>5, <1>t, <2>4 DEF SPrepareFails, LinkTyped
  <2> QED BY <1>5, <1>t, <2>2, <2>3, <2>5, FaultsBounded, TypedNext DEF SPrepareFails
<1> QED BY <1>1, <1>2, <1>3, <1>4, <1>5 DEF Fault

(* A created transaction still finds one to follow.                        *)
LEMMA SucceedsKept ==
  ASSUME Typed, Succeeds, [Next]_vars
  PROVE  Succeeds'
<1>1. CASE SenderStep
  BY <1>1 DEF SenderStep, receiverVars, Connect, SClosing, SClosed, DoConnectReply, DoStart,
     ReplyMessage, StartDelivery, DoPrepare, DoDecision, SCreated, SAcked, SPrepared,
     SRolledBack, SCommitted, Succeeds, ROp
<1>2. CASE ReceiverStep
  <2>1. CASE UNCHANGED <<rOps, currentXA>>
    BY <2>1 DEF Succeeds, ROp
  <2>2. CASE currentXA' \in Gtrids
    BY <2>2, GtridsNat DEF Succeeds
  <2>3. CASE RClosed
    BY <2>3 DEF RClosed, InProgress, Succeeds, ROp, Op
  <2>4. CASE DoMessage \/ TimedCommit
    BY <2>4 DEF DoMessage, TimedCommit, Succeeds
  <2>5. CASE DoPrepareReply
    BY <2>5, OpEq DEF DoPrepareReply, Succeeds, ROp
  <2>6. CASE RecoverTransactions
    BY <2>6, OpEq DEF RecoverTransactions, Succeeds, ROp
  <2>7. CASE \E g \in Gtrids : ReplyDoPrepare(g) \/ ReplyEngineCommit(g) \/ ReplyRecoverCommit(g)
    BY <2>7, OpEq DEF ReplyDoPrepare, ReplyEngineCommit, ReplyRecoverCommit, Succeeds, ROp
  <2>8. CASE \/ RejectConnect \/ RClosing \/ DoCommitReply \/ DoRecover
             \/ \E m \in Msgs : PutDone(m)
             \/ \E g \in Gtrids : ForgetDone(g)
    BY <2>1, <2>8 DEF RejectConnect, RClosing, DoCommitReply, DoRecover, PutDone, ForgetDone
  <2>9. CASE AcceptConnect
    BY <2>1, <2>2, <2>9 DEF AcceptConnect
  <2>10. CASE RecoverDone \/ \E g \in Gtrids : ReplyCreateXA(g)
    BY <2>2, <2>10 DEF RecoverDone, ReplyCreateXA
  <2> QED BY <1>2, <2>3, <2>4, <2>5, <2>6, <2>7, <2>8, <2>9, <2>10 DEF ReceiverStep
<1>3. CASE Fault
  BY <1>3 DEF Fault, receiverVars, SenderCrash, ReceiverCrash, Break, RFails, SPrepareFails,
     Succeeds, ROp
<1>4. CASE UNCHANGED vars
  BY <1>4 DEF vars, receiverVars, Succeeds, ROp
<1> QED BY <1>1, <1>2, <1>3, <1>4 DEF Next

(* A suspended consumer still waits for a transaction or for its resume.   *)
LEMMA ResumingKept ==
  ASSUME Typed, Resuming, [Next]_vars
  PROVE  Resuming'
<1>t. /\ preparedXA \in Nat /\ MinXA \in Nat /\ MaxXA \in Nat /\ MinXA < MaxXA
      /\ sConn \in {"closed", "connecting", "open", "closing"} /\ sOps \subseteq SCalls
      /\ suspended \in BOOLEAN /\ senderXA \subseteq Gtrids /\ recoveryList \subseteq Gtrids
  BY ForwarderAssumption DEF Typed, TypeOK
<1>i. /\ sConn \in {"closed", "connecting"} => ~suspended
      /\ suspended /\ sConn = "open" => preparedXA > MinXA \/ Op("resume", NoXA) \in sOps
  BY DEF Resuming, SOp
<1>s. UNCHANGED <<sConn, sOps, preparedXA, suspended>> => Resuming'
  BY <1>i DEF Resuming, SOp
<1>n. ~suspended' => Resuming'
  BY DEF Resuming
<1>k. ASSUME NEW x, x.op # "resume",
             UNCHANGED <<sConn, suspended>>, preparedXA' \in Nat, preparedXA' >= preparedXA,
             sOps \ {x} \subseteq sOps'
      PROVE  Resuming'
  <2>1. x # Op("resume", NoXA)
    BY <1>k DEF Op
  <2> QED BY <1>t, <1>i, <1>k, <2>1 DEF Resuming, SOp
<1>1. CASE Connect \/ SClosed \/ StartDelivery \/ SenderCrash
  <2>1. ~suspended'
    BY <1>1, <1>i DEF Connect, SClosed, StartDelivery, SenderCrash
  <2> QED BY <1>n, <2>1
<1>2. CASE SClosing \/ RejectConnect
  BY <1>2 DEF SClosing, RejectConnect, Resuming
<1>3. CASE AcceptConnect
  <2>1. ~suspended'
    BY <1>3, <1>i DEF AcceptConnect
  <2> QED BY <1>n, <2>1
<1>4. CASE DoConnectReply
  <2>1. preparedXA' \in Nat /\ preparedXA' >= preparedXA
    <3>1. Recovering(senderXA) \in {0, 1}
      BY <1>t, NextOne
    <3>2. preparedXA' \in {preparedXA + Recovering(senderXA), preparedXA}
      BY <1>4 DEF DoConnectReply
    <3> QED BY <1>t, <3>1, <3>2
  <2> QED BY <1>4, <1>t, <1>i, <2>1 DEF DoConnectReply, Resuming, SOp
<1>5. CASE ReplyMessage
  <2>1. suspended' => preparedXA' > MinXA
    BY <1>5, <1>t DEF ReplyMessage
  <2> QED BY <1>5, <2>1 DEF ReplyMessage, Resuming
<1>6. CASE DoPrepare \/ DoDecision
  BY <1>6, <1>i DEF DoPrepare, DoDecision, Resuming, SOp
<1>7. ASSUME NEW g \in Gtrids, SCreated(g) \/ SAcked(g) \/ SPrepared(g) PROVE Resuming'
  <2>1. PICK o \in {"create", "ack", "prepare"} :
          /\ sOps \ {Op(o, g)} \subseteq sOps' /\ UNCHANGED <<sConn, suspended>>
          /\ preparedXA' \in {preparedXA, preparedXA + 1}
    BY <1>7 DEF SCreated, SAcked, SPrepared
  <2>2. preparedXA' \in Nat /\ preparedXA' >= preparedXA
    BY <1>t, <2>1
  <2>3. Op(o, g).op # "resume"
    BY <2>1 DEF Op
  <2> QED BY <1>k, <2>1, <2>2, <2>3
<1>8. ASSUME NEW x \in sOps, SPrepareFails(x) PROVE Resuming'
  BY <1>8, <1>k, <1>t DEF SPrepareFails
<1>r. \A n \in Nat : OneFewer(n) \in Nat
  BY DEF OneFewer
<1>9. ASSUME NEW g \in Gtrids, SRolledBack(g) PROVE Resuming'
  <2>1. preparedXA' = OneFewer(preparedXA) + Recovering(recoveryList)
    BY <1>9 DEF SRolledBack
  <2>2. Recovering(recoveryList) \in {0, 1}
    BY <1>t, NextOne
  <2>3. preparedXA' \in Nat /\ preparedXA' >= OneFewer(preparedXA)
    BY <1>t, <1>r, <2>1, <2>2
  <2> QED BY <1>9, <2>3, CommitResumes DEF SRolledBack
<1>10. ASSUME NEW x \in sOps, SCommitted(x) PROVE Resuming'
  <2>1. x = Op(x.op, x.g) /\ x.g \in Gtrids /\ x.op # "resume"
    BY <1>10, <1>t, CallsS DEF SCommitted
  <2>2. Recovering(recoveryList) \in {0, 1}
    BY <1>t, NextOne
  <2>3. preparedXA' \in {OneFewer(preparedXA), OneFewer(preparedXA) + Recovering(recoveryList)}
    BY <1>10 DEF SCommitted
  <2>4. preparedXA' \in Nat /\ preparedXA' >= OneFewer(preparedXA)
    BY <1>t, <1>r, <2>2, <2>3
  <2> QED BY <1>10, <2>1, <2>4, CommitResumes DEF SCommitted
<1>11. CASE \/ DoStart \/ RClosing \/ RClosed \/ DoMessage \/ TimedCommit \/ DoPrepareReply
            \/ DoCommitReply \/ DoRecover \/ RecoverDone \/ RecoverTransactions
            \/ ReceiverCrash \/ Break \/ RFails \/ UNCHANGED vars
  BY <1>11, <1>s DEF DoStart, RClosing, RClosed, DoMessage, TimedCommit, DoPrepareReply,
     DoCommitReply, DoRecover, RecoverDone, RecoverTransactions, ReceiverCrash, Break, RFails,
     vars, senderVars
<1>12. ASSUME NEW g, \/ PutDone(g) \/ ReplyCreateXA(g) \/ ReplyDoPrepare(g)
                     \/ ReplyEngineCommit(g) \/ ForgetDone(g) \/ ReplyRecoverCommit(g)
       PROVE Resuming'
  BY <1>12, <1>s DEF PutDone, ReplyCreateXA, ReplyDoPrepare, ReplyEngineCommit, ForgetDone,
     ReplyRecoverCommit, senderVars
<1> QED BY <1>1, <1>2, <1>3, <1>4, <1>5, <1>6, <1>7, <1>8, <1>9, <1>10, <1>11, <1>12 DEF Next,
           SenderStep, ReceiverStep, Fault

(* It holds at first and every step keeps it.                              *)
LEMMA AlwaysInductive ==
  /\ Init => AlwaysInv
  /\ AlwaysInv /\ [Next]_vars => AlwaysInv'
<1>1. Init => AlwaysInv
  <2>1. Init => Typed /\ Resuming
    BY InitForward DEF ForwardInv
  <2>2. Init => Succeeds
    BY DEF Init, Succeeds, ROp
  <2> QED BY <2>1, <2>2 DEF AlwaysInv
<1>2. ASSUME AlwaysInv, [Next]_vars PROVE AlwaysInv'
  <2>1. Typed /\ Resuming /\ Succeeds
    BY <1>2 DEF AlwaysInv
  <2>2. Typed'
    <3>1. CASE SenderStep BY <2>1, <3>1, SenderKeepsTypes
    <3>2. CASE ReceiverStep BY <2>1, <3>2, ReceiverKeepsTypes
    <3>3. CASE Fault BY <2>1, <3>3, FaultKeepsTypes
    <3>4. CASE UNCHANGED vars
      BY <2>1, <3>4 DEF Typed, TypeOK, vars, link, senderVars, receiverVars
    <3> QED BY <1>2, <3>1, <3>2, <3>3, <3>4 DEF Next
  <2>3. Resuming' /\ Succeeds'
    BY <1>2, <2>1, ResumingKept, SucceedsKept
  <2> QED BY <2>2, <2>3 DEF AlwaysInv
<1> QED BY <1>1, <1>2

-----------------------------------------------------------------------------
(* ExactlyOnce, for any number of messages, of transactions and of faults: *)
(* whatever breaks, fails or restarts between replyPrepare, replyDoPrepare *)
(* and replyCommit, the receiving server commits no message twice, commits *)
(* every message the sender gives up, and the sender never offers again    *)
(* what the receiver has decided to commit - in every behaviour, up to the *)
(* point where a connection is accepted by a restarted server that has not *)
(* yet run ism_fwd_recoverTransactions, which nothing in the code excludes.*)
THEOREM ForwardedOnce == Spec => []ExactlyOnce
<1>1. Init => TimelyInv /\ AlwaysInv
  BY TimelyInductive, AlwaysInductive
<1>2. TimelyInv /\ AlwaysInv /\ [Next]_vars => TimelyInv' /\ AlwaysInv'
  BY TimelyInductive, AlwaysInductive
<1>3. TimelyInv /\ AlwaysInv => ExactlyOnce
  BY ForwardOnce DEF TimelyInv, AlwaysInv, Typed, ExactlyOnce
<1> QED BY <1>1, <1>2, <1>3, PTL DEF Spec

(* NothingStalls: a consumer suspended for too many prepared transactions  *)
(* is resumed by one that is still to commit (replyMessage against         *)
(* replyCommit), in every behaviour; and on a whole connection the         *)
(* decision on a prepared branch S is on its way (replyDoPrepare against   *)
(* replyCommit), up to a connection that came before a restart's recovery. *)
THEOREM ForwardingMoves == Spec => []NothingStalls
<1>1. Init => TimelyInv /\ AlwaysInv
  BY TimelyInductive, AlwaysInductive
<1>2. TimelyInv /\ AlwaysInv /\ [Next]_vars => TimelyInv' /\ AlwaysInv'
  BY TimelyInductive, AlwaysInductive
<1>3. TimelyInv /\ AlwaysInv => NothingStalls
  <2>1. Resuming => SuspendedWillResume
    BY DEF Resuming, SuspendedWillResume, SOp
  <2> QED BY <2>1, ForwardMoves DEF TimelyInv, AlwaysInv, NothingStalls
<1> QED BY <1>1, <1>2, <1>3, PTL DEF Spec
=============================================================================

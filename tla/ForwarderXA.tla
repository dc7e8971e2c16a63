---------------------------- MODULE ForwarderXA ----------------------------
(***************************************************************************)
(* The reliable half of the cluster forwarder: a sending server passes the *)
(* QoS>0 messages of a remote-server queue to a receiving server in global *)
(* transactions with two branches.  The receiver is the transaction        *)
(* manager.  It collects messages in its branch "R" and, when the          *)
(* transaction is full or old, tells the sender to acknowledge the same    *)
(* messages in its branch "S" and prepare it; then it prepares R, tells    *)
(* the sender to commit, and commits R.  After a broken connection the     *)
(* sender reports its prepared branches one by one (Recover) and the       *)
(* receiver answers CommitRecover or RollRecover from its list of          *)
(* transactions; only then does it send Start.                             *)
(*                                                                         *)
(* Sources: fwdsender.c, fwdreceiver.c, forwarder.c of server_protocol.    *)
(* Every engine call completes in a step of its own, as the callbacks do;  *)
(* a call that returns synchronously is the case where nothing intervenes. *)
(***************************************************************************)
EXTENDS Naturals, FiniteSets, Sequences

CONSTANTS
    MaxMsgs,      \* messages 1..MaxMsgs wait on the sender's queue
    MaxGtrid,     \* bound: transaction sequence numbers 1..MaxGtrid
    CommitCount,  \* fwd_commit_count: messages that fill a transaction
    MaxCreates,   \* bound: create calls the commit timer may have under way
    MaxXA, MinXA, \* fwd_maxXA, fwd_minXA: suspend above, resume at or below
    RestartGap,   \* what a restart adds to the highest recovered sequence
    MaxFaults     \* bound: breaks, crashes and engine failures in all

ASSUME ForwarderAssumption ==
    /\ {MaxMsgs, MaxGtrid, CommitCount, MaxCreates, RestartGap} \subseteq Nat \ {0}
    /\ MaxXA \in Nat /\ MaxXA > 1 /\ MinXA \in Nat /\ MinXA < MaxXA
    /\ MaxFaults \in Nat

Msgs == 1..MaxMsgs
Gtrids == 1..MaxGtrid
NoXA == 0             \* no current transaction; the empty gtrid of Recover

VARIABLES
    s2r, r2s,      \* what each end has sent on the connection, in order
    linkUp,        \* the TCP connection is whole
    where,         \* sender's queue: each message's state
    sBranch, sMsgs,    \* branch S of each transaction, and what it acks
    senderXA,      \* channel->sender_xa
    recoveryList,  \* pobj->xaRecoveryList; its order does not matter
    sConn,         \* the outgoing connection
    started,       \* the session delivers messages
    sOps,          \* engine calls of the sender that have not completed
    preparedXA, suspended,   \* the sender's flow control
    rUp,           \* the receiver has run its restart recovery
    rConn,         \* the incoming connection
    rBranch, rMsgs,    \* branch R of each transaction, and what it puts
    receiverXA, commits,     \* channel->receiver_xa: prepared flag, commit count
    currentXA, xaList,       \* transactions still collecting or awaiting puts
    puts,          \* messages whose put has not completed
    rOps,          \* other engine calls of the receiver under way
    seqn,          \* fwd_xid_seqn
    received,      \* history: how often each message was committed by R
    early,         \* history: a connection came before the restart's recovery
    faults

link == <<s2r, r2s, linkUp>>
senderVars == <<where, sBranch, sMsgs, senderXA, recoveryList, sConn, started,
                sOps, preparedXA, suspended>>
receiverVars == <<rUp, rConn, rBranch, rMsgs, receiverXA, commits, currentXA,
                  xaList, puts, rOps, seqn, received, early>>
vars == <<link, senderVars, receiverVars, faults>>

Op(o, g) == [op |-> o, g |-> g]
Wire(t, g) == [t |-> t, g |-> g]
Ops(S, o) == {x \in S : x.op = o}
ToReceiver(msgs) == s2r' = IF linkUp THEN s2r \o msgs ELSE s2r
ToSender(msgs) == r2s' = IF linkUp THEN r2s \o msgs ELSE r2s

TypeOK ==
    /\ linkUp \in BOOLEAN /\ started \in BOOLEAN /\ suspended \in BOOLEAN
    /\ where \in [Msgs -> {"absent", "queued", "sent", "acked", "gone"}]
    /\ sBranch \in [Gtrids -> {"none", "inflight", "prepared"}]
    /\ sMsgs \in [Gtrids -> SUBSET Msgs] /\ rMsgs \in [Gtrids -> SUBSET Msgs]
    /\ senderXA \subseteq Gtrids /\ recoveryList \subseteq Gtrids
    /\ sConn \in {"closed", "connecting", "open", "closing"}
    /\ preparedXA \in Nat
    /\ rUp \in BOOLEAN /\ rConn \in {"closed", "open", "closing"}
    /\ rBranch \in [Gtrids -> {"none", "inflight", "prepared", "committing",
                               "heuristic", "forgetting"}]
    /\ receiverXA \in [Gtrids -> {"no", "linked", "prepared"}]
    /\ commits \in [Gtrids -> 0..2]
    /\ currentXA \in Gtrids \cup {NoXA} /\ xaList \subseteq Gtrids
    /\ puts \subseteq Msgs
    /\ \A x \in sOps : x.g \in Gtrids \cup {NoXA}
    /\ \A x \in rOps : x.g \in Gtrids
    /\ seqn \in Nat /\ faults \in 0..MaxFaults

(* Any number of messages are waiting on the sender's queue.               *)
Init ==
    /\ s2r = <<>> /\ r2s = <<>> /\ linkUp = FALSE
    /\ \E n \in Msgs : where = [m \in Msgs |-> IF m <= n THEN "queued" ELSE "absent"]
    /\ sBranch = [g \in Gtrids |-> "none"] /\ sMsgs = [g \in Gtrids |-> {}]
    /\ senderXA = {} /\ recoveryList = {}
    /\ sConn = "closed" /\ started = FALSE /\ sOps = {}
    /\ preparedXA = 0 /\ suspended = FALSE
    /\ rUp = TRUE /\ rConn = "closed"
    /\ rBranch = [g \in Gtrids |-> "none"] /\ rMsgs = [g \in Gtrids |-> {}]
    /\ receiverXA = [g \in Gtrids |-> "no"] /\ commits = [g \in Gtrids |-> 0]
    /\ currentXA = NoXA /\ xaList = {} /\ puts = {} /\ rOps = {}
    /\ seqn = 0 /\ received = [m \in Msgs |-> 0] /\ early = FALSE /\ faults = 0

-----------------------------------------------------------------------------
(* The connection.                                                         *)

(* ism_fwd_startChannel and ism_fwd_connected, run first or by the retry   *)
(* timer: a new outgoing connection sends Connect.                         *)
Connect ==
    /\ sConn = "closed"
    /\ sConn' = "connecting"
    /\ UNCHANGED <<link, where, sBranch, sMsgs, senderXA, recoveryList, started,
                   sOps, preparedXA, suspended, receiverVars, faults>>

(* A new transaction on the receiver's list, with its branch in flight.    *)
(* ism_fwd_newGtrid, ism_fwd_makeXA, ism_fwd_linkXA, createXAInfo.         *)
NewXA(g, lists, counts) ==
    /\ seqn < MaxGtrid /\ g = seqn + 1
    /\ seqn' = g
    /\ receiverXA' = [lists EXCEPT ![g] = "linked"]
    /\ commits' = [counts EXCEPT ![g] = 0]

(* ism_fwd_doConnect while an earlier incoming connection is still there:  *)
(* that one is told to close, and a timer closes the new one.              *)
RejectConnect ==
    /\ sConn = "connecting" /\ rConn # "closed"
    /\ rConn' = "closing" /\ s2r' = <<>> /\ linkUp' = FALSE
    /\ sConn' = "closing"
    /\ UNCHANGED <<r2s, where, sBranch, sMsgs, senderXA, recoveryList, started, sOps,
                   preparedXA, suspended, rUp, early, rBranch, rMsgs, receiverXA, commits,
                   currentXA, xaList, puts, rOps, seqn, received, faults>>

(* ism_fwd_doConnect and replyConnect: with no transactions on either list *)
(* of the channel the receiver opens one and lets the sender start by      *)
(* itself.  "reverse": the channel's other direction has transactions.     *)
(* Nothing makes a connection wait for the restart's recovery.             *)
AcceptConnect ==
    /\ sConn = "connecting" /\ rConn = "closed"
    /\ early' = (early \/ ~rUp)
    /\ sConn' = "open" /\ rConn' = "open" /\ linkUp' = TRUE /\ s2r' = <<>>
    /\ \E reverse \in BOOLEAN :
         IF ~reverse /\ \A g \in Gtrids : receiverXA[g] = "no"
         THEN \E g \in Gtrids :
                /\ NewXA(g, receiverXA, commits)
                /\ currentXA' = g
                /\ rBranch' = [rBranch EXCEPT ![g] = "inflight"]
                /\ rMsgs' = [rMsgs EXCEPT ![g] = {}]
                /\ r2s' = <<[t |-> "ConnectReply", auto |-> TRUE]>>
         ELSE /\ r2s' = <<[t |-> "ConnectReply", auto |-> FALSE]>>
              /\ UNCHANGED <<seqn, receiverXA, commits, currentXA, rBranch, rMsgs>>
    /\ UNCHANGED <<where, sBranch, sMsgs, senderXA, recoveryList, started, sOps,
                   preparedXA, suspended, rUp, xaList, puts, rOps, received, faults>>

(* ism_fwd_closing at the sender: the end of the connection is noticed.    *)
SClosing ==
    /\ sConn = "open" /\ ~linkUp
    /\ sConn' = "closing" /\ r2s' = <<>>
    /\ UNCHANGED <<s2r, linkUp, where, sBranch, sMsgs, senderXA, recoveryList, started,
                   sOps, preparedXA, suspended, receiverVars, faults>>

(* What destroying the client state leaves of the sender: branches that    *)
(* are not prepared are rolled back and unacknowledged messages go back.   *)
RequeueUnprepared ==
    LET kept == UNION {sMsgs[g] : g \in {h \in Gtrids : sBranch[h] = "prepared"}}
    IN  /\ sBranch' = [g \in Gtrids |-> IF sBranch[g] = "prepared" THEN "prepared" ELSE "none"]
        /\ where' = [m \in Msgs |-> IF where[m] \in {"absent", "gone"} \/ m \in kept
                                    THEN where[m] ELSE "queued"]

(* ism_fwd_replyCloseClient and ism_fwd_replyDoneConnection at the sender, *)
(* once no engine call is in progress; sets the retry timer (Connect).     *)
SClosed ==
    /\ sConn = "closing" /\ sOps = {}
    /\ sConn' = "closed"
    /\ RequeueUnprepared
    /\ recoveryList' = {} /\ started' = FALSE /\ preparedXA' = 0 /\ suspended' = FALSE
    /\ UNCHANGED <<link, sMsgs, senderXA, sOps, receiverVars, faults>>

(* ism_fwd_closing at the receiver.                                        *)
RClosing ==
    /\ rConn = "open" /\ ~linkUp
    /\ rConn' = "closing" /\ s2r' = <<>>
    /\ UNCHANGED <<r2s, linkUp, senderVars, rUp, early, rBranch, rMsgs, receiverXA, commits,
                   currentXA, xaList, puts, rOps, seqn, received, faults>>

(* The engine calls that hold up the close of the incoming connection.     *)
InProgress == puts # {} \/ \E x \in rOps : x.op # "recoverCommit"

(* ism_fwd_cleanPendingXAs: the transactions it takes off the list.        *)
CleanUnlinks(g) == g = currentXA \/ g \in xaList

(* ism_fwd_replyCloseClient and ism_fwd_replyDoneConnection at the         *)
(* receiver: branches in flight are rolled back with the client state.     *)
RClosed ==
    /\ rConn = "closing" /\ ~InProgress
    /\ rConn' = "closed"
    /\ rBranch' = [g \in Gtrids |-> IF rBranch[g] = "inflight" THEN "none" ELSE rBranch[g]]
    /\ receiverXA' = [g \in Gtrids |-> IF CleanUnlinks(g) THEN "no" ELSE receiverXA[g]]
    /\ currentXA' = NoXA /\ xaList' = {}
    /\ UNCHANGED <<link, senderVars, rUp, early, rMsgs, commits, puts, rOps, seqn, received, faults>>

-----------------------------------------------------------------------------
(* The sender.                                                             *)

(* ism_fwd_sendRecover: the next prepared transaction, or the empty gtrid. *)
NextOf(list) == IF list = {} THEN NoXA ELSE CHOOSE g \in list : TRUE
RecoverMsg(list) == <<Wire("Recover", NextOf(list))>>
RestOf(list) == list \ {NextOf(list)}
Recovering(list) == IF list = {} THEN 0 ELSE 1

(* fwdConnectReplyAction: either side knows of transactions.               *)
MustRecover(auto, reverse) == reverse \/ senderXA # {} \/ ~auto

(* ism_fwd_doConnectReply and fwdConnectReplyAction: recover first when    *)
(* either side knows of transactions, otherwise start delivery.            *)
DoConnectReply ==
    /\ sConn = "open" /\ r2s # <<>> /\ Head(r2s).t = "ConnectReply"
    /\ r2s' = Tail(r2s)
    /\ \E reverse \in BOOLEAN :
         IF MustRecover(Head(r2s).auto, reverse)
         THEN /\ recoveryList' = RestOf(senderXA)
              /\ preparedXA' = preparedXA + Recovering(senderXA)
              /\ ToReceiver(RecoverMsg(senderXA))
              /\ UNCHANGED started
         ELSE /\ started' = TRUE
              /\ UNCHANGED <<recoveryList, preparedXA, s2r>>
    /\ UNCHANGED <<linkUp, where, sBranch, sMsgs, senderXA, sConn, sOps, suspended,
                   receiverVars, faults>>

(* ism_fwd_doStart: the receiver has finished the recovery.                *)
DoStart ==
    /\ sConn = "open" /\ r2s # <<>> /\ Head(r2s).t = "Start"
    /\ r2s' = Tail(r2s) /\ started' = TRUE
    /\ UNCHANGED <<s2r, linkUp, where, sBranch, sMsgs, senderXA, recoveryList, sConn,
                   sOps, preparedXA, suspended, receiverVars, faults>>

(* ism_fwd_replyMessage: the engine delivers the next message; it is sent  *)
(* even when the count of prepared transactions suspends the consumer.     *)
ReplyMessage ==
    /\ sConn = "open" /\ started /\ ~suspended
    /\ \E m \in Msgs :
         /\ where[m] = "queued" /\ \A n \in 1..(m - 1) : where[n] # "queued"
         /\ where' = [where EXCEPT ![m] = "sent"]
         /\ ToReceiver(<<Wire("RMessage", m)>>)
    /\ suspended' = (preparedXA > MaxXA)
    /\ UNCHANGED <<r2s, linkUp, sBranch, sMsgs, senderXA, recoveryList, sConn, started,
                   sOps, preparedXA, receiverVars, faults>>

(* ism_fwd_startDelivery, the job ism_fwd_resume submits.                  *)
StartDelivery ==
    /\ \E x \in Ops(sOps, "resume") : sOps' = sOps \ {x}
    /\ suspended' = FALSE
    /\ UNCHANGED <<link, where, sBranch, sMsgs, senderXA, recoveryList, sConn, started,
                   preparedXA, receiverVars, faults>>

(* ism_fwd_doPrepare and the start of replyPrepare.                        *)
DoPrepare ==
    /\ sConn = "open" /\ r2s # <<>> /\ Head(r2s).t = "Prepare"
    /\ LET g == Head(r2s).g
       IN  /\ senderXA' = senderXA \cup {g}
           /\ sMsgs' = [sMsgs EXCEPT ![g] = Head(r2s).msgs]
           /\ sOps' = sOps \cup {Op("create", g)}
    /\ r2s' = Tail(r2s)
    /\ UNCHANGED <<s2r, linkUp, where, sBranch, recoveryList, sConn, started, preparedXA,
                   suspended, receiverVars, faults>>

(* replyPrepare, Action_ack: branch S exists; confirm the messages in it.  *)
SCreated(g) ==
    /\ Op("create", g) \in sOps
    /\ sOps' = (sOps \ {Op("create", g)}) \cup {Op("ack", g)}
    /\ sBranch' = [sBranch EXCEPT ![g] = "inflight"]
    /\ UNCHANGED <<link, where, sMsgs, senderXA, recoveryList, sConn, started, preparedXA,
                   suspended, receiverVars, faults>>

(* replyPrepare, Action_prepareGlobalTransaction.                          *)
SAcked(g) ==
    /\ Op("ack", g) \in sOps
    /\ sOps' = (sOps \ {Op("ack", g)}) \cup {Op("prepare", g)}
    /\ where' = [m \in Msgs |-> IF m \in sMsgs[g] THEN "acked" ELSE where[m]]
    /\ UNCHANGED <<link, sBranch, sMsgs, senderXA, recoveryList, sConn, started, preparedXA,
                   suspended, receiverVars, faults>>

(* replyPrepare, Action_reply.                                             *)
SPrepared(g) ==
    /\ Op("prepare", g) \in sOps
    /\ sOps' = sOps \ {Op("prepare", g)}
    /\ sBranch' = [sBranch EXCEPT ![g] = "prepared"]
    /\ preparedXA' = preparedXA + 1
    /\ ToReceiver(<<[t |-> "PrepareReply", g |-> g, ok |-> TRUE]>>)
    /\ UNCHANGED <<r2s, linkUp, where, sMsgs, senderXA, recoveryList, sConn, started,
                   suspended, receiverVars, faults>>

(* replyPrepare with a failure: the transaction is unlinked only when the  *)
(* create or the confirm failed synchronously.                             *)
SPrepareFails(x) ==
    /\ x.op \in {"create", "ack", "prepare"} /\ faults < MaxFaults
    /\ faults' = faults + 1
    /\ sOps' = sOps \ {x}
    /\ \/ UNCHANGED senderXA
       \/ x.op # "prepare" /\ senderXA' = senderXA \ {x.g}
    /\ ToReceiver(<<[t |-> "PrepareReply", g |-> x.g, ok |-> FALSE]>>)
    /\ UNCHANGED <<r2s, linkUp, where, sBranch, sMsgs, recoveryList, sConn, started,
                   preparedXA, suspended, receiverVars>>

(* ism_fwd_doCommit for Commit and CommitRecover, and                      *)
(* ism_fwd_doRollbackPrepared for RollRecover: start the engine call.      *)
DoDecision ==
    /\ sConn = "open" /\ r2s # <<>>
    /\ Head(r2s).t \in {"Commit", "CommitRecover", "RollRecover"}
    /\ sOps' = sOps \cup {Op(Head(r2s).t, Head(r2s).g)}
    /\ r2s' = Tail(r2s)
    /\ UNCHANGED <<s2r, linkUp, where, sBranch, sMsgs, senderXA, recoveryList, sConn,
                   started, preparedXA, suspended, receiverVars, faults>>

(* The count of prepared transactions after a commit or a rollback.        *)
OneFewer(n) == IF n > 0 THEN n - 1 ELSE 0

(* Mutant: the limit is compared with the count before it is lowered.      *)
ResumeAfterM(n) == IF n > 0 /\ n <= MinXA /\ suspended THEN {Op("resume", NoXA)} ELSE {}
(* The tail of replyCommit and replyRollbackPrepared: n transactions were  *)
(* prepared; delivery is resumed when few enough are left.                 *)
ResumeAfter(n) ==
    IF n > 0 /\ OneFewer(n) <= MinXA /\ suspended THEN {Op("resume", NoXA)} ELSE {}

(* Branch S is committed (gone) or rolled back (queued).                   *)
EndBranchS(g, state) ==
    /\ sBranch' = [sBranch EXCEPT ![g] = "none"]
    /\ where' = [m \in Msgs |-> IF sBranch[g] # "none" /\ m \in sMsgs[g]
                                THEN state ELSE where[m]]

(* replyCommit.                                                            *)
SCommitted(x) ==
    /\ x \in sOps /\ x.op \in {"Commit", "CommitRecover"}
    /\ EndBranchS(x.g, "gone")
    /\ senderXA' = senderXA \ {x.g}
    /\ sOps' = (sOps \ {x}) \cup ResumeAfter(preparedXA)
    /\ LET left == OneFewer(preparedXA)
           reply == Wire("CommitReply", x.g)
       IN  IF x.op = "CommitRecover"
           THEN /\ recoveryList' = RestOf(recoveryList)
                /\ preparedXA' = left + Recovering(recoveryList)
                /\ ToReceiver(<<reply>> \o RecoverMsg(recoveryList))
           ELSE /\ preparedXA' = left
                /\ ToReceiver(<<reply>>)
                /\ UNCHANGED recoveryList
    /\ UNCHANGED <<r2s, linkUp, sMsgs, sConn, started, suspended, receiverVars, faults>>

(* replyRollbackPrepared; the receiver ignores the RollbackReply it sends. *)
SRolledBack(g) ==
    /\ Op("RollRecover", g) \in sOps
    /\ EndBranchS(g, "queued")
    /\ senderXA' = senderXA \ {g}
    /\ sOps' = (sOps \ {Op("RollRecover", g)}) \cup ResumeAfter(preparedXA)
    /\ recoveryList' = RestOf(recoveryList)
    /\ preparedXA' = OneFewer(preparedXA) + Recovering(recoveryList)
    /\ ToReceiver(RecoverMsg(recoveryList))
    /\ UNCHANGED <<r2s, linkUp, sMsgs, sConn, started, suspended, receiverVars, faults>>

(* The sender stops and restarts: prepared branches survive in the store   *)
(* and ism_fwd_recoverTransactions links them again.                       *)
SenderCrash ==
    /\ faults < MaxFaults /\ faults' = faults + 1
    /\ RequeueUnprepared
    /\ senderXA' = {g \in Gtrids : sBranch[g] = "prepared"}
    /\ recoveryList' = {} /\ sConn' = "closed" /\ started' = FALSE /\ sOps' = {}
    /\ preparedXA' = 0 /\ suspended' = FALSE
    /\ linkUp' = FALSE /\ r2s' = <<>>
    /\ UNCHANGED <<s2r, sMsgs, receiverVars>>

(* The network breaks the connection.                                      *)
Break ==
    /\ linkUp /\ faults < MaxFaults /\ faults' = faults + 1
    /\ linkUp' = FALSE
    /\ UNCHANGED <<s2r, r2s, senderVars, receiverVars>>

-----------------------------------------------------------------------------
(* The receiver.                                                           *)

(* fwdCreateXA: link the next transaction and ask the engine for it.       *)
FwdCreateXA ==
    \E g \in Gtrids : /\ NewXA(g, receiverXA, commits)
                      /\ rOps' = rOps \cup {Op("create", g)}

(* ism_fwd_doMessage, addMessageToXA: the message joins the current        *)
(* transaction, and the one that fills it asks for the next.               *)
DoMessage ==
    /\ rConn = "open" /\ s2r # <<>> /\ Head(s2r).t = "RMessage" /\ currentXA # NoXA
    /\ LET m == Head(s2r).g
           now == rMsgs[currentXA] \cup {m}
       IN  /\ rMsgs' = [rMsgs EXCEPT ![currentXA] = now]
           /\ puts' = puts \cup {m}
           /\ IF Cardinality(now) = CommitCount THEN FwdCreateXA
              ELSE UNCHANGED <<rOps, seqn, receiverXA, commits>>
    /\ s2r' = Tail(s2r)
    /\ UNCHANGED <<r2s, linkUp, senderVars, rUp, early, rConn, rBranch, currentXA, xaList,
                   received, faults>>

(* ism_fwd_timedCommit: a transaction that has waited long enough.         *)
TimedCommit ==
    /\ rConn = "open" \/ (rConn = "closing" /\ InProgress)
    /\ currentXA # NoXA /\ rMsgs[currentXA] # {}
    /\ Cardinality(Ops(rOps, "create")) < MaxCreates
    /\ FwdCreateXA
    /\ UNCHANGED <<link, senderVars, rUp, early, rConn, rBranch, rMsgs, currentXA, xaList, puts,
                   received, faults>>

(* sendPrepareXA.                                                          *)
PrepareMsg(g) == <<[t |-> "Prepare", g |-> g, msgs |-> rMsgs[g]]>>

(* A transaction with readyMsgCounter below seqcount.                      *)
PutsPending(g, pending) == rMsgs[g] \cap pending # {}

(* replyCreateXA: the new transaction becomes the current one; the one     *)
(* before is prepared, or waits on the list for its last put.              *)
ReplyCreateXA(g) ==
    /\ Op("create", g) \in rOps
    /\ rOps' = rOps \ {Op("create", g)}
    /\ rBranch' = [rBranch EXCEPT ![g] = "inflight"]
    /\ rMsgs' = [rMsgs EXCEPT ![g] = {}]
    /\ currentXA' = g
    /\ IF PutsPending(currentXA, puts)
       THEN xaList' = xaList \cup {currentXA} /\ UNCHANGED r2s
       ELSE ToSender(PrepareMsg(currentXA)) /\ UNCHANGED xaList
    /\ UNCHANGED <<s2r, linkUp, senderVars, rUp, early, rConn, receiverXA, commits, puts, seqn,
                   received, faults>>

(* Mutant: the last put of a listed transaction does not send its Prepare. *)
PutDoneM(m) ==
    /\ m \in puts
    /\ puts' = puts \ {m}
    /\ UNCHANGED <<link, senderVars, rUp, early, rConn, rBranch, rMsgs, receiverXA, commits,
                   currentXA, xaList, rOps, seqn, received, faults>>
(* fwdReplyPublish and fwdReliableACK: a put has completed; a listed       *)
(* transaction without pending puts is prepared.                           *)
PutDone(m) ==
    /\ m \in puts
    /\ puts' = puts \ {m}
    /\ LET ready == {g \in xaList : m \in rMsgs[g] /\ ~PutsPending(g, puts \ {m})}
       IN  IF rConn = "open" /\ ready # {}
           THEN LET g == CHOOSE h \in ready : TRUE
                IN  xaList' = xaList \ {g} /\ ToSender(PrepareMsg(g))
           ELSE UNCHANGED <<xaList, r2s>>
    /\ UNCHANGED <<s2r, linkUp, senderVars, rUp, early, rConn, rBranch, rMsgs, receiverXA, commits,
                   currentXA, rOps, seqn, received, faults>>

(* transport->close by the receiver.                                       *)
CloseIncoming == linkUp' = FALSE /\ rConn' = "closing" /\ s2r' = <<>>

(* replyCreateXA, replyDoPrepare or fwdReplyPublish with a failure: the    *)
(* transaction is unlinked (not after a failed put) and the connection     *)
(* closed.                                                                 *)
RFails ==
    /\ faults < MaxFaults /\ faults' = faults + 1
    /\ \/ \E x \in rOps : /\ x.op \in {"create", "prepare"}
                          /\ rOps' = rOps \ {x}
                          /\ receiverXA' = [receiverXA EXCEPT ![x.g] = "no"]
                          /\ UNCHANGED puts
       \/ \E m \in puts : puts' = puts \ {m} /\ UNCHANGED <<rOps, receiverXA>>
    /\ CloseIncoming
    /\ UNCHANGED <<r2s, senderVars, rUp, early, rBranch, rMsgs, commits, currentXA, xaList, seqn,
                   received>>

(* ism_fwd_doPrepareReply: prepare branch R, or give the transaction up.   *)
DoPrepareReply ==
    /\ rConn = "open" /\ s2r # <<>> /\ Head(s2r).t = "PrepareReply"
    /\ LET g == Head(s2r).g
       IN  IF Head(s2r).ok
           THEN /\ rOps' = rOps \cup {Op("prepare", g)}
                /\ s2r' = Tail(s2r)
                /\ UNCHANGED <<receiverXA, linkUp, rConn>>
           ELSE /\ receiverXA' = [receiverXA EXCEPT ![g] = "no"]
                /\ CloseIncoming
                /\ UNCHANGED rOps
    /\ UNCHANGED <<r2s, senderVars, rUp, early, rBranch, rMsgs, commits, currentXA, xaList, puts,
                   seqn, received, faults>>

(* Mutant: the commit is not recorded in the transaction, so a recovery    *)
(* does not know the outcome.                                              *)
PreparedMarkM(g) == receiverXA
(* replyDoPrepare: xa->prepared = 1.                                       *)
PreparedMark(g) == [receiverXA EXCEPT ![g] = "prepared"]

(* replyDoPrepare: R is prepared; tell the sender to commit and commit R.  *)
(* Without its transaction the call returns with inprogress still raised,  *)
(* so it stays in rOps.  The stored state is prepared until the commit is  *)
(* done (ReplyEngineCommit).                                               *)
ReplyDoPrepare(g) ==
    /\ Op("prepare", g) \in rOps /\ receiverXA[g] # "no"
    /\ rBranch[g] = "inflight"
    /\ rBranch' = [rBranch EXCEPT ![g] = "committing"]
    /\ receiverXA' = PreparedMark(g)
    /\ ToSender(<<Wire("Commit", g)>>)
    /\ rOps' = (rOps \ {Op("prepare", g)}) \cup {Op("commit", g)}
    /\ UNCHANGED <<s2r, linkUp, senderVars, rUp, early, rConn, rMsgs, commits, currentXA, xaList,
                   puts, seqn, received, faults>>

Deliver(S) == [m \in Msgs |-> received[m] + Cardinality({g \in S : m \in rMsgs[g]})]

(* The count both commit replies keep: the second unlinks the transaction  *)
(* and lets the engine forget the branch, if its commit has ended.         *)
CountCommit(g, branch) ==
    IF receiverXA[g] = "no"
    THEN rBranch' = branch /\ UNCHANGED <<commits, receiverXA>>
    ELSE LET second == commits[g] >= 1
         IN  /\ commits' = [commits EXCEPT ![g] = IF second THEN 2 ELSE 1]
             /\ receiverXA' = [receiverXA EXCEPT ![g] = IF second THEN "no" ELSE @]
             /\ rBranch' = [branch EXCEPT ![g] = IF second /\ @ = "heuristic"
                                                 THEN "forgetting" ELSE @]

(* replyEngineCommit: the heuristic commit of branch R is done.            *)
ReplyEngineCommit(g) ==
    /\ Op("commit", g) \in rOps
    /\ rOps' = rOps \ {Op("commit", g)}
    /\ received' = Deliver({g})
    /\ CountCommit(g, [rBranch EXCEPT ![g] = "heuristic"])
    /\ UNCHANGED <<link, senderVars, rUp, early, rConn, rMsgs, currentXA, xaList, puts, seqn, faults>>

(* ism_fwd_doCommitReply.                                                  *)
DoCommitReply ==
    /\ rConn = "open" /\ s2r # <<>> /\ Head(s2r).t = "CommitReply"
    /\ CountCommit(Head(s2r).g, rBranch)
    /\ s2r' = Tail(s2r)
    /\ UNCHANGED <<r2s, linkUp, senderVars, rUp, early, rConn, rMsgs, currentXA, xaList, puts, rOps,
                   seqn, received, faults>>

(* ism_engine_forgetGlobalTransaction completes in the store.              *)
ForgetDone(g) ==
    /\ rBranch[g] = "forgetting"
    /\ rBranch' = [rBranch EXCEPT ![g] = "none"]
    /\ UNCHANGED <<link, senderVars, rUp, early, rConn, rMsgs, receiverXA, commits, currentXA,
                   xaList, puts, rOps, seqn, received, faults>>

(* replyRecover, Action_prepareGlobalTransaction.                          *)
Decision(g) == IF receiverXA[g] = "prepared" THEN "CommitRecover" ELSE "RollRecover"

(* ism_fwd_doRecover with a gtrid: decide, and skip numbers in use.        *)
DoRecover ==
    /\ rConn = "open" /\ s2r # <<>> /\ Head(s2r).t = "Recover" /\ Head(s2r).g # NoXA
    /\ LET g == Head(s2r).g
       IN  /\ seqn' = IF g > seqn THEN g + 1 ELSE seqn
           /\ ToSender(<<Wire(Decision(g), g)>>)
    /\ s2r' = Tail(s2r)
    /\ UNCHANGED <<linkUp, senderVars, rUp, early, rConn, rBranch, rMsgs, receiverXA, commits,
                   currentXA, xaList, puts, rOps, received, faults>>

(* ism_fwd_doRecover with the empty gtrid, replyRecover and                *)
(* replyCommitRecover: the sender has no more.  Prepared transactions are  *)
(* committed, or forgotten when that has been done; a forget while the     *)
(* restart's commit is still under way is refused and not repeated.  The   *)
(* others are dropped, and a new current transaction starts the sender.    *)
RecoverDone ==
    /\ rConn = "open" /\ s2r # <<>> /\ Head(s2r).t = "Recover" /\ Head(s2r).g = NoXA
    /\ s2r' = Tail(s2r)
    /\ LET decided == {g \in Gtrids : receiverXA[g] = "prepared"}
           late == {g \in decided : rBranch[g] = "prepared"}
           ended == {g \in decided : rBranch[g] = "heuristic"}
       IN  \E g \in Gtrids :
             /\ NewXA(g, [h \in Gtrids |-> "no"], commits)
             /\ rBranch' = [h \in Gtrids |-> CASE h = g -> "inflight"
                                               [] h \in late -> "none"
                                               [] h \in ended -> "forgetting"
                                               [] OTHER -> rBranch[h]]
             /\ received' = Deliver(late)
             /\ rMsgs' = [rMsgs EXCEPT ![g] = {}]
             /\ currentXA' = g
    /\ ToSender(<<Wire("Start", NoXA)>>)
    /\ UNCHANGED <<linkUp, senderVars, rUp, early, rConn, xaList, puts, rOps, faults>>

(* The receiver stops: the store keeps prepared and completed branches.    *)
(* The restarted server listens at once (ism_transport_startMessaging).    *)
ReceiverCrash ==
    /\ faults < MaxFaults /\ faults' = faults + 1
    /\ linkUp' = FALSE /\ s2r' = <<>>
    /\ rUp' = FALSE /\ rConn' = "closed"
    /\ rBranch' = [g \in Gtrids |-> CASE rBranch[g] = "inflight" -> "none"
                                      [] rBranch[g] = "committing" -> "prepared"
                                      [] rBranch[g] = "forgetting" -> "heuristic"
                                      [] OTHER -> rBranch[g]]
    /\ receiverXA' = [g \in Gtrids |-> "no"] /\ commits' = [g \in Gtrids |-> 0]
    /\ currentXA' = NoXA /\ xaList' = {} /\ puts' = {} /\ rOps' = {} /\ seqn' = 0
    /\ UNCHANGED <<r2s, senderVars, rMsgs, received, early>>

(* The recovered branches that a heuristic commit still changes.           *)
ToCommit == {g \in Gtrids : rBranch[g] = "prepared"}

(* ism_fwd_recoverTransactions and linkTransaction: link what the engine   *)
(* recovered and commit it heuristically.  A commit that completes later   *)
(* marks only the copy of the transaction the engine made.                 *)
RecoverTransactions ==
    /\ ~rUp /\ rUp' = TRUE
    /\ LET prepared == ToCommit
           found == prepared \cup {g \in Gtrids : rBranch[g] = "heuristic"}
       IN  \E sync \in SUBSET prepared :
             /\ receiverXA' = [g \in Gtrids |-> IF g \in found THEN "prepared" ELSE receiverXA[g]]
             /\ rBranch' = [g \in Gtrids |-> CASE g \in sync -> "heuristic"
                                               [] g \in prepared \ sync -> "committing"
                                               [] OTHER -> rBranch[g]]
             /\ commits' = [g \in Gtrids |-> IF receiverXA'[g] # "no" /\ g \notin prepared \ sync
                                             THEN 1 ELSE commits[g]]
             /\ rOps' = rOps \cup {Op("recoverCommit", g) : g \in prepared \ sync}
             /\ received' = Deliver(sync)
             /\ IF found = {} THEN UNCHANGED seqn
                ELSE \E last \in found : /\ \A g \in found : g <= last
                                         /\ seqn' = last + RestartGap
    /\ UNCHANGED <<link, senderVars, early, rConn, rMsgs, currentXA, xaList, puts, faults>>

(* replyRecoverCommit.                                                     *)
ReplyRecoverCommit(g) ==
    /\ Op("recoverCommit", g) \in rOps
    /\ rOps' = rOps \ {Op("recoverCommit", g)}
    /\ rBranch' = [rBranch EXCEPT ![g] = "heuristic"]
    /\ received' = Deliver({g})
    /\ UNCHANGED <<link, senderVars, rUp, early, rConn, rMsgs, receiverXA, commits, currentXA,
                   xaList, puts, seqn, faults>>

-----------------------------------------------------------------------------
SenderStep ==
    \/ Connect \/ SClosing \/ SClosed
    \/ DoConnectReply \/ DoStart \/ ReplyMessage \/ StartDelivery
    \/ DoPrepare \/ DoDecision
    \/ \E g \in Gtrids : SCreated(g) \/ SAcked(g) \/ SPrepared(g) \/ SRolledBack(g)
    \/ \E x \in sOps : SCommitted(x)

ReceiverStep ==
    \/ RejectConnect \/ AcceptConnect \/ RClosing \/ RClosed
    \/ DoMessage \/ TimedCommit \/ DoPrepareReply \/ DoCommitReply
    \/ DoRecover \/ RecoverDone \/ RecoverTransactions
    \/ \E m \in Msgs : PutDone(m)
    \/ \E g \in Gtrids : \/ ReplyCreateXA(g) \/ ReplyDoPrepare(g) \/ ReplyEngineCommit(g)
                         \/ ForgetDone(g) \/ ReplyRecoverCommit(g)

Fault ==
    \/ SenderCrash \/ ReceiverCrash \/ Break \/ RFails
    \/ \E x \in sOps : SPrepareFails(x)

Next == SenderStep \/ ReceiverStep \/ Fault

Spec == Init /\ [][Next]_vars

(* The retry timer, the commit timer, the transport threads and the        *)
(* engine's completions all go on running; faults need not happen.         *)
Fairness ==
    /\ WF_vars(Connect) /\ WF_vars(SClosing) /\ WF_vars(SClosed)
    /\ WF_vars(RejectConnect) /\ WF_vars(AcceptConnect)
    /\ WF_vars(RClosing) /\ WF_vars(RClosed)
    /\ WF_vars(DoConnectReply \/ DoStart \/ DoPrepare \/ DoDecision)
    /\ WF_vars(ReplyMessage) /\ WF_vars(StartDelivery)
    /\ WF_vars(\E g \in Gtrids : SCreated(g) \/ SAcked(g) \/ SPrepared(g) \/ SRolledBack(g))
    /\ WF_vars(\E x \in sOps : SCommitted(x))
    /\ WF_vars(DoMessage \/ DoPrepareReply \/ DoCommitReply \/ DoRecover \/ RecoverDone)
    /\ WF_vars(TimedCommit) /\ WF_vars(RecoverTransactions)
    /\ WF_vars(\E m \in Msgs : PutDone(m))
    /\ WF_vars(\E g \in Gtrids : ReplyCreateXA(g) \/ ReplyDoPrepare(g) \/ ReplyEngineCommit(g)
                                 \/ ForgetDone(g) \/ ReplyRecoverCommit(g))

FairSpec == Spec /\ Fairness

-----------------------------------------------------------------------------
(* Properties.  A connection that reaches a restarted receiver before its  *)
(* recovery (early) finds the list of transactions empty, and may be given *)
(* sequence numbers the store still holds: ism_transport_startMessaging    *)
(* runs before ism_fwd_recoverTransactions.  From then on exactly-once is  *)
(* lost; what is said below of transactions holds as long as no connection *)
(* came early.                                                             *)

(* The receiving server commits no message twice, whatever breaks or       *)
(* restarts in between (the purpose of replyRecover's two answers).        *)
NoDuplicate == \A m \in Msgs : received[m] <= 1

(* A message that the sender's queue has given up (replyCommit) has been   *)
(* committed by the receiver, or is in an R branch that is bound to be.    *)
NothingLost ==
    \A m \in Msgs : where[m] = "gone" =>
        \/ received[m] > 0
        \/ \E g \in Gtrids : rBranch[g] \in {"prepared", "committing"} /\ m \in rMsgs[g]

(* Once R has decided to commit (replyDoPrepare), the sender's queue never *)
(* offers the message again: it is gone, or held by a prepared branch S.   *)
DecidedIsHeld ==
    \A m \in Msgs :
        (received[m] > 0 \/ \E g \in Gtrids : /\ rBranch[g] \in {"prepared", "committing"}
                                              /\ m \in rMsgs[g])
        => \/ where[m] = "gone"
           \/ \E g \in Gtrids : sBranch[g] = "prepared" /\ m \in sMsgs[g]

(* While a started connection is whole, no prepared branch S is forgotten: *)
(* its PrepareReply, the receiver's prepare, the Commit or the engine's    *)
(* commit is on the way (fwdConnectReplyAction starts only without any).   *)
DecisionOnTheWay ==
    (started /\ linkUp /\ sConn = "open" /\ rConn = "open") =>
        \A g \in Gtrids : sBranch[g] = "prepared" =>
            \/ \E i \in 1..Len(s2r) : s2r[i].t = "PrepareReply" /\ s2r[i].g = g
            \/ Op("prepare", g) \in rOps
            \/ \E i \in 1..Len(r2s) : r2s[i].t = "Commit" /\ r2s[i].g = g
            \/ Op("Commit", g) \in sOps

(* Branch R is never prepared while a put into it is still under way (the  *)
(* readyMsgCounter of fwdReliableACK and replyCreateXA).                   *)
PreparedIsComplete ==
    \A g \in Gtrids : (Op("prepare", g) \in rOps \/ rBranch[g] = "committing")
                      => rMsgs[g] \cap puts = {}

(* A consumer suspended for too many prepared transactions is not left     *)
(* behind: enough of them are still to be committed, or its resume is      *)
(* under way (replyMessage against replyCommit).                           *)
SuspendedWillResume ==
    (suspended /\ sConn = "open") => preparedXA > MinXA \/ Op("resume", NoXA) \in sOps

(* Every message a Prepare names is still out on the sender's present      *)
(* connection, so ism_fwd_listDeliveryHandle finds its delivery handle.    *)
HandlesKnown ==
    \A i \in 1..Len(r2s) : r2s[i].t = "Prepare" =>
        \A m \in r2s[i].msgs : where[m] = "sent"

(* Once a restarted server has run its recovery, a branch R that was       *)
(* committed heuristically stays known to the forwarder until the engine   *)
(* is told to forget it (forwarder.c: "Wait for all commits to complete"). *)
NoOrphanedBranch ==
    rUp => \A g \in Gtrids : rBranch[g] = "heuristic" => receiverXA[g] # "no"

Forwarded == {m \in Msgs : where[m] # "absent"}

(* Once the faults are over every message reaches the receiver, exactly    *)
(* once, and the sender has no branch left in doubt - unless a connection  *)
(* came before a restarted receiver's recovery.                            *)
AllForwarded ==
    <>[](~early => /\ \A m \in Forwarded : where[m] = "gone" /\ received[m] = 1
                   /\ \A g \in Gtrids : sBranch[g] = "none")

(* Whatever fails and restarts, a message is neither committed twice nor   *)
(* given up uncommitted, and between the two decisions one of the branches *)
(* holds it: complete when prepared, with its delivery handles known.  The *)
(* one exception is a connection that came before a restarted receiver's   *)
(* recovery; of it only the types are claimed.                             *)
ExactlyOnce ==
    /\ TypeOK
    /\ ~early => /\ NoDuplicate /\ NothingLost /\ DecidedIsHeld
                 /\ PreparedIsComplete /\ HandlesKnown

(* Nothing waits for a message nobody will send: a suspended consumer has  *)
(* its resume on the way, whatever happens, and a prepared branch its      *)
(* decision, as long as no connection came before a restarted receiver's   *)
(* recovery.                                                               *)
NothingStalls == SuspendedWillResume /\ (~early => DecisionOnTheWay)
=============================================================================

---------------------------- MODULE WaiterStatus ----------------------------
(***************************************************************************)
(* The waiter status word of a queue (server_engine/src/waiterStatus.[ch]).*)
(*                                                                         *)
(* The word is at once the lock on the get end of the queue, the state of  *)
(* the queue's consumer, and a mail box in which threads that do not hold  *)
(* the lock leave work for the thread that does.  It only ever changes by  *)
(* compare-and-swap.  A status is the set of the bits that are on.         *)
(*                                                                         *)
(* Every loop of the C code reads the word, computes a new value from the  *)
(* value read and swaps it in if the word has not changed.  A failed swap  *)
(* has no effect and the new value depends on the old one only, so an      *)
(* iteration that succeeds is one atomic step from s to XxxTo(s).  The     *)
(* states in which the loop goes round without trying a swap are given by  *)
(* XxxWaits(s): there the step is simply not enabled.                      *)
(***************************************************************************)

(* The four flags a thread may leave for the owner of the lock.            *)
DISABLE_PEND        == "DISABLE_PEND"
CANCEL_DISABLE_PEND == "CANCEL_DISABLE_PEND"
DISCONNECT_PEND     == "DISCONNECT_PEND"
RECLAIMSPACE_PEND   == "RECLAIMSPACE_PEND"

PENDING == {DISABLE_PEND, CANCEL_DISABLE_PEND, DISCONNECT_PEND, RECLAIMSPACE_PEND}

(* The statuses that exclude every other bit.                              *)
WS_DISCONNECTED        == {}
WS_DISABLED            == {"DISABLED"}
WS_ENABLED             == {"ENABLED"}
WS_GETTING             == {"GETTING"}
WS_DELIVERING          == {"DELIVERING"}
WS_DISABLED_LOCKEDWAIT == {"DISABLED_LOCKEDWAIT"}

ACTIVE == {"ENABLED", "GETTING", "DELIVERING", RECLAIMSPACE_PEND}
LOCKED == {"GETTING", "DELIVERING", "DISABLED_LOCKEDWAIT"} \cup PENDING

HasPending(s) == s \cap PENDING # {}
IsLocked(s)   == s \cap LOCKED # {}

(* Flags only, and at least one: what an owner that has work to do holds.  *)
PendingStatus == (SUBSET PENDING) \ {{}}

Status == {WS_DISCONNECTED, WS_DISABLED, WS_ENABLED, WS_GETTING, WS_DELIVERING,
           WS_DISABLED_LOCKEDWAIT}
            \cup PendingStatus

(***************************************************************************)
(* ieq_enableWaiter                                                        *)
(***************************************************************************)
EnableWaits(s) == s = WS_DISABLED_LOCKEDWAIT

(* Fault: a second enable while a disable is cancelled cancels again.      *)
EnableRcForgetsCancel(s) ==
  IF DISCONNECT_PEND \in s THEN "WaiterInvalid"
  ELSE IF s = WS_DISABLED THEN "OK"
  ELSE IF s # {} /\ s \subseteq ACTIVE THEN "WaiterEnabled"
  ELSE IF DISABLE_PEND \in s THEN "DisableWaiterCancel"
  ELSE "WaiterInvalid"

EnableRc(s) ==
  IF DISCONNECT_PEND \in s THEN "WaiterInvalid"
  ELSE IF s = WS_DISABLED THEN "OK"
  ELSE IF (s # {} /\ s \subseteq ACTIVE) \/ CANCEL_DISABLE_PEND \in s THEN "WaiterEnabled"
  ELSE IF DISABLE_PEND \in s THEN "DisableWaiterCancel"
  ELSE "WaiterInvalid"

(* Fault: the cancel replaces the request it cancels.                      *)
EnableToLosesDisable(s) ==
  CASE EnableRc(s) = "OK"                  -> WS_ENABLED
    [] EnableRc(s) = "DisableWaiterCancel" -> {CANCEL_DISABLE_PEND}
    [] EnableRc(s) \in {"WaiterEnabled", "WaiterInvalid"} -> s

EnableTo(s) ==
  CASE EnableRc(s) = "OK"                  -> WS_ENABLED
    [] EnableRc(s) = "DisableWaiterCancel" -> s \cup {CANCEL_DISABLE_PEND}
    [] EnableRc(s) \in {"WaiterEnabled", "WaiterInvalid"} -> s

(***************************************************************************)
(* ieq_disableWaiter.  The caller becomes the owner of the lock when the   *)
(* outcome is "lock"; "uncancel" is the branch that undoes an enable which *)
(* had cancelled an earlier disable, and that must fire a callback itself. *)
(***************************************************************************)
DisableWaits(s) == s = WS_DISABLED_LOCKEDWAIT

DisableOutcome(s) ==
  IF s = WS_DISCONNECTED \/ DISCONNECT_PEND \in s THEN "WaiterInvalid"
  ELSE IF s = WS_DISABLED THEN "WaiterDisabled"
  ELSE IF CANCEL_DISABLE_PEND \in s THEN "uncancel"
  ELSE IF s \in {WS_GETTING, WS_DELIVERING} \/ HasPending(s) THEN "AsyncCompletion"
  ELSE "lock"

(* Fault: the flag is added to the status instead of replacing it.         *)
DisableToKeepsStatus(s) ==
  CASE DisableOutcome(s) \in {"WaiterInvalid", "WaiterDisabled"} -> s
    [] DisableOutcome(s) = "uncancel" -> s \ {CANCEL_DISABLE_PEND}
    [] DisableOutcome(s) = "AsyncCompletion" -> s \cup {DISABLE_PEND}
    [] DisableOutcome(s) = "lock" -> {DISABLE_PEND}

DisableTo(s) ==
  CASE DisableOutcome(s) \in {"WaiterInvalid", "WaiterDisabled"} -> s
    [] DisableOutcome(s) = "uncancel" -> s \ {CANCEL_DISABLE_PEND}
    [] DisableOutcome(s) = "AsyncCompletion" -> (s \cap PENDING) \cup {DISABLE_PEND}
    [] DisableOutcome(s) = "lock" -> {DISABLE_PEND}

AddPendFlag(s, flag) == (s \cap PENDING) \cup {flag}

(***************************************************************************)
(* iews_tryLockForReclaimSpace: take the lock, or leave the flag.          *)
(***************************************************************************)
ReclaimWaits(s) == s = WS_DISABLED_LOCKEDWAIT

(* Fault: a busy owner is not told that there is space to reclaim.         *)
ReclaimToLeavesNoFlag(s) ==
  IF s = WS_ENABLED THEN WS_DELIVERING
  ELSE IF s \in {WS_DISABLED, WS_DISCONNECTED} THEN WS_DISABLED_LOCKEDWAIT
  ELSE s

ReclaimTo(s) ==
  IF s = WS_ENABLED THEN WS_DELIVERING
  ELSE IF s \in {WS_DISABLED, WS_DISCONNECTED} THEN WS_DISABLED_LOCKEDWAIT
  ELSE AddPendFlag(s, RECLAIMSPACE_PEND)

(***************************************************************************)
(* iews_tryLockForQOperation: take the lock or give up.  A caller that may *)
(* not deliver messages neither waits nor takes an enabled waiter.         *)
(***************************************************************************)
QOpWaits(s, allowMsgDelivery) == allowMsgDelivery /\ s = WS_DISABLED_LOCKEDWAIT

QOpTo(s, allowMsgDelivery) ==
  IF s = WS_ENABLED /\ allowMsgDelivery THEN WS_DELIVERING
  ELSE IF s \in {WS_DISABLED, WS_DISCONNECTED} THEN WS_DISABLED_LOCKEDWAIT
  ELSE s

(***************************************************************************)
(* iesq_checkWaiters takes an enabled waiter and spins while another       *)
(* thread is getting; so does iesq_putToWaitingGetter.                     *)
(***************************************************************************)
(* Fault: a waiter in the callback is taken too.                           *)
CheckLocksDelivering(s) == s \in {WS_ENABLED, WS_DELIVERING}

CheckLocks(s) == s = WS_ENABLED

(* Fault: a thread that is getting is trusted to see our message.          *)
CheckNeverWaits(s) == FALSE

CheckWaits(s) == s = WS_GETTING

DirectPutWaits(s) == s = WS_GETTING

(* iesq_initWaiter: connect a consumer to a queue that has none.           *)
InitWaits(s) == s = WS_DISABLED_LOCKEDWAIT
InitTo(s)    == IF s = WS_DISCONNECTED THEN WS_DISABLED ELSE s

(***************************************************************************)
(* iesq_termWaiter.  When flags other than DISCONNECT_PEND are on, the C   *)
(* code computes the status with DISCONNECT_PEND added but goes round the  *)
(* loop without swapping it in: it waits for the owner to clear them.      *)
(***************************************************************************)
TermInvalid(s) == s = WS_DISCONNECTED \/ DISCONNECT_PEND \in s
TermWaits(s)   == ~TermInvalid(s) /\ (HasPending(s) \/ s = WS_DISABLED_LOCKEDWAIT)
TermTo(s)      == IF TermInvalid(s) THEN s ELSE {DISCONNECT_PEND}
TermLocks(s)   == s \in {WS_DISABLED, WS_ENABLED}
=============================================================================

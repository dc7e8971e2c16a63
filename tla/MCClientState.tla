--------------------------- MODULE MCClientState ---------------------------
(***************************************************************************)
(* Instances of ClientState for TLC.  All the environment may do at once   *)
(* is too much to explore, so a behaviour is of one of four mixes: what    *)
(* clients ask for, and what else happens to them.  A mix holds back       *)
(* choices of the environment only, never a step of the engine.            *)
(***************************************************************************)
EXTENDS ClientState

CONSTANT Mixes   \* the mixes that occur
VARIABLE mix     \* the mix of this behaviour
mixVars == <<vars, mix>>

Request(dur, clean, steal) == [dur |-> dur, clean |-> clean, steal |-> steal]

\* Stealing clients, durable or not, that resume or start clean.
StealingRequests ==
  {Request(d, clean, TRUE) : d \in {"durable", "nondurable"}, clean \in BOOLEAN}

\* Every kind of durability, and a client that bounces off and cannot be stolen from.
AllRequests ==
  {Request(d, clean, TRUE) : d \in DurabilityKinds, clean \in BOOLEAN}
    \cup {Request("durable", FALSE, FALSE)}

DurableRequests == {Request("durable", clean, TRUE) : clean \in BOOLEAN}
CleanRequests == {Request(d, TRUE, TRUE) : d \in {"durable", "nondurable"}}
ResumingRequests == {Request("durable", FALSE, TRUE)}

Calm == [requests |-> AllRequests, wills |-> {"none"}, discards |-> {FALSE},
         removes |-> TRUE, finds |-> 0, crashes |-> 0]

\* Lookups meet clients that start clean, and wills are left by durable clients.
\* With lookups of clients that resume, or delayed wills of non-durable clients,
\* a reference is given up twice (ReleasedOnce).
FourMixes ==
  {Calm,
   [Calm EXCEPT !.requests = CleanRequests, !.finds = 2],
   [Calm EXCEPT !.requests = DurableRequests, !.wills = WillKinds,
                !.discards = BOOLEAN],
   [Calm EXCEPT !.requests = StealingRequests, !.crashes = 1]}

\* Clients that resume, and one lookup at an unfortunate moment.
ResumedAndFound == {[Calm EXCEPT !.requests = ResumingRequests, !.removes = FALSE, !.finds = 1]}

\* Clients that resume, and clients that discard their state.
ResumedAndDiscarded ==
  {[Calm EXCEPT !.requests = ResumingRequests, !.removes = FALSE, !.discards = BOOLEAN]}

\* Whether a step does no more than the mix of its behaviour allows.
WithinMix ==
  /\ finds' <= mix.finds /\ crashes' <= mix.crashes
  /\ \A c \in Clients :
       /\ cs[c].st = "none" /\ cs'[c].st = "Active" =>
            \E q \in mix.requests : Create(c, q)
       /\ cs[c].dst = "no" /\ cs'[c].dst = "closing" =>
            cs'[c].discard \in mix.discards /\ cs'[c].will \in mix.wills
       /\ ~cs[c].disc /\ cs'[c].disc => mix.removes

MixInit == Init /\ mix \in Mixes
MixNext == Next /\ mix' = mix /\ WithinMix
MixSpec == MixInit /\ [][MixNext]_mixVars

(***************************************************************************)
(* A client that was told OK, not that it resumed the state of another,    *)
(* starts without the subscriptions of earlier clients, in the mixes where *)
(* no client asks for its own state to be discarded (see FreshMeansFresh). *)
(***************************************************************************)
FreshUnlessDiscarded == mix.discards = {FALSE} => FreshMeansFresh

ClientSymmetry == Permutations(Clients)

(***************************************************************************)
(* The clients of an id do not get in each other's way: they never         *)
(* overlap, a client state is let go once, no cleanup touches the          *)
(* subscriptions of a connected client, and a new one starts afresh.       *)
(***************************************************************************)
ClientsSeparate ==
  OneClientAtATime /\ ReleasedOnce /\ CleanupSparesOthers /\ FreshUnlessDiscarded
=============================================================================

------------------------- MODULE ObservationMailbox -------------------------
(***************************************************************************)
(* What the policy server promises its clients, without workers, locks or  *)
(* queues: a mailbox that keeps the newest observation of each session,    *)
(* hands observations to one prediction at a time, and answers with the    *)
(* policy the observation was offered to.                                  *)
(***************************************************************************)
EXTENDS Naturals

CONSTANTS Observations, Policies, Sessions, NoPolicy, None

VARIABLES
    session,   \* the current session
    model,     \* the policy that is served
    slots,     \* slots[g]: the newest unclaimed observation of session g
    claim,     \* the observation being predicted
    offered,   \* observations that were accepted
    answers    \* the chunks clients received

vars == <<session, model, slots, claim, offered, answers>>

Init ==
    /\ session = 0
    /\ model = NoPolicy
    /\ slots = [g \in Sessions |-> None]
    /\ claim = None
    /\ offered = {}
    /\ answers = {}

\* A policy is never exchanged under a prediction.
Install(p) ==
    /\ claim = None
    /\ model' = p
    /\ UNCHANGED <<session, slots, claim, offered, answers>>

\* A new session starts with an empty slot; what an older one still holds may
\* be claimed, but no longer committed.
Reset ==
    /\ session' = session + 1
    /\ UNCHANGED <<model, slots, claim, offered, answers>>

\* An observation is accepted once, and replaces the one that waits.
Offer(o) ==
    /\ o \notin offered
    /\ model # NoPolicy
    /\ offered' = offered \cup {o}
    /\ slots' = [slots EXCEPT ![session] = [obs |-> o, model |-> model]]
    /\ UNCHANGED <<session, model, claim, answers>>

Claim(g) ==
    /\ claim = None
    /\ slots[g] # None /\ slots[g].model = model
    /\ claim' = [obs |-> slots[g].obs, session |-> g, committed |-> FALSE]
    /\ slots' = [slots EXCEPT ![g] = None]
    /\ UNCHANGED <<session, model, offered, answers>>

\* A cancelled prediction gives its observation back, unless a newer one waits.
PutBack ==
    /\ claim # None /\ ~claim.committed
    /\ claim.session = session /\ slots[session] = None
    /\ slots' = [slots EXCEPT ![session] = [obs |-> claim.obs, model |-> model]]
    /\ claim' = None
    /\ UNCHANGED <<session, model, offered, answers>>

\* Only a claim of the current session may turn into an answer.
Commit ==
    /\ claim # None /\ ~claim.committed
    /\ claim.session = session
    /\ claim' = [obs |-> claim.obs, session |-> session, committed |-> TRUE]
    /\ UNCHANGED <<session, model, slots, offered, answers>>

Answer ==
    /\ claim # None /\ claim.committed
    /\ answers' = answers \cup {[obs |-> claim.obs, session |-> claim.session,
                                 policy |-> model]}
    /\ claim' = None
    /\ UNCHANGED <<session, model, slots, offered>>

Abandon ==
    /\ claim # None
    /\ claim' = None
    /\ UNCHANGED <<session, model, slots, offered, answers>>

Next ==
    \/ \E p \in Policies : Install(p)
    \/ \E o \in Observations : Offer(o)
    \/ \E g \in Sessions : Claim(g)
    \/ Reset \/ PutBack \/ Commit \/ Answer \/ Abandon

Spec == Init /\ [][Next]_vars
=============================================================================

----------------------- MODULE PolicyServerRefinement -----------------------
(***************************************************************************)
(* The policy server implements the observation mailbox.                   *)
(*                                                                         *)
(* An observation is offered when its sender has made room for it: the     *)
(* receipt and the put that follow are under the state lock it holds.  It  *)
(* is claimed by the take from the queue, committed by the session test.   *)
(***************************************************************************)
EXTENDS PolicyServer

CONSTANT None

Slots == [obs : Observations, model : Policies \cup {NoPolicy}]
Claims == [obs : Observations, session : Generations, committed : BOOLEAN]

ASSUME MailboxConstants == None \notin Slots \cup Claims

Entry(o, p) == [obs |-> o, model |-> p]

Putting == stateLock # Free /\ At(stateLock, "send.put")

MailboxSlots ==
    [g \in Generations |->
        IF Putting /\ g = generation THEN Entry(call[stateLock].obs, policy)
        ELSE IF queue[g] = NoObs THEN None
        ELSE Entry(queue[g], accepted[queue[g]].policy)]

Predicting ==
    inferenceLock # Free /\ call[inferenceLock].pc \in GetPcs \ {"get.poll", "get.take"}

MailboxClaim ==
    IF Predicting
    THEN LET c == call[inferenceLock]
         IN  [obs |-> c.obs, session |-> c.source, committed |-> c.pc \in CommittedPcs]
    ELSE None

MailboxOffered ==
    {o \in Observations : \/ accepted[o] # NeverQueued
                          \/ Putting /\ call[stateLock].obs = o}

MailboxAnswers ==
    {[obs |-> d.obs, session |-> d.session, policy |-> d.policy] : d \in delivered}

Mailbox == INSTANCE ObservationMailbox WITH
    Sessions <- Generations,
    session  <- generation,
    model    <- policy,
    slots    <- MailboxSlots,
    claim    <- MailboxClaim,
    offered  <- MailboxOffered,
    answers  <- MailboxAnswers

\* Every behaviour of the locks, queues and workers of the server is one of the
\* mailbox: the newest observation of the current session wins, one prediction
\* runs at a time, and it answers for the session and policy it was meant for.
ImplementsMailbox == Mailbox!Spec
=============================================================================

------------------------- MODULE PolicyServer_proofs -------------------------
(***************************************************************************)
(* What holds of PolicyServer for any number of workers, observations,     *)
(* policies and resets, and that it implements the observation mailbox.    *)
(***************************************************************************)
EXTENDS PolicyServerRefinement, FiniteSetTheorems, TLAPS

-----------------------------------------------------------------------------
(* Types                                                                   *)

Pcs == FreePcs \cup SendPcs \cup HoldPcs

\* Workers that will still increment the generation, unless they abort.
ResetPcs == {"ready.clear", "policy.lock"} \cup PolicyPcs
Resetting == {w \in Workers : call[w].pc \in ResetPcs}
StopPending == IF stopping \in {"up", "set"} THEN 1 ELSE 0

\* The generation stays in its range because every increment was paid for by a
\* started Ready or SendPolicyInstructions, or is the one of stop().
GenerationPaid ==
    generation + Cardinality(Resetting) + StopPending <= resets + 1

\* Exactly at these statements a worker has an observation in its hands.
CarryPcs == {"send.receive", "send.filter"} \cup SendPcs
            \cup (GetPcs \ {"get.poll", "get.take"})
HandsFull ==
    \A w \in Workers :
        call[w].pc \in CarryPcs <=> call[w].obs \in Observations

TypeInv == TypeOK /\ GenerationPaid /\ HandsFull

\* Only w's record changes, and keeps its type.
Moves(w) == /\ call' \in [Workers -> Calling]
            /\ \A v \in Workers \ {w} : call'[v] = call[v]

\* A step of w adds w to the paying workers, removes it, or leaves them alone.
LEMMA ResettingStep ==
    ASSUME TypeOK, NEW w \in Workers, \A v \in Workers \ {w} : call'[v] = call[v]
    PROVE  /\ Cardinality(Resetting) \in Nat
           /\ Cardinality(Resetting)' \in Nat
           /\ (call[w].pc \in ResetPcs <=> call'[w].pc \in ResetPcs)
                 => Cardinality(Resetting)' = Cardinality(Resetting)
           /\ call[w].pc \in ResetPcs /\ call'[w].pc \notin ResetPcs
                 => Cardinality(Resetting)' = Cardinality(Resetting) - 1
           /\ call[w].pc \notin ResetPcs /\ call'[w].pc \in ResetPcs
                 => Cardinality(Resetting)' = Cardinality(Resetting) + 1
<1> DEFINE R == Resetting
           S == Resetting'
<1>1. IsFiniteSet(R) /\ IsFiniteSet(S)
  BY FS_Subset, ServerConstants DEF Resetting
<1>2. Cardinality(R) \in Nat /\ Cardinality(S) \in Nat
  BY <1>1, FS_CardinalityType
<1>3. ASSUME call[w].pc \in ResetPcs <=> call'[w].pc \in ResetPcs  PROVE S = R
  BY <1>3 DEF Resetting
<1>4. ASSUME call[w].pc \in ResetPcs, call'[w].pc \notin ResetPcs
      PROVE  Cardinality(S) = Cardinality(R) - 1
  <2>1. w \in R /\ S = R \ {w}  BY <1>4 DEF Resetting
  <2> QED  BY <2>1, <1>1, FS_RemoveElement
<1>5. ASSUME call[w].pc \notin ResetPcs, call'[w].pc \in ResetPcs
      PROVE  Cardinality(S) = Cardinality(R) + 1
  <2>1. w \notin R /\ S = R \cup {w}  BY <1>5 DEF Resetting
  <2> QED  BY <2>1, <1>1, FS_AddElement
<1> QED  BY <1>2, <1>3, <1>4, <1>5

\* Goto changes the pc of one worker and nothing else of its record.
LEMMA GotoMoves ==
    ASSUME TypeOK, NEW w \in Workers, NEW label \in Pcs, Goto(w, label)
    PROVE  /\ Moves(w)
           /\ call'[w].pc = label
           /\ call'[w].active = call[w].active
           /\ call'[w].obs = call[w].obs
           /\ call'[w].captured = call[w].captured
           /\ call'[w].source = call[w].source
           /\ call'[w].wanted = call[w].wanted
           /\ call'[w].seed = call[w].seed
  BY DEF TypeOK, Moves, Calling, Goto, Pcs

\* A handler that leaves makes its worker idle.
LEMMA FinishMoves ==
    ASSUME TypeOK, NEW w \in Workers, Finish(w)
    PROVE  Moves(w) /\ call'[w] = Idle
<1>1. Idle \in Calling
  BY ServerConstants DEF Idle, Calling, FreePcs, Generations
<1> QED  BY <1>1 DEF TypeOK, Moves, Finish


-----------------------------------------------------------------------------
(* Workers in motion                                                       *)

\* The terms of GenerationPaid are numbers.
LEMMA PaidTypes ==
    ASSUME TypeInv
    PROVE  /\ MaxResets \in Nat /\ resets \in 0 .. MaxResets
           /\ generation \in Nat /\ StopPending \in Nat
  BY ServerConstants DEF TypeInv, TypeOK, Generations, StopPending

\* A step that starts no Ready or SendPolicyInstructions and ends no session.
LEMMA QuietStep ==
    ASSUME TypeInv, NEW w \in Workers, Moves(w),
           UNCHANGED <<generation, stopping, resets>>,
           call'[w].pc \in ResetPcs => call[w].pc \in ResetPcs
    PROVE  GenerationPaid'
<1>1. generation \in Nat /\ resets \in Nat /\ StopPending \in Nat
  BY ServerConstants DEF TypeInv, TypeOK, Generations, StopPending
<1>2. StopPending' = StopPending
  BY DEF StopPending
<1> QED  BY <1>1, <1>2, ResettingStep DEF TypeInv, GenerationPaid, Moves

\* What a GetActions with an observation returns is a chunk.
LEMMA ChunkType ==
    ASSUME TypeOK, NEW w \in Workers, call[w].obs \in Observations
    PROVE  Chunk(w) \in [obs : Observations, session : Generations,
                        policy : Policies \cup {NoPolicy}, seed : Nat]
<1>1. call[w] \in Calling
  BY DEF TypeOK
<1> QED  BY <1>1 DEF Chunk, Calling

\* One worker's record is replaced by another one of its type.
LEMMA PutMoves ==
    ASSUME TypeOK, NEW w \in Workers, NEW r \in Calling,
           call' = [call EXCEPT ![w] = r]
    PROVE  Moves(w) /\ call'[w] = r
  BY DEF TypeOK, Moves

\* The actions that assign more of the record than its pc.
Keeps(w, fields) == \A f \in fields : call'[w][f] = call[w][f]

\* A cancelled call goes on with its locals, until it looks.
LEMMA CancelMoves ==
    ASSUME TypeOK, NEW w \in Workers, Cancel(w)
    PROVE  /\ Moves(w)
           /\ Keeps(w, {"pc", "obs", "captured", "source", "wanted", "seed"})
<1> DEFINE r == [call[w] EXCEPT !.active = FALSE]
<1>1. call[w] \in Calling  BY DEF TypeOK
<1>2. r \in Calling  BY <1>1 DEF Calling
<1>3. call' = [call EXCEPT ![w] = r]  BY DEF Cancel
<1>4. Moves(w) /\ call'[w] = r  BY <1>2, <1>3, PutMoves
<1> QED  BY <1>1, <1>4 DEF Calling, Keeps

\* SendPolicyInstructions starts with the policy its client asks for.
LEMMA PolicyCallMoves ==
    ASSUME TypeOK, NEW w \in Workers, PolicyCall(w)
    PROVE  /\ Moves(w)
           /\ call'[w].pc = "policy.lock"
           /\ Keeps(w, {"obs"})
<1>1. PICK p \in Policies :
          call' = [call EXCEPT ![w].pc = "policy.lock", ![w].wanted = p]
  BY DEF PolicyCall
<1> DEFINE r == [call[w] EXCEPT !.pc = "policy.lock", !.wanted = p]
<1>2. call[w] \in Calling  BY DEF TypeOK
<1>3. r \in Calling  BY <1>2 DEF Calling, FreePcs
<1>4. call' = [call EXCEPT ![w] = r]  BY <1>1, <1>2 DEF TypeOK, Calling
<1>5. Moves(w) /\ call'[w] = r  BY <1>3, <1>4, PutMoves
<1> QED  BY <1>2, <1>5 DEF Calling, Keeps

\* SendObservations takes an observation no other call was given.
LEMMA SendCallMoves ==
    ASSUME TypeOK, NEW w \in Workers, SendCall(w)
    PROVE  /\ Moves(w)
           /\ call'[w].pc = "send.receive"
           /\ call'[w].obs \in unsent
           /\ unsent' = unsent \ {call'[w].obs}
<1>1. PICK o \in unsent :
          /\ call' = [call EXCEPT ![w].pc = "send.receive", ![w].obs = o]
          /\ unsent' = unsent \ {o}
  BY DEF SendCall
<1> DEFINE r == [call[w] EXCEPT !.pc = "send.receive", !.obs = o]
<1>2. call[w] \in Calling /\ o \in Observations  BY DEF TypeOK
<1>3. r \in Calling  BY <1>2 DEF Calling, FreePcs
<1>4. call' = [call EXCEPT ![w] = r]  BY <1>1, <1>2 DEF TypeOK, Calling
<1>5. Moves(w) /\ call'[w] = r  BY <1>3, <1>4, PutMoves
<1> QED  BY <1>1, <1>2, <1>5 DEF Calling

\* GetActions captures the generation with the inference lock.
LEMMA GetLockMoves ==
    ASSUME TypeOK, NEW w \in Workers, GetLock(w)
    PROVE  /\ Moves(w)
           /\ \/ /\ inferenceLock' = w
                 /\ call'[w].pc = "get.poll"
                 /\ call'[w].captured = generation
                 /\ Keeps(w, {"obs"})
              \/ inferenceLock' = inferenceLock /\ call'[w] = Idle
<1>1. CASE Finish(w) /\ inferenceLock' = inferenceLock
  BY <1>1, FinishMoves
<1>2. CASE ~(Finish(w) /\ inferenceLock' = inferenceLock)
  <2> DEFINE r == [call[w] EXCEPT !.pc = "get.poll", !.captured = generation]
  <2>1. call[w] \in Calling  BY DEF TypeOK
  <2>2. r \in Calling
    BY <2>1 DEF Calling, HoldPcs, GetPcs, TypeOK
  <2>3. call' = [call EXCEPT ![w] = r] /\ inferenceLock' = w
    BY <1>2, <2>1 DEF GetLock, TypeOK, Calling
  <2>4. Moves(w) /\ call'[w] = r  BY <2>2, <2>3, PutMoves
  <2> QED  BY <2>1, <2>3, <2>4 DEF Calling, Keeps
<1> QED  BY <1>1, <1>2

\* A round of _next_observation keeps a reference to the current queue.
LEMMA GetPollMoves ==
    ASSUME TypeOK, NEW w \in Workers, GetPoll(w)
    PROVE  /\ Moves(w)
           /\ call'[w].pc = "get.take"
           /\ call'[w].source = generation
           /\ Keeps(w, {"obs", "captured"})
<1> DEFINE r == [call[w] EXCEPT !.pc = "get.take", !.source = generation]
<1>1. call[w] \in Calling  BY DEF TypeOK
<1>2. r \in Calling  BY <1>1 DEF Calling, HoldPcs, GetPcs, TypeOK
<1>3. call' = [call EXCEPT ![w] = r]  BY <1>1 DEF GetPoll, TypeOK, Calling
<1>4. Moves(w) /\ call'[w] = r  BY <1>2, <1>3, PutMoves
<1> QED  BY <1>1, <1>4 DEF Calling, Keeps

\* What is taken is what the referenced queue held.
LEMMA GetTakeMoves ==
    ASSUME TypeOK, NEW w \in Workers, GetTake(w)
    PROVE  /\ Moves(w)
           /\ call'[w].pc = "get.taken"
           /\ call'[w].obs = queue[call[w].source]
           /\ call'[w].obs \in Observations
           /\ Keeps(w, {"captured", "source"})
<1> DEFINE r == [call[w] EXCEPT !.pc = "get.taken",
                                !.obs = queue[call[w].source]]
<1>1. call[w] \in Calling  BY DEF TypeOK
<1>2. queue[call[w].source] \in Observations
  BY <1>1 DEF TypeOK, Calling, GetTake
<1>3. r \in Calling
  BY <1>1, <1>2 DEF Calling, HoldPcs, GetPcs
<1>4. call' = [call EXCEPT ![w] = r]  BY <1>1 DEF GetTake, TypeOK, Calling
<1>5. Moves(w) /\ call'[w] = r  BY <1>3, <1>4, PutMoves
<1> QED  BY <1>1, <1>2, <1>5 DEF Calling, Keeps

\* The prediction uses the installed policy.
LEMMA GetInferMoves ==
    ASSUME TypeOK, NEW w \in Workers, GetInfer(w)
    PROVE  /\ Moves(w)
           /\ call'[w].pc = "get.check"
           /\ call'[w].wanted = policy
           /\ Keeps(w, {"obs", "captured", "source"})
<1> DEFINE r == [call[w] EXCEPT !.pc = "get.check", !.wanted = policy,
                                !.seed = predictionIndex]
<1>1. call[w] \in Calling  BY DEF TypeOK
<1>2. r \in Calling
  BY <1>1 DEF Calling, HoldPcs, GetPcs, TypeOK
<1>3. call' = [call EXCEPT ![w] = r]  BY <1>1 DEF GetInfer, TypeOK, Calling
<1>4. Moves(w) /\ call'[w] = r  BY <1>2, <1>3, PutMoves
<1> QED  BY <1>1, <1>4 DEF Calling, Keeps

\* Every action of a worker changes the record of that worker only.
LEMMA ActorMoves ==
    ASSUME TypeOK, NEW w \in Workers, Calls(w) \/ Cancel(w) \/ Step(w)
    PROVE  Moves(w)
<1>1. CASE \/ Cancel(w) \/ PolicyCall(w) \/ SendCall(w) \/ GetLock(w)
           \/ GetPoll(w) \/ GetTake(w) \/ GetInfer(w)
  BY <1>1, CancelMoves, PolicyCallMoves, SendCallMoves, GetLockMoves,
     GetPollMoves, GetTakeMoves, GetInferMoves
<1>2. CASE \/ ReadyCall(w) \/ ReadyClear(w) \/ GetCall(w) \/ AbortUnlocked(w)
           \/ AbortLocked(w) \/ PolicyLock(w) \/ PolicyLoad(w)
           \/ PolicyInstall(w) \/ PolicyClear(w) \/ SendReceive(w)
           \/ SendFilter(w) \/ SendDrop(w) \/ SendDropEmpty(w) \/ SendPut(w)
           \/ GetEmpty(w) \/ GetTimeout(w) \/ GetRestore(w) \/ GetTaken(w)
           \/ GetRecheck(w) \/ GetMark(w) \/ GetPrepare(w) \/ GetFail(w)
           \/ GetCheck(w) \/ GetReceipt(w) \/ GetWrite(w) \/ GetWriteFail(w)
           \/ GetReply(w)
  <2>1. (\E label \in Pcs : Goto(w, label)) \/ Finish(w)
    BY <1>2
    DEF ReadyCall, ReadyClear, GetCall, AbortUnlocked, AbortLocked, PolicyLock,
        PolicyLoad, PolicyInstall, PolicyClear, SendReceive, SendFilter,
        SendDrop, SendDropEmpty, SendPut, GetEmpty, GetTimeout, GetRestore,
        GetTaken, GetRecheck, GetMark, GetPrepare, GetFail, GetCheck,
        GetReceipt, GetWrite, GetWriteFail, GetReply, FinishAndRelease, Pcs,
        FreePcs, SendPcs, HoldPcs, GetPcs, PolicyPcs
  <2> QED  BY <2>1, GotoMoves, FinishMoves
<1> QED  BY <1>1, <1>2 DEF Calls, Step

\* Only a call that was counted, or stop(), increments the generation.
LEMMA PaidStep ==
    ASSUME TypeInv, NEW w \in Workers, Calls(w) \/ Cancel(w) \/ Step(w)
    PROVE  GenerationPaid' /\ generation' \in Generations
<1>a. TypeOK /\ Moves(w)
  BY ActorMoves DEF TypeInv
<1>1. CASE \/ Cancel(w) \/ SendCall(w) \/ GetCall(w) \/ AbortUnlocked(w)
           \/ AbortLocked(w) \/ PolicyLock(w) \/ PolicyLoad(w)
           \/ PolicyInstall(w) \/ SendReceive(w) \/ SendFilter(w)
           \/ SendDrop(w) \/ SendDropEmpty(w) \/ SendPut(w) \/ GetLock(w)
           \/ GetPoll(w) \/ GetTake(w) \/ GetEmpty(w) \/ GetTimeout(w)
           \/ GetRestore(w) \/ GetTaken(w) \/ GetRecheck(w) \/ GetMark(w)
           \/ GetPrepare(w) \/ GetInfer(w) \/ GetFail(w) \/ GetCheck(w)
           \/ GetReceipt(w) \/ GetWrite(w) \/ GetWriteFail(w) \/ GetReply(w)
  <2>1. UNCHANGED <<generation, stopping, resets>>
    BY <1>1
    DEF Cancel, SendCall, GetCall, AbortUnlocked, AbortLocked, PolicyLock,
        PolicyLoad, PolicyInstall, SendReceive, SendFilter, SendDrop,
        SendDropEmpty, SendPut, GetLock, GetPoll, GetTake, GetEmpty,
        GetTimeout, GetRestore, GetTaken, GetRecheck, GetMark, GetPrepare,
        GetInfer, GetFail, GetCheck, GetReceipt, GetWrite, GetWriteFail,
        GetReply, FinishAndRelease, episode, clients
  <2>2. call'[w].pc \in ResetPcs => call[w].pc \in ResetPcs
    <3>1. CASE \/ Cancel(w) \/ SendCall(w) \/ GetLock(w) \/ GetPoll(w)
               \/ GetTake(w) \/ GetInfer(w)
      BY <1>a, <3>1, CancelMoves, SendCallMoves, GetLockMoves, GetPollMoves,
         GetTakeMoves, GetInferMoves
      DEF Keeps, ResetPcs, PolicyPcs, Idle
    <3>2. CASE (\E label \in Pcs \ ResetPcs : Goto(w, label)) \/ Finish(w)
      BY <1>a, <3>2, GotoMoves, FinishMoves DEF Idle, ResetPcs, PolicyPcs
    <3> QED
      BY <1>1, <3>1, <3>2
      DEF GetCall, AbortUnlocked, AbortLocked, PolicyLock, PolicyLoad,
          PolicyInstall, SendReceive, SendFilter, SendDrop, SendDropEmpty,
          SendPut, GetEmpty, GetTimeout, GetRestore, GetTaken, GetRecheck,
          GetMark, GetPrepare, GetFail, GetCheck, GetReceipt, GetWrite,
          GetWriteFail, GetReply, FinishAndRelease, At, ResetPcs, Pcs, FreePcs,
          SendPcs, HoldPcs, GetPcs, PolicyPcs
  <2> QED  BY <1>a, <2>1, <2>2, QuietStep DEF TypeInv, TypeOK
<1>2. CASE ReadyCall(w) \/ PolicyCall(w)
  <2>1. call[w].pc \notin ResetPcs /\ call'[w].pc \in ResetPcs
    BY <1>a, <1>2, GotoMoves, PolicyCallMoves
    DEF ReadyCall, PolicyCall, At, ResetPcs, PolicyPcs, Pcs, FreePcs
  <2>2. /\ Cardinality(Resetting)' = Cardinality(Resetting) + 1
        /\ Cardinality(Resetting)' \in Nat /\ Cardinality(Resetting) \in Nat
    BY <1>a, <2>1, ResettingStep DEF Moves
  <2>3. GenerationPaid'
    BY <1>2, <2>2, PaidTypes
    DEF TypeInv, ReadyCall, PolicyCall, episode, GenerationPaid, StopPending
  <2> QED  BY <1>a, <1>2, <2>3 DEF ReadyCall, PolicyCall, episode, TypeOK
<1>3. CASE ReadyClear(w) \/ PolicyClear(w)
  <2>1. call[w].pc \in ResetPcs /\ call'[w].pc \notin ResetPcs
    BY <1>a, <1>3, FinishMoves DEF ReadyClear, PolicyClear, FinishAndRelease,
       At, Idle, ResetPcs, PolicyPcs
  <2>2. /\ Cardinality(Resetting)' = Cardinality(Resetting) - 1
        /\ Cardinality(Resetting)' \in Nat /\ Cardinality(Resetting) \in Nat
    BY <1>a, <2>1, ResettingStep DEF Moves
  <2>3. GenerationPaid'
    BY <1>3, <2>2, PaidTypes DEF TypeInv, ReadyClear, PolicyClear, clients,
       ClearEpisodeState, GenerationPaid, StopPending
  <2> QED  BY <1>3, <2>2, <2>3, PaidTypes DEF ReadyClear, PolicyClear, clients,
           ClearEpisodeState, GenerationPaid, StopPending, Generations
<1> QED  BY <1>1, <1>2, <1>3 DEF Calls, Step

\* A worker has an observation exactly from its receipt to the end of the call.
LEMMA HandsStep ==
    ASSUME TypeInv, NEW w \in Workers, Calls(w) \/ Cancel(w) \/ Step(w)
    PROVE  HandsFull'
<1>a. TypeOK /\ Moves(w) /\ NoObs \notin Observations
  BY ActorMoves, ServerConstants DEF TypeInv
<1>b. call[w].pc \in CarryPcs <=> call[w].obs \in Observations
  BY DEF TypeInv, HandsFull
<1>c. SUFFICES call'[w].pc \in CarryPcs <=> call'[w].obs \in Observations
  BY <1>a DEF TypeInv, HandsFull, Moves
<1>1. CASE Cancel(w)
  BY <1>a, <1>b, <1>1, CancelMoves DEF Keeps
<1>2. CASE PolicyCall(w)
  BY <1>a, <1>b, <1>2, PolicyCallMoves
  DEF Keeps, PolicyCall, At, CarryPcs, SendPcs, GetPcs
<1>3. CASE GetLock(w)
  BY <1>a, <1>b, <1>3, GetLockMoves
  DEF Keeps, Idle, GetLock, At, CarryPcs, SendPcs, GetPcs
<1>4. CASE GetPoll(w)
  BY <1>a, <1>b, <1>4, GetPollMoves
  DEF Keeps, GetPoll, At, CarryPcs, SendPcs, GetPcs
<1>5. CASE GetInfer(w)
  BY <1>a, <1>b, <1>5, GetInferMoves
  DEF Keeps, GetInfer, At, CarryPcs, SendPcs, GetPcs
<1>6. CASE SendCall(w) \/ GetTake(w)
  BY <1>a, <1>6, SendCallMoves, GetTakeMoves
  DEF TypeOK, CarryPcs, SendPcs, GetPcs
<1>7. CASE Finish(w)
  BY <1>a, <1>7, FinishMoves DEF Idle, CarryPcs, SendPcs, GetPcs
<1>8. CASE \E label \in Pcs : /\ Goto(w, label)
                              /\ label \in CarryPcs <=> call[w].pc \in CarryPcs
  <2>1. PICK label \in Pcs : /\ Goto(w, label)
                             /\ label \in CarryPcs <=> call[w].pc \in CarryPcs
    BY <1>8
  <2>2. call'[w].pc = label /\ call'[w].obs = call[w].obs
    BY <1>a, <2>1, GotoMoves
  <2> QED  BY <1>b, <2>1, <2>2
<1> QED
  BY <1>1, <1>2, <1>3, <1>4, <1>5, <1>6, <1>7, <1>8
  DEF Calls, Step, ReadyCall, ReadyClear, GetCall, AbortUnlocked, AbortLocked,
      PolicyLock, PolicyLoad, PolicyInstall, PolicyClear, SendReceive,
      SendFilter, SendDrop, SendDropEmpty, SendPut, GetEmpty, GetTimeout,
      GetRestore, GetTaken, GetRecheck, GetMark, GetPrepare, GetFail, GetCheck,
      GetReceipt, GetWrite, GetWriteFail, GetReply, FinishAndRelease, At,
      CarryPcs, Pcs, FreePcs, SendPcs, HoldPcs, GetPcs, PolicyPcs

\* The actions of the workers preserve the types.
LEMMA TypeStep ==
    ASSUME TypeInv, NEW w \in Workers
    PROVE  Calls(w) \/ Cancel(w) \/ Step(w) => TypeInv'
<1>a. TypeOK
  BY DEF TypeInv
<1>b. Calls(w) \/ Cancel(w) \/ Step(w) =>
         /\ Moves(w) /\ GenerationPaid'
         /\ generation' \in Generations /\ HandsFull'
  BY <1>a, ActorMoves, PaidStep, HandsStep
<1>c. /\ call[w] \in Calling
      /\ (call[w].pc \in CarryPcs => call[w].obs \in Observations)
  BY <1>a DEF TypeOK, TypeInv, HandsFull
<1>d. SUFFICES ASSUME Moves(w), generation' \in Generations,
                      Calls(w) \/ Cancel(w) \/ Step(w)
               PROVE  TypeOK'
  BY <1>b DEF TypeInv
<1>1. ASSUME Cancel(w)  PROVE TypeOK'
  BY <1>1, <1>a, <1>c, <1>d, ServerConstants
  DEF Cancel, model, episode, locks, recorder, clients, history, TypeOK, Moves
<1>2. ASSUME ReadyCall(w)  PROVE TypeOK'
  BY <1>2, <1>a, <1>c, <1>d, ServerConstants
  DEF ReadyCall, model, episode, locks, recorder, history, TypeOK, Moves
<1>3. ASSUME ReadyClear(w)  PROVE TypeOK'
  BY <1>3, <1>a, <1>c, <1>d, ServerConstants
  DEF ReadyClear, model, locks, recorder, clients, history, ClearEpisodeState,
      TypeOK, Moves
<1>4. ASSUME PolicyCall(w)  PROVE TypeOK'
  BY <1>4, <1>a, <1>c, <1>d, ServerConstants
  DEF PolicyCall, model, episode, locks, recorder, history, TypeOK, Moves
<1>5. ASSUME SendCall(w)  PROVE TypeOK'
  BY <1>5, <1>a, <1>c, <1>d, ServerConstants
  DEF SendCall, model, episode, locks, recorder, history, TypeOK, Moves
<1>6. ASSUME GetCall(w)  PROVE TypeOK'
  BY <1>6, <1>a, <1>c, <1>d, ServerConstants
  DEF GetCall, model, episode, locks, recorder, clients, history, TypeOK, Moves
<1>7. ASSUME AbortUnlocked(w)  PROVE TypeOK'
  BY <1>7, <1>a, <1>c, <1>d, ServerConstants
  DEF AbortUnlocked, model, episode, locks, recorder, clients, history, TypeOK,
      Moves
<1>8. ASSUME AbortLocked(w)  PROVE TypeOK'
  BY <1>8, <1>a, <1>c, <1>d, ServerConstants
  DEF AbortLocked, model, episode, recorder, clients, history,
      FinishAndRelease, TypeOK, Moves
<1>9. ASSUME PolicyLock(w)  PROVE TypeOK'
  BY <1>9, <1>a, <1>c, <1>d, ServerConstants
  DEF PolicyLock, model, episode, recorder, clients, history, TypeOK, Moves
<1>10. ASSUME PolicyLoad(w)  PROVE TypeOK'
  BY <1>10, <1>a, <1>c, <1>d, ServerConstants
  DEF PolicyLoad, model, episode, locks, recorder, clients, history,
      FinishAndRelease, TypeOK, Moves
<1>11. ASSUME PolicyInstall(w)  PROVE TypeOK'
  BY <1>11, <1>a, <1>c, <1>d, ServerConstants
  DEF PolicyInstall, episode, locks, recorder, clients, history, TypeOK, Moves,
      Calling
<1>12. ASSUME PolicyClear(w)  PROVE TypeOK'
  BY <1>12, <1>a, <1>c, <1>d, ServerConstants
  DEF PolicyClear, model, recorder, clients, history, ClearEpisodeState,
      FinishAndRelease, TypeOK, Moves
<1>13. ASSUME SendReceive(w)  PROVE TypeOK'
  BY <1>13, <1>a, <1>c, <1>d, ServerConstants
  DEF SendReceive, model, episode, locks, recorder, clients, history, TypeOK,
      Moves
<1>14. ASSUME SendFilter(w)  PROVE TypeOK'
  BY <1>14, <1>a, <1>c, <1>d, ServerConstants
  DEF SendFilter, model, episode, recorder, clients, history, TypeOK, Moves
<1>15. ASSUME SendDrop(w)  PROVE TypeOK'
  <2>1. call[w].obs \in Observations
    BY <1>15, <1>c DEF SendDrop, At, CarryPcs, SendPcs, GetPcs
  <2> QED
    BY <1>15, <1>a, <1>c, <1>d, <2>1, ServerConstants
    DEF SendDrop, model, locks, recorder, clients, history, TypeOK, Moves
<1>16. ASSUME SendDropEmpty(w)  PROVE TypeOK'
  BY <1>16, <1>a, <1>c, <1>d, ServerConstants
  DEF SendDropEmpty, model, episode, recorder, clients, history, TypeOK, Moves
<1>17. ASSUME SendPut(w)  PROVE TypeOK'
  <2>1. call[w].obs \in Observations
    BY <1>17, <1>c DEF SendPut, At, CarryPcs, SendPcs, GetPcs
  <2> QED
    BY <1>17, <1>a, <1>c, <1>d, <2>1, ServerConstants
    DEF SendPut, model, recorder, clients, TypeOK, Moves
<1>18. ASSUME GetLock(w)  PROVE TypeOK'
  BY <1>18, <1>a, <1>c, <1>d, ServerConstants
  DEF GetLock, model, episode, recorder, clients, history, TypeOK, Moves
<1>19. ASSUME GetPoll(w)  PROVE TypeOK'
  BY <1>19, <1>a, <1>c, <1>d, ServerConstants
  DEF GetPoll, model, episode, locks, recorder, clients, history, TypeOK, Moves
<1>20. ASSUME GetTake(w)  PROVE TypeOK'
  BY <1>20, <1>a, <1>c, <1>d, ServerConstants
  DEF GetTake, model, episode, locks, recorder, clients, history, TypeOK, Moves
<1>21. ASSUME GetEmpty(w)  PROVE TypeOK'
  BY <1>21, <1>a, <1>c, <1>d, ServerConstants
  DEF GetEmpty, model, episode, locks, recorder, clients, history, TypeOK,
      Moves
<1>22. ASSUME GetTimeout(w)  PROVE TypeOK'
  BY <1>22, <1>a, <1>c, <1>d, ServerConstants
  DEF GetTimeout, model, episode, recorder, clients, history, FinishAndRelease,
      TypeOK, Moves
<1>23. ASSUME GetRestore(w)  PROVE TypeOK'
  <2>1. call[w].obs \in Observations
    BY <1>23, <1>c DEF GetRestore, At, CarryPcs, SendPcs, GetPcs
  <2> QED
    BY <1>23, <1>a, <1>c, <1>d, <2>1, ServerConstants
    DEF GetRestore, model, episode, recorder, clients, history,
        FinishAndRelease, TypeOK, Moves
<1>24. ASSUME GetTaken(w)  PROVE TypeOK'
  BY <1>24, <1>a, <1>c, <1>d, ServerConstants
  DEF GetTaken, model, episode, locks, recorder, clients, history, TypeOK,
      Moves
<1>25. ASSUME GetRecheck(w)  PROVE TypeOK'
  BY <1>25, <1>a, <1>c, <1>d, ServerConstants
  DEF GetRecheck, model, episode, locks, recorder, clients, history, TypeOK,
      Moves
<1>26. ASSUME GetMark(w)  PROVE TypeOK'
  <2>1. call[w].obs \in Observations
    BY <1>26, <1>c DEF GetMark, At, CarryPcs, SendPcs, GetPcs
  <2>2. TimestepOf[call[w].obs] \in Nat
    BY <2>1, ServerConstants
  <2> QED
    BY <1>26, <1>a, <1>c, <1>d, <2>1, <2>2, ServerConstants
    DEF GetMark, model, locks, recorder, clients, history, TypeOK, Moves
<1>27. ASSUME GetPrepare(w)  PROVE TypeOK'
  <2>1. call[w].obs \in Observations
    BY <1>27, <1>c DEF GetPrepare, At, CarryPcs, SendPcs, GetPcs
  <2> QED
    BY <1>27, <1>a, <1>c, <1>d, <2>1, ServerConstants
    DEF GetPrepare, model, locks, recorder, clients, history, TypeOK, Moves
<1>28. ASSUME GetInfer(w)  PROVE TypeOK'
  BY <1>28, <1>a, <1>c, <1>d, ServerConstants
  DEF GetInfer, episode, locks, recorder, clients, history, DrawSeed, TypeOK,
      Moves
<1>29. ASSUME GetFail(w)  PROVE TypeOK'
  BY <1>29, <1>a, <1>c, <1>d, ServerConstants
  DEF GetFail, recorder, clients, history, DrawSeed, FinishAndRelease, TypeOK,
      Moves
<1>30. ASSUME GetCheck(w)  PROVE TypeOK'
  BY <1>30, <1>a, <1>c, <1>d, ServerConstants
  DEF GetCheck, model, episode, locks, recorder, clients, history,
      FinishAndRelease, TypeOK, Moves
<1>31. ASSUME GetReceipt(w)  PROVE TypeOK'
  BY <1>31, <1>a, <1>c, <1>d, ServerConstants
  DEF GetReceipt, model, locks, recorder, clients, history, FinishAndRelease,
      TypeOK, Moves
<1>32. ASSUME GetWrite(w)  PROVE TypeOK'
  <2>1. call[w].obs \in Observations
    BY <1>32, <1>c DEF GetWrite, At, CarryPcs, SendPcs, GetPcs
  <2> QED
    BY <1>32, <1>a, <1>c, <1>d, <2>1, ServerConstants
    DEF GetWrite, model, episode, locks, clients, history, Line, TypeOK, Moves
<1>33. ASSUME GetWriteFail(w)  PROVE TypeOK'
  <2>1. call[w].obs \in Observations
    BY <1>33, <1>c DEF GetWriteFail, At, CarryPcs, SendPcs, GetPcs
  <2> QED
    BY <1>33, <1>a, <1>c, <1>d, <2>1, ServerConstants
    DEF GetWriteFail, model, episode, clients, history, Line, FinishAndRelease,
        TypeOK, Moves
<1>34. ASSUME GetReply(w)  PROVE TypeOK'
  <2>1. call[w].obs \in Observations
    BY <1>34, <1>c DEF GetReply, At, CarryPcs, SendPcs, GetPcs
  <2> QED
    BY <1>34, <1>a, <1>c, <1>d, <2>1, ChunkType, ServerConstants
    DEF GetReply, model, episode, recorder, clients, FinishAndRelease, TypeOK,
        Moves
<1> QED  BY <1>d, <1>1, <1>2, <1>3, <1>4, <1>5, <1>6, <1>7, <1>8, <1>9, <1>10,
   <1>11, <1>12, <1>13, <1>14, <1>15, <1>16, <1>17, <1>18, <1>19, <1>20, <1>21,
   <1>22, <1>23, <1>24, <1>25, <1>26, <1>27, <1>28, <1>29, <1>30, <1>31, <1>32,
   <1>33, <1>34
DEF Calls, Step

-----------------------------------------------------------------------------
(* Locks                                                                   *)

\* The actions of the workers preserve the lock discipline.
LEMMA LockStep ==
    ASSUME TypeOK, LockDiscipline, NEW w \in Workers
    PROVE  Calls(w) \/ Cancel(w) \/ Step(w) => LockDiscipline'
<1>a. Free \notin Workers
  BY ServerConstants
<1>1. ASSUME Cancel(w)  PROVE LockDiscipline'
  BY <1>1, <1>a, CancelMoves
  DEF Cancel, Keeps, locks, LockDiscipline, Moves, At, Idle, FreePcs, SendPcs,
      HoldPcs, GetPcs, PolicyPcs
<1>2. ASSUME ReadyCall(w)  PROVE LockDiscipline'
  BY <1>2, <1>a, GotoMoves
  DEF ReadyCall, locks, LockDiscipline, Moves, At, Idle, Pcs, FreePcs, SendPcs,
      HoldPcs, GetPcs, PolicyPcs
<1>3. ASSUME ReadyClear(w)  PROVE LockDiscipline'
  BY <1>3, <1>a, FinishMoves
  DEF ReadyClear, locks, ClearEpisodeState, LockDiscipline, Moves, At, Idle,
      Pcs, FreePcs, SendPcs, HoldPcs, GetPcs, PolicyPcs
<1>4. ASSUME PolicyCall(w)  PROVE LockDiscipline'
  BY <1>4, <1>a, PolicyCallMoves
  DEF PolicyCall, Keeps, locks, LockDiscipline, Moves, At, Idle, FreePcs,
      SendPcs, HoldPcs, GetPcs, PolicyPcs
<1>5. ASSUME SendCall(w)  PROVE LockDiscipline'
  BY <1>5, <1>a, SendCallMoves
  DEF SendCall, Keeps, locks, LockDiscipline, Moves, At, Idle, FreePcs,
      SendPcs, HoldPcs, GetPcs, PolicyPcs
<1>6. ASSUME GetCall(w)  PROVE LockDiscipline'
  BY <1>6, <1>a, GotoMoves
  DEF GetCall, locks, LockDiscipline, Moves, At, Idle, Pcs, FreePcs, SendPcs,
      HoldPcs, GetPcs, PolicyPcs
<1>7. ASSUME AbortUnlocked(w)  PROVE LockDiscipline'
  BY <1>7, <1>a, FinishMoves
  DEF AbortUnlocked, locks, LockDiscipline, Moves, At, Idle, Pcs, FreePcs,
      SendPcs, HoldPcs, GetPcs, PolicyPcs
<1>8. ASSUME AbortLocked(w)  PROVE LockDiscipline'
  BY <1>8, <1>a, FinishMoves
  DEF AbortLocked, FinishAndRelease, LockDiscipline, Moves, At, Idle, Pcs,
      FreePcs, SendPcs, HoldPcs, GetPcs, PolicyPcs
<1>9. ASSUME PolicyLock(w)  PROVE LockDiscipline'
  BY <1>9, <1>a, GotoMoves
  DEF PolicyLock, LockDiscipline, Moves, At, Idle, Pcs, FreePcs, SendPcs,
      HoldPcs, GetPcs, PolicyPcs
<1>10. ASSUME PolicyLoad(w)  PROVE LockDiscipline'
  BY <1>10, <1>a, GotoMoves, FinishMoves
  DEF PolicyLoad, FinishAndRelease, locks, LockDiscipline, Moves, At, Idle,
      Pcs, FreePcs, SendPcs, HoldPcs, GetPcs, PolicyPcs
<1>11. ASSUME PolicyInstall(w)  PROVE LockDiscipline'
  BY <1>11, <1>a, GotoMoves
  DEF PolicyInstall, locks, LockDiscipline, Moves, At, Idle, Pcs, FreePcs,
      SendPcs, HoldPcs, GetPcs, PolicyPcs
<1>12. ASSUME PolicyClear(w)  PROVE LockDiscipline'
  BY <1>12, <1>a, FinishMoves
  DEF PolicyClear, FinishAndRelease, ClearEpisodeState, LockDiscipline, Moves,
      At, Idle, Pcs, FreePcs, SendPcs, HoldPcs, GetPcs, PolicyPcs
<1>13. ASSUME SendReceive(w)  PROVE LockDiscipline'
  BY <1>13, <1>a, GotoMoves, FinishMoves
  DEF SendReceive, locks, LockDiscipline, Moves, At, Idle, Pcs, FreePcs,
      SendPcs, HoldPcs, GetPcs, PolicyPcs
<1>14. ASSUME SendFilter(w)  PROVE LockDiscipline'
  BY <1>14, <1>a, GotoMoves, FinishMoves
  DEF SendFilter, LockDiscipline, Moves, At, Idle, Pcs, FreePcs, SendPcs,
      HoldPcs, GetPcs, PolicyPcs
<1>15. ASSUME SendDrop(w)  PROVE LockDiscipline'
  BY <1>15, <1>a, GotoMoves
  DEF SendDrop, locks, LockDiscipline, Moves, At, Idle, Pcs, FreePcs, SendPcs,
      HoldPcs, GetPcs, PolicyPcs
<1>16. ASSUME SendDropEmpty(w)  PROVE LockDiscipline'
  BY <1>16, <1>a, FinishMoves
  DEF SendDropEmpty, LockDiscipline, Moves, At, Idle, Pcs, FreePcs, SendPcs,
      HoldPcs, GetPcs, PolicyPcs
<1>17. ASSUME SendPut(w)  PROVE LockDiscipline'
  BY <1>17, <1>a, FinishMoves
  DEF SendPut, LockDiscipline, Moves, At, Idle, Pcs, FreePcs, SendPcs, HoldPcs,
      GetPcs, PolicyPcs
<1>18. ASSUME GetLock(w)  PROVE LockDiscipline'
  BY <1>18, <1>a, GetLockMoves
  DEF GetLock, Keeps, LockDiscipline, Moves, At, Idle, FreePcs, SendPcs,
      HoldPcs, GetPcs, PolicyPcs
<1>19. ASSUME GetPoll(w)  PROVE LockDiscipline'
  BY <1>19, <1>a, GetPollMoves
  DEF GetPoll, Keeps, locks, LockDiscipline, Moves, At, Idle, FreePcs, SendPcs,
      HoldPcs, GetPcs, PolicyPcs
<1>20. ASSUME GetTake(w)  PROVE LockDiscipline'
  BY <1>20, <1>a, GetTakeMoves
  DEF GetTake, Keeps, locks, LockDiscipline, Moves, At, Idle, FreePcs, SendPcs,
      HoldPcs, GetPcs, PolicyPcs
<1>21. ASSUME GetEmpty(w)  PROVE LockDiscipline'
  BY <1>21, <1>a, GotoMoves
  DEF GetEmpty, locks, LockDiscipline, Moves, At, Idle, Pcs, FreePcs, SendPcs,
      HoldPcs, GetPcs, PolicyPcs
<1>22. ASSUME GetTimeout(w)  PROVE LockDiscipline'
  BY <1>22, <1>a, FinishMoves
  DEF GetTimeout, FinishAndRelease, LockDiscipline, Moves, At, Idle, Pcs,
      FreePcs, SendPcs, HoldPcs, GetPcs, PolicyPcs
<1>23. ASSUME GetRestore(w)  PROVE LockDiscipline'
  BY <1>23, <1>a, FinishMoves
  DEF GetRestore, FinishAndRelease, LockDiscipline, Moves, At, Idle, Pcs,
      FreePcs, SendPcs, HoldPcs, GetPcs, PolicyPcs
<1>24. ASSUME GetTaken(w)  PROVE LockDiscipline'
  BY <1>24, <1>a, GotoMoves
  DEF GetTaken, locks, LockDiscipline, Moves, At, Idle, Pcs, FreePcs, SendPcs,
      HoldPcs, GetPcs, PolicyPcs
<1>25. ASSUME GetRecheck(w)  PROVE LockDiscipline'
  BY <1>25, <1>a, GotoMoves
  DEF GetRecheck, locks, LockDiscipline, Moves, At, Idle, Pcs, FreePcs,
      SendPcs, HoldPcs, GetPcs, PolicyPcs
<1>26. ASSUME GetMark(w)  PROVE LockDiscipline'
  BY <1>26, <1>a, GotoMoves
  DEF GetMark, locks, LockDiscipline, Moves, At, Idle, Pcs, FreePcs, SendPcs,
      HoldPcs, GetPcs, PolicyPcs
<1>27. ASSUME GetPrepare(w)  PROVE LockDiscipline'
  BY <1>27, <1>a, GotoMoves
  DEF GetPrepare, locks, LockDiscipline, Moves, At, Idle, Pcs, FreePcs,
      SendPcs, HoldPcs, GetPcs, PolicyPcs
<1>28. ASSUME GetInfer(w)  PROVE LockDiscipline'
  BY <1>28, <1>a, GetInferMoves
  DEF GetInfer, Keeps, locks, DrawSeed, LockDiscipline, Moves, At, Idle,
      FreePcs, SendPcs, HoldPcs, GetPcs, PolicyPcs
<1>29. ASSUME GetFail(w)  PROVE LockDiscipline'
  BY <1>29, <1>a, FinishMoves
  DEF GetFail, FinishAndRelease, DrawSeed, LockDiscipline, Moves, At, Idle,
      Pcs, FreePcs, SendPcs, HoldPcs, GetPcs, PolicyPcs
<1>30. ASSUME GetCheck(w)  PROVE LockDiscipline'
  BY <1>30, <1>a, GotoMoves, FinishMoves
  DEF GetCheck, FinishAndRelease, locks, LockDiscipline, Moves, At, Idle, Pcs,
      FreePcs, SendPcs, HoldPcs, GetPcs, PolicyPcs
<1>31. ASSUME GetReceipt(w)  PROVE LockDiscipline'
  BY <1>31, <1>a, GotoMoves, FinishMoves
  DEF GetReceipt, FinishAndRelease, locks, LockDiscipline, Moves, At, Idle,
      Pcs, FreePcs, SendPcs, HoldPcs, GetPcs, PolicyPcs
<1>32. ASSUME GetWrite(w)  PROVE LockDiscipline'
  BY <1>32, <1>a, GotoMoves
  DEF GetWrite, locks, LockDiscipline, Moves, At, Idle, Pcs, FreePcs, SendPcs,
      HoldPcs, GetPcs, PolicyPcs
<1>33. ASSUME GetWriteFail(w)  PROVE LockDiscipline'
  BY <1>33, <1>a, FinishMoves
  DEF GetWriteFail, FinishAndRelease, LockDiscipline, Moves, At, Idle, Pcs,
      FreePcs, SendPcs, HoldPcs, GetPcs, PolicyPcs
<1>34. ASSUME GetReply(w)  PROVE LockDiscipline'
  BY <1>34, <1>a, FinishMoves
  DEF GetReply, FinishAndRelease, LockDiscipline, Moves, At, Idle, Pcs,
      FreePcs, SendPcs, HoldPcs, GetPcs, PolicyPcs
<1> QED  BY <1>1, <1>2, <1>3, <1>4, <1>5, <1>6, <1>7, <1>8, <1>9, <1>10, <1>11,
   <1>12, <1>13, <1>14, <1>15, <1>16, <1>17, <1>18, <1>19, <1>20, <1>21, <1>22,
   <1>23, <1>24, <1>25, <1>26, <1>27, <1>28, <1>29, <1>30, <1>31, <1>32, <1>33,
   <1>34
DEF Calls, Step

-----------------------------------------------------------------------------
(* Where an observation is                                                 *)

PlaceInv ==
    /\ \A v, w \in Workers, o \in Observations :
          call[v].obs = o /\ call[w].obs = o => v = w
    /\ \A w \in Workers, g \in Generations, o \in Observations :
          ~(queue[g] = o /\ call[w].obs = o)
    /\ \A g, h \in Generations, o \in Observations :
          queue[g] = o /\ queue[h] = o => g = h
    /\ \A d \in delivered :
          /\ \A g \in Generations : queue[g] # d.obs
          /\ \A w \in Workers : call[w].obs # d.obs
    /\ \A o \in unsent :
          /\ \A g \in Generations : queue[g] # o
          /\ \A w \in Workers : call[w].obs # o
          /\ \A d \in delivered : d.obs # o

\* No observation appears anywhere: at most one leaves w's hands.
LEMMA PlaceQuiet ==
    ASSUME PlaceInv, NEW w \in Workers, Moves(w),
           call'[w].obs \in {call[w].obs, NoObs},
           UNCHANGED <<queue, delivered, unsent>>, TypeOK
    PROVE  PlaceInv'
<1>1. /\ \A o \in Observations : o # NoObs
      /\ \A v \in Workers, o \in Observations :
            call'[v].obs = o => call[v].obs = o
  BY ServerConstants DEF Moves
<1>2. \A d \in delivered : d.obs \in Observations
  BY DEF TypeOK
<1>3. \A o \in unsent : o \in Observations
  BY DEF TypeOK
<1> QED  BY <1>1, <1>2, <1>3 DEF PlaceInv

\* The actions of the workers keep each observation in one place.
LEMMA PlaceStep ==
    ASSUME TypeInv, PlaceInv, LockDiscipline, NEW w \in Workers
    PROVE  Calls(w) \/ Cancel(w) \/ Step(w) => PlaceInv'
<1>a. /\ TypeOK
      /\ \A o \in Observations : o # NoObs
      /\ Idle.obs = NoObs
  BY ServerConstants DEF Idle, TypeInv
<1>b. /\ \A d \in delivered : d.obs \in Observations
      /\ \A o \in unsent : o \in Observations
      /\ generation \in Generations
      /\ call[w].source \in Generations
  BY <1>a DEF TypeOK, Calling
<1>1. CASE \/ Cancel(w) \/ ReadyCall(w) \/ ReadyClear(w) \/ PolicyCall(w)
           \/ GetCall(w) \/ AbortUnlocked(w) \/ AbortLocked(w)
           \/ PolicyLock(w) \/ PolicyLoad(w) \/ PolicyInstall(w)
           \/ PolicyClear(w) \/ SendReceive(w) \/ SendFilter(w)
           \/ SendDropEmpty(w) \/ GetLock(w) \/ GetPoll(w) \/ GetEmpty(w)
           \/ GetTimeout(w) \/ GetTaken(w) \/ GetRecheck(w) \/ GetMark(w)
           \/ GetPrepare(w) \/ GetInfer(w) \/ GetFail(w) \/ GetCheck(w)
           \/ GetReceipt(w) \/ GetWrite(w) \/ GetWriteFail(w)
  <2>1. Moves(w)
    BY <1>a, <1>1, ActorMoves DEF Calls, Step
  <2>2. call'[w].obs \in {call[w].obs, NoObs}
    <3>1. CASE \/ Cancel(w) \/ PolicyCall(w) \/ GetLock(w) \/ GetPoll(w)
               \/ GetInfer(w)
      BY <1>a, <3>1, CancelMoves, PolicyCallMoves, GetLockMoves, GetPollMoves,
         GetInferMoves
      DEF Keeps
    <3>2. CASE (\E label \in Pcs : Goto(w, label)) \/ Finish(w)
      BY <1>a, <3>2, GotoMoves, FinishMoves
    <3> QED
      BY <1>1, <3>1, <3>2
      DEF ReadyCall, ReadyClear, GetCall, AbortUnlocked, AbortLocked,
          PolicyLock, PolicyLoad, PolicyInstall, PolicyClear, SendReceive,
          SendFilter, SendDropEmpty, GetEmpty, GetTimeout, GetTaken,
          GetRecheck, GetMark, GetPrepare, GetFail, GetCheck, GetReceipt,
          GetWrite, GetWriteFail, FinishAndRelease, Pcs, FreePcs, SendPcs,
          HoldPcs, GetPcs, PolicyPcs
  <2>3. UNCHANGED <<queue, delivered, unsent>>
    BY <1>1
    DEF Cancel, ReadyCall, ReadyClear, PolicyCall, GetCall, AbortUnlocked,
        AbortLocked, PolicyLock, PolicyLoad, PolicyInstall, PolicyClear,
        SendReceive, SendFilter, SendDropEmpty, GetLock, GetPoll, GetEmpty,
        GetTimeout, GetTaken, GetRecheck, GetMark, GetPrepare, GetInfer,
        GetFail, GetCheck, GetReceipt, GetWrite, GetWriteFail, clients, history
  <2> QED  BY <1>a, <2>1, <2>2, <2>3, PlaceQuiet
<1>2. ASSUME SendCall(w)  PROVE PlaceInv'
  <2>1. /\ Moves(w) /\ call'[w].obs \in unsent
        /\ unsent' = unsent \ {call'[w].obs}
    BY <1>2, <1>a, SendCallMoves
  <2>2. UNCHANGED <<queue, delivered>>
    BY <1>2 DEF SendCall, history
  <2> QED  BY <1>b, <2>1, <2>2 DEF PlaceInv, Moves
<1>3. ASSUME SendDrop(w)  PROVE PlaceInv'
  <2>1. Moves(w) /\ call'[w].obs = call[w].obs
    BY <1>3, <1>a, GotoMoves DEF SendDrop, Pcs, SendPcs
  <2>2. /\ queue' = [queue EXCEPT ![generation] = NoObs]
        /\ UNCHANGED <<delivered, unsent>>
    BY <1>3 DEF SendDrop, history, clients
  <2>3. \A g \in Generations : queue'[g] \in {queue[g], NoObs}
    BY <1>a, <1>b, <2>2 DEF TypeOK
  <2> QED  BY <1>a, <1>b, <2>1, <2>2, <2>3 DEF PlaceInv, Moves
<1>4. ASSUME SendPut(w)  PROVE PlaceInv'
  <2>1. Moves(w) /\ call'[w] = Idle
    BY <1>4, <1>a, FinishMoves DEF SendPut
  <2>2. /\ queue' = [queue EXCEPT ![generation] = call[w].obs]
        /\ UNCHANGED <<delivered, unsent>>
    BY <1>4 DEF SendPut, clients
  <2>3. \A g \in Generations :
           queue'[g] = IF g = generation THEN call[w].obs ELSE queue[g]
    BY <1>a, <1>b, <2>2 DEF TypeOK
  <2>4. call[w].obs \in Observations
    BY <1>4 DEF SendPut, At, TypeInv, HandsFull, CarryPcs, SendPcs
  <2> QED  BY <1>a, <1>b, <2>1, <2>2, <2>3, <2>4 DEF PlaceInv, Moves
<1>5. ASSUME GetTake(w)  PROVE PlaceInv'
  <2>1. /\ Moves(w)
        /\ call'[w].obs = queue[call[w].source]
        /\ call'[w].obs \in Observations
    BY <1>5, <1>a, GetTakeMoves
  <2>2. /\ queue' = [queue EXCEPT ![call[w].source] = NoObs]
        /\ UNCHANGED <<delivered, unsent>>
    BY <1>5 DEF GetTake, history, clients
  <2>3. \A g \in Generations :
           queue'[g] = IF g = call[w].source THEN NoObs ELSE queue[g]
    BY <1>a, <1>b, <2>2 DEF TypeOK
  <2> QED  BY <1>a, <1>b, <2>1, <2>2, <2>3 DEF PlaceInv, Moves
<1>6. ASSUME GetRestore(w)  PROVE PlaceInv'
  <2>1. Moves(w) /\ call'[w] = Idle
    BY <1>6, <1>a, FinishMoves DEF GetRestore, FinishAndRelease
  <2>2. UNCHANGED <<delivered, unsent>>
    BY <1>6 DEF GetRestore, history, clients
  <2>3. \/ queue' = queue
        \/ queue' = [queue EXCEPT ![call[w].source] = call[w].obs]
    BY <1>6 DEF GetRestore
  <2>4. CASE queue' = queue
    BY <1>a, <2>1, <2>2, <2>4, PlaceQuiet
  <2>5. CASE queue' = [queue EXCEPT ![call[w].source] = call[w].obs]
    <3>1. \A g \in Generations :
             queue'[g] = IF g = call[w].source THEN call[w].obs ELSE queue[g]
      BY <1>a, <1>b, <2>5 DEF TypeOK
    <3> QED  BY <1>a, <1>b, <2>1, <2>2, <3>1 DEF PlaceInv, Moves
  <2> QED  BY <2>3, <2>4, <2>5
<1>7. ASSUME GetReply(w)  PROVE PlaceInv'
  <2>1. Moves(w) /\ call'[w] = Idle
    BY <1>7, <1>a, FinishMoves DEF GetReply, FinishAndRelease
  <2>2. UNCHANGED <<queue, unsent>>
    BY <1>7 DEF GetReply, clients
  <2>3. \A d \in delivered' : d \in delivered \/ d.obs = call[w].obs
    BY <1>7 DEF GetReply, Chunk
  <2>4. call[w].obs \in Observations
    BY <1>7 DEF GetReply, At, TypeInv, HandsFull, CarryPcs, GetPcs
  <2> QED  BY <1>a, <1>b, <2>1, <2>2, <2>3, <2>4 DEF PlaceInv, Moves
<1> QED  BY <1>1, <1>2, <1>3, <1>4, <1>5, <1>6, <1>7 DEF Calls, Step

-----------------------------------------------------------------------------
(* Sessions                                                                *)

InHandPcs == GetPcs \ {"get.poll", "get.take"}

QueuedInSession ==
    \A g \in Generations : queue[g] # NoObs =>
        /\ g <= generation
        /\ accepted[queue[g]].session = g

\* Between the installation of a policy and the clearing that follows it, the
\* current queue may hold observations of the policy before.
QueuedForPolicy ==
    /\ queue[generation] # NoObs
    /\ \A w \in Workers : call[w].pc # "policy.clear"
    => accepted[queue[generation]].policy = policy

\* captured <= source <= generation: a queue that is the current one when the
\* session test succeeds was the current one all along.
GetInSession(w) ==
    /\ call[w].pc \in GetPcs => call[w].captured <= generation
    /\ call[w].pc \in GetPcs \ {"get.poll"} =>
          call[w].captured <= call[w].source /\ call[w].source <= generation
    /\ call[w].pc \in InHandPcs =>
          /\ accepted[call[w].obs].session = call[w].source
          /\ call[w].source = generation =>
                accepted[call[w].obs].policy = policy
    /\ call[w].pc \in {"get.check"} \cup CommittedPcs => call[w].wanted = policy
    /\ call[w].pc \in CommittedPcs =>
          /\ call[w].source = call[w].captured
          /\ accepted[call[w].obs].policy = call[w].wanted

SessionInv ==
    /\ QueuedInSession
    /\ QueuedForPolicy
    /\ \A w \in Workers : GetInSession(w)
    /\ DeliveredFromOwnSession

\* A step of w that touches no queue, policy or session.
LEMMA SessionQuiet ==
    ASSUME SessionInv, NEW w \in Workers, Moves(w),
           UNCHANGED <<policy, generation, queue, accepted, delivered>>,
           call[w].pc = "policy.clear" => call'[w].pc = "policy.clear",
           GetInSession(w)'
    PROVE  SessionInv'
<1>1. QueuedInSession' /\ DeliveredFromOwnSession'
  BY DEF SessionInv, QueuedInSession, DeliveredFromOwnSession
<1>2. QueuedForPolicy'
  BY DEF SessionInv, QueuedForPolicy, Moves
<1>3. \A v \in Workers : GetInSession(v)'
  BY DEF SessionInv, GetInSession, Moves
<1> QED  BY <1>1, <1>2, <1>3 DEF SessionInv

\* The end of a session: nothing was queued yet in the next one.
LEMMA SessionEnds ==
    ASSUME SessionInv, TypeOK, generation' = generation + 1,
           generation' \in Generations,
           UNCHANGED <<policy, queue, accepted, delivered>>,
           \A v \in Workers :
              \/ call'[v].pc \notin GetPcs
              \/ /\ call'[v].pc = call[v].pc
                 /\ call'[v].obs = call[v].obs
                 /\ call'[v].captured = call[v].captured
                 /\ call'[v].source = call[v].source
                 /\ call'[v].wanted = call[v].wanted
    PROVE  SessionInv'
<1>1. generation \in Nat /\ Generations \subseteq Nat
  BY ServerConstants DEF TypeOK, Generations
<1>2. \A g \in Generations : g <= generation => g <= generation'
  BY <1>1
<1>3. QueuedInSession' /\ DeliveredFromOwnSession'
  BY <1>2 DEF SessionInv, QueuedInSession, DeliveredFromOwnSession
<1>4. QueuedForPolicy'
  BY <1>1 DEF SessionInv, QueuedInSession, QueuedForPolicy
<1>5. ASSUME NEW v \in Workers  PROVE GetInSession(v)'
  <2>1. call[v].source \in Generations /\ call[v].captured \in Generations
    BY DEF TypeOK, Calling
  <2>2. CASE call'[v].pc \notin GetPcs
    BY <2>2 DEF GetInSession, InHandPcs, CommittedPcs, GetPcs
  <2>3. CASE call'[v].pc \in GetPcs
    <3>1. GetInSession(v)  BY DEF SessionInv
    <3>2. call[v].pc \in GetPcs \ {"get.poll"} => call[v].source # generation'
      BY <3>1, <2>1, <1>1 DEF GetInSession
    <3> QED  BY <2>1, <2>3, <3>1, <3>2, <1>2
             DEF GetInSession, InHandPcs, CommittedPcs, GetPcs
  <2> QED  BY <2>2, <2>3
<1> QED  BY <1>3, <1>4, <1>5 DEF SessionInv

\* The actions of the workers keep queues, hands and answers in their sessions.
LEMMA SessionStep ==
    ASSUME TypeInv, PlaceInv, LockDiscipline, SessionInv, NEW w \in Workers,
           TypeInv'
    PROVE  Calls(w) \/ Cancel(w) \/ Step(w) => SessionInv'
<1>a. /\ TypeOK
      /\ \A o \in Observations : o # NoObs
      /\ Free \notin Workers
  BY ServerConstants DEF TypeInv
<1>b. /\ \A d \in delivered : d.obs \in Observations
      /\ generation \in Generations /\ Generations \subseteq Nat
      /\ call[w].source \in Generations /\ call[w].captured \in Generations
  BY <1>a, ServerConstants DEF TypeOK, Calling, Generations
<1>c. GetInSession(w)
  BY DEF SessionInv
<1>d. call[w].pc \in GetPcs => \A v \in Workers : call[v].pc # "policy.clear"
  BY <1>a DEF LockDiscipline, HoldPcs, PolicyPcs, GetPcs
<1>e. call[w].pc \in CarryPcs => call[w].obs \in Observations
  BY DEF TypeInv, HandsFull
<1>f. /\ \A g \in Generations : queue[g] # NoObs => queue[g] \in Observations
      /\ \A v \in Workers : call[v].pc \in InHandPcs => call[v].obs \in Observations
  BY <1>a DEF TypeOK, TypeInv, HandsFull, CarryPcs, InHandPcs
<1>g. \A o \in Observations : /\ accepted[o].session \in Generations
                              /\ accepted[o] = [session |-> accepted[o].session,
                                                policy |-> accepted[o].policy]
  BY <1>a DEF TypeOK
<1>1. CASE \/ ReadyCall(w) \/ PolicyCall(w) \/ SendCall(w) \/ GetCall(w)
           \/ AbortUnlocked(w) \/ AbortLocked(w) \/ PolicyLock(w)
           \/ PolicyLoad(w) \/ SendReceive(w) \/ SendFilter(w)
           \/ SendDropEmpty(w) \/ GetTimeout(w) \/ GetFail(w)
           \/ GetWriteFail(w)
  <2>1. Moves(w)
    BY <1>a, <1>1, ActorMoves DEF Calls, Step
  <2>2. UNCHANGED <<policy, generation, queue, accepted, delivered>>
    BY <1>1
    DEF ReadyCall, PolicyCall, SendCall, GetCall, AbortUnlocked, AbortLocked,
        PolicyLock, PolicyLoad, SendReceive, SendFilter, SendDropEmpty,
        GetTimeout, GetFail, GetWriteFail, DrawSeed, model, episode, history
  <2>3. call[w].pc # "policy.clear"
    BY <1>1
    DEF ReadyCall, PolicyCall, SendCall, GetCall, AbortUnlocked, AbortLocked,
        PolicyLock, PolicyLoad, SendReceive, SendFilter, SendDropEmpty,
        GetTimeout, GetFail, GetWriteFail, At
  <2>4. call'[w].pc \notin GetPcs
    <3>1. CASE \/ PolicyCall(w) \/ SendCall(w)
      BY <1>a, <3>1, PolicyCallMoves, SendCallMoves DEF GetPcs
    <3>2. CASE (\E label \in Pcs \ GetPcs : Goto(w, label)) \/ Finish(w)
      BY <1>a, <3>2, GotoMoves, FinishMoves DEF Idle, GetPcs
    <3> QED
      BY <1>1, <3>1, <3>2
      DEF ReadyCall, GetCall, AbortUnlocked, AbortLocked, PolicyLock,
          PolicyLoad, SendReceive, SendFilter, SendDropEmpty, GetTimeout,
          GetFail, GetWriteFail, FinishAndRelease, Pcs, FreePcs, SendPcs,
          HoldPcs, GetPcs, PolicyPcs
  <2>5. GetInSession(w)'
    BY <2>4 DEF GetInSession, InHandPcs, CommittedPcs, GetPcs
  <2> QED  BY <2>1, <2>2, <2>3, <2>5, SessionQuiet
<1>2. ASSUME Cancel(w)  PROVE SessionInv'
  <2>1. UNCHANGED <<policy, generation, queue, accepted, delivered>>
    BY <1>2 DEF Cancel, model, episode, history
  <2>2. GetInSession(w)'
       /\ (call[w].pc = "policy.clear" => call'[w].pc = "policy.clear")
    BY <1>2, <1>a, <1>b, <1>c, <2>1, CancelMoves
   
    DEF Cancel, Keeps, At, GetInSession, InHandPcs, CommittedPcs, Idle,
        FreePcs, SendPcs, HoldPcs, GetPcs, PolicyPcs
  <2> QED  BY <1>2, <1>a, <2>1, <2>2, ActorMoves, SessionQuiet DEF Calls, Step
<1>3. ASSUME ReadyClear(w)  PROVE SessionInv'
  <2>1. Moves(w) /\ call'[w] = Idle
    BY <1>3, <1>a, FinishMoves DEF ReadyClear
  <2>2. /\ generation' = generation + 1
        /\ UNCHANGED <<policy, queue, accepted, delivered>>
    BY <1>3 DEF ReadyClear, ClearEpisodeState, model, history
  <2>3. generation' \in Generations
    BY DEF TypeInv, TypeOK, Generations
  <2> QED  BY <1>a, <2>1, <2>2, <2>3, SessionEnds DEF Moves, Idle, GetPcs
<1>4. ASSUME PolicyInstall(w)  PROVE SessionInv'
  <2>1. Moves(w) /\ call'[w].pc = "policy.clear"
    BY <1>4, <1>a, GotoMoves DEF PolicyInstall, Pcs, HoldPcs, PolicyPcs
  <2>2. UNCHANGED <<generation, queue, accepted, delivered>>
    BY <1>4 DEF PolicyInstall, episode, history
  <2>3. \A v \in Workers : call'[v].pc \notin GetPcs
    <3>1. inferenceLock = w
      BY <1>4 DEF PolicyInstall, At, LockDiscipline, HoldPcs, PolicyPcs
    <3>2. \A v \in Workers \ {w} : call[v].pc \notin GetPcs
      BY <3>1 DEF LockDiscipline, HoldPcs
    <3> QED  BY <2>1, <3>2 DEF Moves, GetPcs
  <2>4. \A v \in Workers : GetInSession(v)'
    BY <2>3 DEF GetInSession, GetPcs, InHandPcs, CommittedPcs
  <2>5. QueuedForPolicy'
    BY <2>1 DEF QueuedForPolicy
  <2>6. QueuedInSession' /\ DeliveredFromOwnSession'
    BY <2>2 DEF SessionInv, QueuedInSession, DeliveredFromOwnSession
  <2> QED  BY <2>4, <2>5, <2>6 DEF SessionInv
<1>5. ASSUME PolicyClear(w)  PROVE SessionInv'
  <2>1. Moves(w) /\ call'[w] = Idle
    BY <1>5, <1>a, FinishMoves DEF PolicyClear, FinishAndRelease
  <2>2. /\ generation' = generation + 1
        /\ UNCHANGED <<policy, queue, accepted, delivered>>
    BY <1>5 DEF PolicyClear, ClearEpisodeState, model, history
  <2>3. generation' \in Generations
    BY DEF TypeInv, TypeOK, Generations
  <2> QED  BY <1>a, <2>1, <2>2, <2>3, SessionEnds DEF Moves, Idle, GetPcs
<1>6. ASSUME SendDrop(w)  PROVE SessionInv'
  <2>1. Moves(w) /\ call'[w].pc = "send.put"
    BY <1>6, <1>a, GotoMoves DEF SendDrop, Pcs, SendPcs
  <2>2. /\ queue' = [queue EXCEPT ![generation] = NoObs]
        /\ UNCHANGED <<policy, generation, accepted, delivered>>
    BY <1>6 DEF SendDrop, history, model
  <2>3. \A g \in Generations :
           queue'[g] = IF g = generation THEN NoObs ELSE queue[g]
    BY <1>a, <1>b, <2>2 DEF TypeOK
  <2>4. QueuedInSession' /\ DeliveredFromOwnSession'
    BY <2>2, <2>3 DEF SessionInv, QueuedInSession, DeliveredFromOwnSession
  <2>5. QueuedForPolicy'
    BY <1>b, <2>2, <2>3 DEF QueuedForPolicy
  <2>6. \A v \in Workers : GetInSession(v)'
    BY <2>1, <2>2
    DEF SessionInv, GetInSession, Moves, GetPcs, InHandPcs, CommittedPcs
  <2> QED  BY <2>4, <2>5, <2>6 DEF SessionInv
<1>7. ASSUME SendPut(w)  PROVE SessionInv'
  <2> DEFINE o == call[w].obs
  <2>1. Moves(w) /\ call'[w] = Idle
    BY <1>7, <1>a, FinishMoves DEF SendPut
  <2>2. /\ queue' = [queue EXCEPT ![generation] = o]
        /\ accepted' = [accepted EXCEPT
                          ![o] = [session |-> generation, policy |-> policy]]
        /\ UNCHANGED <<policy, generation, delivered>>
    BY <1>7 DEF SendPut, model
  <2>3. \A g \in Generations :
           queue'[g] = IF g = generation THEN o ELSE queue[g]
    BY <1>a, <1>b, <2>2 DEF TypeOK
  <2>4. o \in Observations
    BY <1>7, <1>e DEF SendPut, At, CarryPcs, SendPcs
  <2>5. \A p \in Observations :
           accepted'[p] = IF p = o THEN [session |-> generation, policy |-> policy]
                          ELSE accepted[p]
    BY <1>a, <2>2, <2>4 DEF TypeOK
  <2>6. QueuedInSession'
    BY <1>b, <1>f, <2>2, <2>3, <2>4, <2>5
    DEF SessionInv, QueuedInSession, PlaceInv
  <2>7. DeliveredFromOwnSession'
    <3>1. \A d \in delivered : accepted'[d.obs] = accepted[d.obs]
      BY <1>b, <2>5 DEF PlaceInv
    <3> QED  BY <2>2, <3>1 DEF SessionInv, DeliveredFromOwnSession
  <2>8. QueuedForPolicy'
    BY <1>b, <2>2, <2>3, <2>4, <2>5 DEF QueuedForPolicy
  <2>9. ASSUME NEW v \in Workers  PROVE GetInSession(v)'
    <3>1. CASE v = w
      BY <2>1, <3>1 DEF GetInSession, Idle, GetPcs, InHandPcs, CommittedPcs
    <3>2. CASE v # w
      <4>1. call'[v] = call[v] /\ GetInSession(v)
        BY <2>1, <3>2 DEF Moves, SessionInv
      <4>2. call[v].pc \in InHandPcs =>
               accepted'[call[v].obs] = accepted[call[v].obs]
        BY <1>f, <2>4, <2>5, <3>2 DEF PlaceInv
      <4> QED  BY <2>2, <4>1, <4>2
               DEF GetInSession, InHandPcs, CommittedPcs, GetPcs
    <3> QED  BY <3>1, <3>2
  <2> QED  BY <2>6, <2>7, <2>8, <2>9 DEF SessionInv
<1>8. ASSUME GetLock(w)  PROVE SessionInv'
  <2>1. UNCHANGED <<policy, generation, queue, accepted, delivered>>
    BY <1>8 DEF GetLock, model, episode, history
  <2>2. GetInSession(w)'
       /\ (call[w].pc = "policy.clear" => call'[w].pc = "policy.clear")
    BY <1>8, <1>a, <1>b, <1>c, <2>1, GetLockMoves
   
    DEF GetLock, Keeps, At, GetInSession, InHandPcs, CommittedPcs, Idle,
        FreePcs, SendPcs, HoldPcs, GetPcs, PolicyPcs
  <2> QED  BY <1>8, <1>a, <2>1, <2>2, ActorMoves, SessionQuiet DEF Calls, Step
<1>9. ASSUME GetPoll(w)  PROVE SessionInv'
  <2>1. /\ Moves(w)
        /\ call'[w].pc = "get.take"
        /\ call'[w].source = generation
        /\ call'[w].captured = call[w].captured
    BY <1>9, <1>a, GetPollMoves DEF Keeps
  <2>2. UNCHANGED <<policy, generation, queue, accepted, delivered>>
    BY <1>9 DEF GetPoll, model, episode, history
  <2>3. call[w].pc = "get.poll"
    BY <1>9 DEF GetPoll, At
  <2>4. call[w].captured <= generation /\ generation <= generation
    BY <1>b, <1>c, <2>3 DEF GetInSession, GetPcs
  <2>5. GetInSession(w)'
    BY <2>1, <2>2, <2>4 DEF GetInSession, InHandPcs, CommittedPcs, GetPcs
  <2> QED  BY <2>1, <2>2, <2>3, <2>5, SessionQuiet
<1>10. ASSUME GetTake(w)  PROVE SessionInv'
  <2>1. /\ Moves(w)
        /\ call'[w].pc = "get.taken"
        /\ call'[w].obs = queue[call[w].source]
        /\ call'[w].obs \in Observations
        /\ call'[w].captured = call[w].captured
        /\ call'[w].source = call[w].source
    BY <1>10, <1>a, GetTakeMoves DEF Keeps
  <2>2. /\ queue' = [queue EXCEPT ![call[w].source] = NoObs]
        /\ UNCHANGED <<policy, generation, accepted, delivered>>
    BY <1>10 DEF GetTake, history, model, episode
  <2>3. \A g \in Generations :
           queue'[g] = IF g = call[w].source THEN NoObs ELSE queue[g]
    BY <1>a, <1>b, <2>2 DEF TypeOK
  <2>4. QueuedInSession' /\ DeliveredFromOwnSession'
    BY <2>2, <2>3 DEF SessionInv, QueuedInSession, DeliveredFromOwnSession
  <2>5. QueuedForPolicy'
    BY <1>b, <1>d, <1>10, <2>2, <2>3
    DEF SessionInv, QueuedForPolicy, GetTake, At, GetPcs
  <2>6. GetInSession(w)'
    <3>1. call[w].pc = "get.take" /\ queue[call[w].source] # NoObs
      BY <1>10 DEF GetTake, At
    <3>2. accepted[queue[call[w].source]].session = call[w].source
      BY <1>b, <3>1 DEF SessionInv, QueuedInSession
    <3>3. call[w].source = generation =>
             accepted[queue[call[w].source]].policy = policy
      BY <1>d, <3>1 DEF SessionInv, QueuedForPolicy, GetPcs
    <3> QED  BY <1>c, <2>1, <2>2, <3>1, <3>2, <3>3
             DEF GetInSession, InHandPcs, CommittedPcs, GetPcs
  <2>7. \A v \in Workers : GetInSession(v)'
    BY <2>1, <2>2, <2>6 DEF SessionInv, GetInSession, Moves
  <2> QED  BY <2>4, <2>5, <2>7 DEF SessionInv
<1>11. ASSUME GetEmpty(w)  PROVE SessionInv'
  <2>1. UNCHANGED <<policy, generation, queue, accepted, delivered>>
    BY <1>11 DEF GetEmpty, model, episode, history
  <2>2. GetInSession(w)'
       /\ (call[w].pc = "policy.clear" => call'[w].pc = "policy.clear")
    BY <1>11, <1>a, <1>b, <1>c, <2>1, GotoMoves
   
    DEF GetEmpty, At, GetInSession, InHandPcs, CommittedPcs, Idle, Pcs,
        FreePcs, SendPcs, HoldPcs, GetPcs, PolicyPcs
  <2> QED  BY <1>11, <1>a, <2>1, <2>2, ActorMoves, SessionQuiet DEF Calls, Step
<1>12. ASSUME GetRestore(w)  PROVE SessionInv'
  <2>1. Moves(w) /\ call'[w] = Idle
    BY <1>12, <1>a, FinishMoves DEF GetRestore, FinishAndRelease
  <2>2. UNCHANGED <<policy, generation, accepted, delivered>>
    BY <1>12 DEF GetRestore, history, model, episode
  <2>3. GetInSession(w)'
    BY <2>1 DEF GetInSession, Idle, GetPcs, InHandPcs, CommittedPcs
  <2>4. CASE queue' = queue
    BY <1>12, <2>1, <2>2, <2>3, <2>4, SessionQuiet DEF GetRestore, At
  <2>5. CASE queue' # queue
    <3>1. /\ call[w].pc = "get.taken" /\ call[w].source = generation
          /\ queue' = [queue EXCEPT ![generation] = call[w].obs]
      BY <1>12, <2>5 DEF GetRestore, CanRestore, At
    <3>2. \A g \in Generations :
             queue'[g] = IF g = generation THEN call[w].obs ELSE queue[g]
      BY <1>a, <1>b, <3>1 DEF TypeOK
    <3>3. /\ accepted[call[w].obs].session = generation
          /\ accepted[call[w].obs].policy = policy
      BY <1>c, <3>1 DEF GetInSession, InHandPcs, GetPcs
    <3>4. QueuedInSession' /\ DeliveredFromOwnSession'
      BY <1>b, <2>2, <3>2, <3>3
      DEF SessionInv, QueuedInSession, DeliveredFromOwnSession
    <3>5. QueuedForPolicy'
      BY <1>b, <2>2, <3>2, <3>3 DEF QueuedForPolicy
    <3>6. \A v \in Workers : GetInSession(v)'
      BY <2>1, <2>2, <2>3 DEF SessionInv, GetInSession, Moves
    <3> QED  BY <3>4, <3>5, <3>6 DEF SessionInv
  <2> QED  BY <2>4, <2>5
<1>13. ASSUME GetTaken(w)  PROVE SessionInv'
  <2>1. UNCHANGED <<policy, generation, queue, accepted, delivered>>
    BY <1>13 DEF GetTaken, model, episode, history
  <2>2. GetInSession(w)'
       /\ (call[w].pc = "policy.clear" => call'[w].pc = "policy.clear")
    BY <1>13, <1>a, <1>b, <1>c, <2>1, GotoMoves
   
    DEF GetTaken, At, GetInSession, InHandPcs, CommittedPcs, Idle, Pcs,
        FreePcs, SendPcs, HoldPcs, GetPcs, PolicyPcs
  <2> QED  BY <1>13, <1>a, <2>1, <2>2, ActorMoves, SessionQuiet DEF Calls, Step
<1>14. ASSUME GetRecheck(w)  PROVE SessionInv'
  <2>1. UNCHANGED <<policy, generation, queue, accepted, delivered>>
    BY <1>14 DEF GetRecheck, model, episode, history
  <2>2. GetInSession(w)'
       /\ (call[w].pc = "policy.clear" => call'[w].pc = "policy.clear")
    BY <1>14, <1>a, <1>b, <1>c, <2>1, GotoMoves
   
    DEF GetRecheck, At, GetInSession, InHandPcs, CommittedPcs, Idle, Pcs,
        FreePcs, SendPcs, HoldPcs, GetPcs, PolicyPcs
  <2> QED  BY <1>14, <1>a, <2>1, <2>2, ActorMoves, SessionQuiet DEF Calls, Step
<1>15. ASSUME GetMark(w)  PROVE SessionInv'
  <2>1. UNCHANGED <<policy, generation, queue, accepted, delivered>>
    BY <1>15 DEF GetMark, model, history
  <2>2. GetInSession(w)'
       /\ (call[w].pc = "policy.clear" => call'[w].pc = "policy.clear")
    BY <1>15, <1>a, <1>b, <1>c, <2>1, GotoMoves
   
    DEF GetMark, At, GetInSession, InHandPcs, CommittedPcs, Idle, Pcs, FreePcs,
        SendPcs, HoldPcs, GetPcs, PolicyPcs
  <2> QED  BY <1>15, <1>a, <2>1, <2>2, ActorMoves, SessionQuiet DEF Calls, Step
<1>16. ASSUME GetPrepare(w)  PROVE SessionInv'
  <2>1. UNCHANGED <<policy, generation, queue, accepted, delivered>>
    BY <1>16 DEF GetPrepare, model, history
  <2>2. GetInSession(w)'
       /\ (call[w].pc = "policy.clear" => call'[w].pc = "policy.clear")
    BY <1>16, <1>a, <1>b, <1>c, <2>1, GotoMoves
   
    DEF GetPrepare, At, GetInSession, InHandPcs, CommittedPcs, Idle, Pcs,
        FreePcs, SendPcs, HoldPcs, GetPcs, PolicyPcs
  <2> QED  BY <1>16, <1>a, <2>1, <2>2, ActorMoves, SessionQuiet DEF Calls, Step
<1>17. ASSUME GetInfer(w)  PROVE SessionInv'
  <2>1. UNCHANGED <<policy, generation, queue, accepted, delivered>>
    BY <1>17 DEF GetInfer, episode, history, DrawSeed
  <2>2. GetInSession(w)'
       /\ (call[w].pc = "policy.clear" => call'[w].pc = "policy.clear")
    BY <1>17, <1>a, <1>b, <1>c, <2>1, GetInferMoves
   
    DEF GetInfer, Keeps, At, GetInSession, InHandPcs, CommittedPcs, Idle,
        FreePcs, SendPcs, HoldPcs, GetPcs, PolicyPcs
  <2> QED  BY <1>17, <1>a, <2>1, <2>2, ActorMoves, SessionQuiet DEF Calls, Step
<1>18. ASSUME GetCheck(w)  PROVE SessionInv'
  <2>1. Moves(w) /\ (call'[w] = Idle \/ call'[w].pc = "get.receipt")
    BY <1>18, <1>a, GotoMoves, FinishMoves
    DEF GetCheck, FinishAndRelease, Pcs, HoldPcs, GetPcs
  <2>2. UNCHANGED <<policy, generation, queue, accepted, delivered>>
    BY <1>18 DEF GetCheck, model, episode, history
  <2>3. call[w].pc = "get.check"
    BY <1>18 DEF GetCheck, At
  <2>4. GetInSession(w)'
    <3>1. CASE call'[w] = Idle
      BY <3>1 DEF GetInSession, Idle, GetPcs, InHandPcs, CommittedPcs
    <3>2. CASE call'[w] # Idle
      <4>1. /\ call[w].captured = generation
            /\ Goto(w, "get.receipt")
        BY <1>18, <3>2, <1>a, FinishMoves DEF GetCheck, FinishAndRelease
      <4>2. call[w].source = call[w].captured
        <5>1. call[w].source <= generation /\ call[w].captured <= call[w].source
          BY <1>c, <2>3 DEF GetInSession, GetPcs
        <5>2. call[w].source \in Nat /\ call[w].captured \in Nat
          BY <1>b
        <5> QED  BY <4>1, <5>1, <5>2
      <4>3. /\ call'[w].pc = "get.receipt"
            /\ call'[w].obs = call[w].obs
            /\ call'[w].captured = call[w].captured
            /\ call'[w].source = call[w].source
            /\ call'[w].wanted = call[w].wanted
        BY <4>1, <1>a, GotoMoves DEF Pcs, HoldPcs, GetPcs
      <4> QED  BY <1>c, <2>2, <2>3, <4>1, <4>2, <4>3
               DEF GetInSession, InHandPcs, CommittedPcs, GetPcs
    <3> QED  BY <3>1, <3>2
  <2> QED  BY <2>1, <2>2, <2>3, <2>4, SessionQuiet
<1>19. ASSUME GetReceipt(w)  PROVE SessionInv'
  <2>1. UNCHANGED <<policy, generation, queue, accepted, delivered>>
    BY <1>19 DEF GetReceipt, model, history
  <2>2. GetInSession(w)'
       /\ (call[w].pc = "policy.clear" => call'[w].pc = "policy.clear")
    BY <1>19, <1>a, <1>b, <1>c, <2>1, GotoMoves, FinishMoves
   
    DEF GetReceipt, FinishAndRelease, At, GetInSession, InHandPcs,
        CommittedPcs, Idle, Pcs, FreePcs, SendPcs, HoldPcs, GetPcs, PolicyPcs
  <2> QED  BY <1>19, <1>a, <2>1, <2>2, ActorMoves, SessionQuiet DEF Calls, Step
<1>20. ASSUME GetWrite(w)  PROVE SessionInv'
  <2>1. UNCHANGED <<policy, generation, queue, accepted, delivered>>
    BY <1>20 DEF GetWrite, model, episode, history
  <2>2. GetInSession(w)'
       /\ (call[w].pc = "policy.clear" => call'[w].pc = "policy.clear")
    BY <1>20, <1>a, <1>b, <1>c, <2>1, GotoMoves
   
    DEF GetWrite, At, GetInSession, InHandPcs, CommittedPcs, Idle, Pcs,
        FreePcs, SendPcs, HoldPcs, GetPcs, PolicyPcs
  <2> QED  BY <1>20, <1>a, <2>1, <2>2, ActorMoves, SessionQuiet DEF Calls, Step
<1>21. ASSUME GetReply(w)  PROVE SessionInv'
  <2>1. Moves(w) /\ call'[w] = Idle
    BY <1>21, <1>a, FinishMoves DEF GetReply, FinishAndRelease
  <2>2. UNCHANGED <<policy, generation, queue, accepted>>
    BY <1>21 DEF GetReply, model, episode
  <2>3. \A d \in delivered' : d \in delivered \/ d = Chunk(w)
    BY <1>21 DEF GetReply
  <2>4. call[w].pc = "get.reply" /\ call[w].obs \in Observations
    BY <1>21, <1>e DEF GetReply, At, CarryPcs, GetPcs
  <2>5. accepted[call[w].obs] = [session |-> call[w].captured,
                                 policy |-> call[w].wanted]
    BY <1>c, <1>g, <2>4 DEF GetInSession, InHandPcs, CommittedPcs, GetPcs
  <2>6. DeliveredFromOwnSession'
    <3>1. SUFFICES ASSUME NEW d \in delivered'
                   PROVE  accepted[d.obs] = [session |-> d.session,
                                             policy |-> d.policy]
      BY <2>2 DEF DeliveredFromOwnSession
    <3>2. CASE d \in delivered
      BY <3>2 DEF SessionInv, DeliveredFromOwnSession
    <3>3. CASE d = Chunk(w)
      BY <3>3, <2>5 DEF Chunk
    <3> QED  BY <2>3, <3>2, <3>3
  <2>7. QueuedInSession'
    BY <2>2 DEF SessionInv, QueuedInSession
  <2>8. QueuedForPolicy'
    BY <2>1, <2>2, <2>4 DEF SessionInv, QueuedForPolicy, Moves
  <2>9. \A v \in Workers : GetInSession(v)'
    BY <2>1, <2>2 DEF SessionInv, GetInSession, Moves, Idle, GetPcs,
                      InHandPcs, CommittedPcs
  <2> QED  BY <2>6, <2>7, <2>8, <2>9 DEF SessionInv
<1> QED  BY <1>1, <1>2, <1>3, <1>4, <1>5, <1>6, <1>7, <1>8, <1>9, <1>10, <1>11,
   <1>12, <1>13, <1>14, <1>15, <1>16, <1>17, <1>18, <1>19, <1>20, <1>21
DEF Calls, Step

-----------------------------------------------------------------------------
(* stop(), and the specification                                           *)

\* stop() and the grace period touch no queue, lock, policy or observation.
LEMMA StopTypes ==
    ASSUME TypeInv, Stop
    PROVE  /\ TypeInv'
           /\ \A v \in Workers : /\ call'[v].pc = call[v].pc
                                 /\ call'[v].obs = call[v].obs
                                 /\ call'[v].captured = call[v].captured
                                 /\ call'[v].source = call[v].source
                                 /\ call'[v].wanted = call[v].wanted
           /\ UNCHANGED <<policy, queue, locks, accepted, delivered, unsent>>
           /\ generation' \in {generation, generation + 1}
<1>a. TypeOK
  BY DEF TypeInv
<1>1. /\ call' \in [Workers -> Calling]
      /\ \A v \in Workers : /\ call'[v].pc = call[v].pc
                            /\ call'[v].obs = call[v].obs
                            /\ call'[v].captured = call[v].captured
                            /\ call'[v].source = call[v].source
                            /\ call'[v].wanted = call[v].wanted
  <2>1. CASE StopGrace
    <3>1. \A v \in Workers :
             /\ call[v] \in Calling
             /\ call'[v] = [call[v] EXCEPT !.active = call[v].pc = "idle"]
      BY <1>a, <2>1 DEF StopGrace, TypeOK
    <3>2. \A v \in Workers : (call[v].pc = "idle") \in BOOLEAN
      OBVIOUS
    <3>3. \A v \in Workers : call'[v] \in Calling
      BY <3>1, <3>2 DEF Calling
    <3>4. call' = [v \in Workers |-> call'[v]]
      BY <2>1 DEF StopGrace
    <3> QED  BY <3>1, <3>3, <3>4 DEF Calling
  <2>2. CASE UNCHANGED call
    BY <1>a, <2>2 DEF TypeOK
  <2> QED  BY <2>1, <2>2 DEF Stop, StopSet, StopClear, StopClose
<1>2. UNCHANGED <<policy, queue, locks, accepted, delivered, unsent>>
  BY DEF Stop, StopSet, StopClear, StopClose, StopGrace, model, history, clients
<1>3. generation' \in {generation, generation + 1}
  BY DEF Stop, StopSet, StopClear, StopClose, StopGrace, episode,
         ClearEpisodeState
<1>4. Resetting' = Resetting
  BY <1>1 DEF Resetting
<1>5. GenerationPaid'
  <2>1. Cardinality(Resetting) \in Nat
    BY ServerConstants, FS_Subset, FS_CardinalityType DEF Resetting
  <2> QED  BY <1>4, <2>1, PaidTypes
           DEF TypeInv, GenerationPaid, StopPending, Stop, StopSet, StopClear,
               StopClose, StopGrace, episode, clients, ClearEpisodeState
<1>6. generation' \in Generations
  <2>1. Cardinality(Resetting) \in Nat
    BY ServerConstants, FS_Subset, FS_CardinalityType DEF Resetting
  <2> QED  BY <1>4, <1>5, <2>1, PaidTypes
           DEF GenerationPaid, StopPending, Generations, Stop, StopSet,
               StopClear, StopClose, StopGrace, episode, clients,
               ClearEpisodeState
<1>7. TypeOK'
  BY <1>a, <1>1, <1>6 DEF TypeOK, Stop, StopSet, StopClear, StopClose, StopGrace,
     model, episode, locks, recorder, clients, history, ClearEpisodeState
<1>8. HandsFull'
  BY <1>1 DEF TypeInv, HandsFull
<1> QED  BY <1>1, <1>2, <1>3, <1>5, <1>7, <1>8 DEF TypeInv

\* What is true in every state; its first three conjuncts do not depend on the
\* fourth, which needs them all.
Inv == TypeInv /\ LockDiscipline /\ PlaceInv /\ SessionInv

\* The invariant holds when the server is created ...
LEMMA InitInv == Init => Inv
<1> SUFFICES ASSUME Init PROVE Inv
  OBVIOUS
<1>1. Idle \in Calling /\ Idle.pc = "idle" /\ Idle.obs = NoObs
  BY ServerConstants DEF Idle, Calling, FreePcs, Generations
<1>2. \A w \in Workers : call[w] = Idle
  BY DEF Init
<1>3. TypeInv
  <2>1. TypeOK
    BY <1>1, ServerConstants DEF Init, TypeOK, Generations, NeverQueued
  <2>2. Resetting = {}
    BY <1>1, <1>2 DEF Resetting, ResetPcs, PolicyPcs
  <2>3. GenerationPaid
    BY <2>2, FS_EmptySet DEF Init, GenerationPaid, StopPending
  <2>4. HandsFull
    BY <1>1, <1>2, ServerConstants
    DEF HandsFull, CarryPcs, SendPcs, GetPcs
  <2> QED  BY <2>1, <2>3, <2>4 DEF TypeInv
<1>4. LockDiscipline
  BY <1>1, <1>2, ServerConstants
  DEF Init, LockDiscipline, HoldPcs, PolicyPcs, GetPcs, SendPcs
<1>5. PlaceInv
  BY <1>1, <1>2, ServerConstants DEF Init, PlaceInv
<1>6. SessionInv
  <2>1. QueuedInSession /\ QueuedForPolicy /\ DeliveredFromOwnSession
    BY ServerConstants
    DEF Init, QueuedInSession, QueuedForPolicy, DeliveredFromOwnSession,
        Generations
  <2>2. \A w \in Workers : GetInSession(w)
    BY <1>1, <1>2 DEF GetInSession, GetPcs, InHandPcs, CommittedPcs
  <2> QED  BY <2>1, <2>2 DEF SessionInv
<1> QED  BY <1>3, <1>4, <1>5, <1>6 DEF Inv

\* ... and every step, of a worker or of stop(), preserves it.
LEMMA NextInv == Inv /\ [Next]_vars => Inv'
<1> SUFFICES ASSUME Inv, [Next]_vars PROVE Inv'
  OBVIOUS
<1> USE DEF Inv
<1>1. ASSUME NEW w \in Workers, Calls(w) \/ Cancel(w) \/ Step(w)  PROVE Inv'
  <2>1. TypeInv' /\ LockDiscipline' /\ PlaceInv'
    BY <1>1, TypeStep, LockStep, PlaceStep DEF TypeInv
  <2> QED  BY <1>1, <2>1, SessionStep
<1>2. CASE Stop
  <2>1. TypeInv'
    BY <1>2, StopTypes
  <2>2. LockDiscipline' /\ PlaceInv'
    BY <1>2, StopTypes DEF LockDiscipline, PlaceInv, locks
  <2>3. SessionInv'
    <3>1. CASE generation' = generation
      BY <1>2, <3>1, StopTypes
      DEF SessionInv, QueuedInSession, QueuedForPolicy, GetInSession,
          DeliveredFromOwnSession
    <3>2. CASE generation' = generation + 1
      BY <1>2, <2>1, <3>2, StopTypes, SessionEnds DEF TypeInv, TypeOK
    <3> QED  BY <1>2, <3>1, <3>2, StopTypes
  <2> QED  BY <2>1, <2>2, <2>3
<1>3. CASE UNCHANGED vars
  BY <1>3 DEF vars, model, episode, locks, recorder, clients, history, TypeInv,
     TypeOK, GenerationPaid, Resetting, StopPending, HandsFull, LockDiscipline,
     PlaceInv, SessionInv, QueuedInSession, QueuedForPolicy, GetInSession,
     DeliveredFromOwnSession
<1> QED  BY <1>1, <1>2, <1>3 DEF Next

\* The invariant holds in every state the server reaches.
THEOREM Invariance == Spec => []Inv
  BY InitInv, NextInv, PTL DEF Spec

\* The server's state, its workers' locals and the histories keep their types.
THEOREM TypeCorrect == Spec => []TypeOK
<1>1. Inv => TypeOK
  BY DEF Inv, TypeInv
<1> QED  BY <1>1, Invariance, PTL

\* Every way out of every handler releases exactly the locks it took.
THEOREM LocksReleased == Spec => []LockDiscipline
<1>1. Inv => LockDiscipline
  BY DEF Inv
<1> QED  BY <1>1, Invariance, PTL

\* No observation is predicted twice, or both predicted and put back.
THEOREM ObservationsStayUnique == Spec => []OnePlace
<1>1. Inv => OnePlace
  BY DEF Inv, PlaceInv, OnePlace, InHand
<1> QED  BY <1>1, Invariance, PTL

\* A client gets the chunk of an observation of its own session, computed by
\* the policy that session was set up with.
THEOREM ChunksStayInSession == Spec => []DeliveredFromOwnSession
<1>1. Inv => DeliveredFromOwnSession
  BY DEF Inv, SessionInv
<1> QED  BY <1>1, Invariance, PTL

\* Once the session test has let a chunk pass, it is of the captured session.
THEOREM CommitmentHolds == Spec => []CommittedInSession
<1>1. Inv => CommittedInSession
  BY DEF Inv, SessionInv, GetInSession, CommittedInSession, CommittedPcs
<1> QED  BY <1>1, Invariance, PTL

-----------------------------------------------------------------------------
(* The newest observation                                                  *)

\* A sender has made room in queue g and is about to fill it.
Committing(g) == g = generation /\ \E v \in Workers : call[v].pc = "send.put"

\* What a waiter might put back is the newest of its queue, unless something
\* newer is there or about to be.
TakenIsNewest ==
    \A w \in Workers :
        /\ call[w].pc = "get.taken"
        /\ queue[call[w].source] = NoObs
        /\ ~Committing(call[w].source)
        => call[w].obs = newest[call[w].source]

NewestInv == NewestWins /\ TakenIsNewest

\* A step that touches no queue and hands w nothing.
LEMMA NewestQuiet ==
    ASSUME NewestInv, NEW w \in Workers, Moves(w),
           UNCHANGED <<queue, newest, generation>>,
           call'[w].pc = "get.taken" =>
              /\ call[w].pc = "get.taken"
              /\ call'[w].obs = call[w].obs /\ call'[w].source = call[w].source,
           call[w].pc = "send.put" => call'[w].pc = "send.put"
    PROVE  NewestInv'
<1>1. \A g \in Generations : Committing(g) => Committing(g)'
  BY DEF Committing, Moves
<1>2. \A v \in Workers : call'[v].pc = "get.taken" =>
         /\ call[v].pc = "get.taken"
         /\ call'[v].obs = call[v].obs /\ call'[v].source = call[v].source
         /\ call[v].source \in Generations
  <2>1. \A v \in Workers : call'[v].source \in Generations
    BY DEF Moves, Calling
  <2> QED  BY <2>1 DEF Moves
<1> QED  BY <1>1, <1>2 DEF NewestInv, NewestWins, TakenIsNewest

\* A new session does not change what was the newest of an older one.
LEMMA NewestEnds ==
    ASSUME NewestInv, LockDiscipline, TypeOK, stateLock = Free,
           UNCHANGED <<queue, newest>>,
           \A v \in Workers : call'[v].pc = "get.taken" =>
              /\ call[v].pc = "get.taken"
              /\ call'[v].obs = call[v].obs /\ call'[v].source = call[v].source
    PROVE  NewestInv'
<1>1. \A v \in Workers : call[v].pc # "send.put"
  BY ServerConstants DEF LockDiscipline, SendPcs
<1> QED  BY <1>1 DEF NewestInv, NewestWins, TakenIsNewest, Committing

\* Only one worker at a time waits for, or holds, an observation to predict.
LEMMA OneReader ==
    ASSUME LockDiscipline, NEW v \in Workers, NEW w \in Workers,
           call[v].pc \in HoldPcs, call[w].pc \in HoldPcs
    PROVE  v = w
  BY DEF LockDiscipline

LEMMA NewestStep ==
    ASSUME TypeInv, LockDiscipline, NewestInv, NEW w \in Workers,
           Calls(w) \/ Cancel(w) \/ Step(w)
    PROVE  NewestInv'
<1>a. TypeOK /\ Moves(w) /\ Free \notin Workers /\ NoObs \notin Observations
  BY ActorMoves, ServerConstants DEF TypeInv
<1>b. generation \in Generations /\ call[w].source \in Generations
      /\ queue \in [Generations -> Observations \cup {NoObs}]
      /\ newest \in [Generations -> Observations \cup {NoObs}]
      /\ \A v \in Workers : call[v].source \in Generations
  BY <1>a DEF TypeOK, Calling
<1>1. CASE \/ Cancel(w) \/ ReadyCall(w) \/ PolicyCall(w) \/ SendCall(w)
           \/ GetCall(w) \/ AbortUnlocked(w) \/ AbortLocked(w)
           \/ PolicyLock(w) \/ PolicyLoad(w) \/ PolicyInstall(w)
           \/ SendReceive(w) \/ SendFilter(w) \/ SendDropEmpty(w) \/ GetLock(w)
           \/ GetPoll(w) \/ GetEmpty(w) \/ GetTimeout(w) \/ GetTaken(w)
           \/ GetRecheck(w) \/ GetMark(w) \/ GetPrepare(w) \/ GetInfer(w)
           \/ GetFail(w) \/ GetCheck(w) \/ GetReceipt(w) \/ GetWrite(w)
           \/ GetWriteFail(w) \/ GetReply(w)
  <2>1. UNCHANGED <<queue, newest, generation>>
    BY <1>1
    DEF Cancel, ReadyCall, PolicyCall, SendCall, GetCall, AbortUnlocked,
        AbortLocked, PolicyLock, PolicyLoad, PolicyInstall, SendReceive,
        SendFilter, SendDropEmpty, GetLock, GetPoll, GetEmpty, GetTimeout,
        GetTaken, GetRecheck, GetMark, GetPrepare, GetInfer, GetFail, GetCheck,
        GetReceipt, GetWrite, GetWriteFail, GetReply, episode, history
  <2>2. /\ call'[w].pc = "get.taken" =>
              /\ call[w].pc = "get.taken"
              /\ call'[w].obs = call[w].obs /\ call'[w].source = call[w].source
        /\ call[w].pc = "send.put" => call'[w].pc = "send.put"
    <3>1. CASE Cancel(w)
      BY <1>a, <3>1, CancelMoves DEF Keeps
    <3>2. CASE \/ PolicyCall(w) \/ SendCall(w) \/ GetLock(w) \/ GetPoll(w)
               \/ GetInfer(w)
      <4>1. call[w].pc # "send.put"
        BY <3>2 DEF PolicyCall, SendCall, GetLock, GetPoll, GetInfer, At
      <4>2. call'[w].pc # "get.taken"
        BY <1>a, <3>2, PolicyCallMoves, SendCallMoves, GetLockMoves,
           GetPollMoves, GetInferMoves DEF Idle
      <4> QED  BY <4>1, <4>2
    <3>3. CASE /\ call[w].pc # "send.put"
               /\ (\E label \in Pcs \ {"get.taken"} : Goto(w, label)) \/ Finish(w)
      BY <1>a, <3>3, GotoMoves, FinishMoves DEF Idle
    <3> QED
      BY <1>1, <3>1, <3>2, <3>3
      DEF ReadyCall, GetCall, AbortUnlocked, AbortLocked, PolicyLock,
          PolicyLoad, PolicyInstall, SendReceive, SendFilter, SendDropEmpty,
          GetEmpty, GetTimeout, GetTaken, GetRecheck, GetMark, GetPrepare,
          GetFail, GetCheck, GetReceipt, GetWrite, GetWriteFail, GetReply,
          FinishAndRelease, At, Pcs, FreePcs, SendPcs, HoldPcs, GetPcs,
          PolicyPcs
  <2> QED  BY <1>a, <2>1, <2>2, NewestQuiet
<1>2. CASE ReadyClear(w) \/ PolicyClear(w)
  <2>1. stateLock = Free /\ UNCHANGED <<queue, newest>> /\ Finish(w)
    BY <1>2 DEF ReadyClear, PolicyClear, ClearEpisodeState, FinishAndRelease,
                history
  <2>2. \A v \in Workers : call'[v].pc = "get.taken" =>
           /\ call[v].pc = "get.taken"
           /\ call'[v].obs = call[v].obs /\ call'[v].source = call[v].source
    BY <1>a, <2>1, FinishMoves DEF Moves, Idle
  <2> QED  BY <1>a, <2>1, <2>2, NewestEnds
<1>3. CASE SendDrop(w)
  <2>1. call'[w].pc = "send.put" /\ queue' = [queue EXCEPT ![generation] = NoObs]
        /\ UNCHANGED <<newest, generation>>
    BY <1>3, <1>a, GotoMoves DEF SendDrop, history, Pcs, SendPcs
  <2>2. \A g \in Generations : queue'[g] = IF g = generation THEN NoObs ELSE queue[g]
    BY <1>b, <2>1
  <2>3. (\E v \in Workers : call[v].pc = "send.put")'
    BY <2>1
  <2>4. NewestWins'
    BY <2>1, <2>2 DEF NewestInv, NewestWins
  <2>5. ASSUME NEW v \in Workers, call'[v].pc = "get.taken",
               queue'[call'[v].source] = NoObs, call'[v].source # generation
        PROVE  call'[v].obs = newest'[call'[v].source]
    <3>1. v # w /\ call'[v] = call[v]
      BY <1>a, <2>1, <2>5 DEF Moves
    <3>2. call[v].source # generation /\ ~Committing(call[v].source)
      BY <2>5, <3>1 DEF Committing
    <3> QED  BY <1>b, <2>1, <2>2, <2>5, <3>1, <3>2 DEF NewestInv, TakenIsNewest
  <2> QED  BY <2>1, <2>3, <2>4, <2>5 DEF NewestInv, TakenIsNewest, Committing
<1>4. CASE SendPut(w)
  <2>1. /\ call'[w] = Idle
        /\ queue' = [queue EXCEPT ![generation] = call[w].obs]
        /\ newest' = [newest EXCEPT ![generation] = call[w].obs]
        /\ UNCHANGED generation /\ call[w].pc = "send.put"
    BY <1>4, <1>a, FinishMoves DEF SendPut, At
  <2>2. call[w].obs \in Observations
    BY <2>1 DEF TypeInv, HandsFull, CarryPcs, SendPcs
  <2>3. \A g \in Generations :
           /\ queue'[g] = IF g = generation THEN call[w].obs ELSE queue[g]
           /\ newest'[g] = IF g = generation THEN call[w].obs ELSE newest[g]
    BY <1>b, <2>1
  <2>4. NewestWins'
    BY <2>3 DEF NewestInv, NewestWins
  <2>5. ASSUME NEW v \in Workers, call'[v].pc = "get.taken",
               queue'[call'[v].source] = NoObs
        PROVE  call'[v].obs = newest'[call'[v].source]
    <3>1. v # w /\ call'[v] = call[v]
      BY <1>a, <2>1, <2>5 DEF Moves, Idle
    <3>2. call[v].source # generation
      BY <1>a, <1>b, <2>2, <2>3, <2>5, <3>1
    <3>3. ~Committing(call[v].source)
      BY <3>2 DEF Committing
    <3> QED  BY <1>b, <2>3, <2>5, <3>1, <3>2, <3>3 DEF NewestInv, TakenIsNewest
  <2> QED  BY <2>4, <2>5 DEF NewestInv, TakenIsNewest
<1>5. CASE GetTake(w)
  <2>1. /\ call'[w].pc = "get.taken" /\ call'[w].obs = queue[call[w].source]
        /\ call'[w].source = call[w].source /\ queue[call[w].source] # NoObs
        /\ queue' = [queue EXCEPT ![call[w].source] = NoObs]
        /\ UNCHANGED <<newest, generation>> /\ call[w].pc = "get.take"
    BY <1>5, <1>a, GetTakeMoves DEF GetTake, episode, history, Keeps, At
  <2>2. \A g \in Generations : queue'[g] = IF g = call[w].source THEN NoObs ELSE queue[g]
    BY <1>b, <2>1
  <2>3. NewestWins'
    BY <2>1, <2>2 DEF NewestInv, NewestWins
  <2>4. \A v \in Workers : call'[v].pc = "get.taken" => v = w
    <3>1. ASSUME NEW v \in Workers, call'[v].pc = "get.taken", v # w PROVE FALSE
      BY <1>a, <2>1, <3>1, OneReader DEF Moves, HoldPcs, GetPcs
    <3> QED  BY <3>1
  <2>5. call'[w].obs = newest'[call'[w].source]
    BY <1>b, <2>1 DEF NewestInv, NewestWins
  <2> QED  BY <2>3, <2>4, <2>5 DEF NewestInv, TakenIsNewest
<1>6. CASE GetRestore(w)
  <2>1. call'[w] = Idle /\ UNCHANGED <<newest, generation>> /\ stateLock = Free
        /\ call[w].pc = "get.taken"
    BY <1>6, <1>a, FinishMoves
    DEF GetRestore, FinishAndRelease, episode, history, At
  <2>2. \A v \in Workers : call[v].pc # "send.put"
    BY <1>a, <2>1 DEF LockDiscipline, SendPcs
  <2>3. \A v \in Workers : call'[v].pc # "get.taken"
    <3>1. ASSUME NEW v \in Workers, call'[v].pc = "get.taken" PROVE FALSE
      BY <1>a, <2>1, <3>1, OneReader DEF Moves, HoldPcs, GetPcs, Idle
    <3> QED  BY <3>1
  <2>4. NewestWins'
    <3>1. CASE queue' = queue
      BY <2>1, <3>1 DEF NewestInv, NewestWins
    <3>2. CASE CanRestore(w) /\ queue' = [queue EXCEPT ![call[w].source] = call[w].obs]
      <4>1. call[w].obs = newest[call[w].source]
        BY <2>1, <2>2, <3>2 DEF NewestInv, TakenIsNewest, Committing, CanRestore
      <4> QED  BY <1>b, <2>1, <3>2, <4>1 DEF NewestInv, NewestWins
    <3> QED  BY <1>6, <3>1, <3>2 DEF GetRestore
  <2> QED  BY <2>3, <2>4 DEF NewestInv, TakenIsNewest
<1> QED  BY <1>1, <1>2, <1>3, <1>4, <1>5, <1>6 DEF Calls, Step

LEMMA NewestStop == ASSUME TypeInv, LockDiscipline, NewestInv, Stop PROVE NewestInv'
<1>1. UNCHANGED <<queue, newest>>
  BY DEF Stop, StopSet, StopClear, StopClose, StopGrace, history
<1>2. \A v \in Workers : /\ call'[v].pc = call[v].pc /\ call'[v].obs = call[v].obs
                         /\ call'[v].source = call[v].source
  BY StopTypes
<1>3. CASE UNCHANGED generation
  BY <1>1, <1>2, <1>3 DEF NewestInv, NewestWins, TakenIsNewest, Committing
<1>4. CASE stateLock = Free
  BY <1>1, <1>2, <1>4, NewestEnds DEF TypeInv
<1> QED
  BY <1>3, <1>4
  DEF Stop, StopSet, StopClear, StopClose, StopGrace, episode, ClearEpisodeState

-----------------------------------------------------------------------------
(* Seeds                                                                   *)

InferredPcs == {"get.check"} \cup CommittedPcs

\* No chunk of the current session used the seed that is next, except while a
\* new policy, whose session has not begun, restarts the count ...
SeedBound ==
    (\A w \in Workers : call[w].pc # "policy.clear") =>
       \A d \in delivered : d.session = generation => d.seed < predictionIndex

\* ... and what w will answer is of a seed no chunk of its session used.
SeedInHand(w) ==
    /\ call[w].pc \in GetPcs \ InferredPcs =>
          \A d \in delivered : d.session = call[w].captured => d.seed < predictionIndex
    /\ call[w].pc \in InferredPcs =>
          /\ call[w].seed < predictionIndex
          /\ \A d \in delivered : d.session = call[w].captured => d.seed < call[w].seed

SeedSafe ==
    /\ \A d \in delivered : d.session <= generation
    /\ SeedBound
    /\ \A w \in Workers : SeedInHand(w)
    /\ \A d, e \in delivered : d.session = e.session /\ d.seed = e.seed => d = e

SeedInv == Seeded => SeedSafe

LEMMA SeedTypes ==
    ASSUME TypeOK
    PROVE  /\ generation \in Nat /\ predictionIndex \in Nat
           /\ \A d \in delivered : d.session \in Nat /\ d.seed \in Nat
           /\ \A w \in Workers : call[w].captured \in Nat /\ call[w].seed \in Nat
  BY DEF TypeOK, Calling, Generations

LEMMA GetInferSeed ==
    ASSUME TypeOK, NEW w \in Workers, GetInfer(w)
    PROVE  call'[w].seed = predictionIndex
  BY DEF GetInfer, TypeOK, Calling

\* A step that delivers nothing and draws no seed.
LEMMA SeedQuiet ==
    ASSUME SeedSafe, NEW w \in Workers, Moves(w),
           UNCHANGED <<generation, delivered, predictionIndex>>,
           call[w].pc = "policy.clear" => call'[w].pc = "policy.clear",
           SeedInHand(w)'
    PROVE  SeedSafe'
<1>1. SeedBound'
  BY DEF SeedSafe, SeedBound, Moves
<1>2. \A v \in Workers : SeedInHand(v)'
  BY DEF SeedSafe, SeedInHand, Moves
<1> QED  BY <1>1, <1>2 DEF SeedSafe

\* The end of a session: nothing was delivered yet in the next one.
LEMMA SeedEnds ==
    ASSUME SeedSafe, TypeOK, generation' = generation + 1,
           UNCHANGED <<delivered, predictionIndex>>,
           \A v \in Workers :
              \/ call'[v].pc \notin GetPcs
              \/ /\ call'[v].pc = call[v].pc /\ call'[v].seed = call[v].seed
                 /\ call'[v].captured = call[v].captured
    PROVE  SeedSafe'
<1>1. \A d \in delivered : d.session <= generation' /\ d.session # generation'
  BY SeedTypes DEF SeedSafe
<1>2. \A v \in Workers : SeedInHand(v)'
  BY DEF SeedSafe, SeedInHand, InferredPcs, CommittedPcs, GetPcs
<1> QED  BY <1>1, <1>2 DEF SeedSafe, SeedBound

LEMMA SeedStep ==
    ASSUME TypeInv, LockDiscipline, SessionInv, SeedInv, NEW w \in Workers,
           Calls(w) \/ Cancel(w) \/ Step(w)
    PROVE  SeedInv'
<1> SUFFICES ASSUME Seeded, SeedSafe PROVE SeedSafe'
  BY DEF SeedInv
<1>a. TypeOK /\ Moves(w) /\ Free \notin Workers
  BY ActorMoves, ServerConstants DEF TypeInv
<1>b. /\ generation \in Nat /\ predictionIndex \in Nat
      /\ \A d \in delivered : d.session \in Nat /\ d.seed \in Nat
      /\ \A v \in Workers : call[v].captured \in Nat /\ call[v].seed \in Nat
  BY <1>a, SeedTypes
<1>c. InferredPcs \subseteq GetPcs /\ GetPcs \subseteq HoldPcs /\ "policy.clear" \in HoldPcs \ GetPcs
  BY DEF InferredPcs, CommittedPcs, GetPcs, HoldPcs, PolicyPcs
<1>d. SeedInHand(w)
  BY DEF SeedSafe
<1>1. CASE \/ Cancel(w) \/ ReadyCall(w) \/ PolicyCall(w) \/ SendCall(w)
           \/ GetCall(w) \/ AbortUnlocked(w) \/ AbortLocked(w)
           \/ PolicyLock(w) \/ PolicyLoad(w) \/ SendReceive(w) \/ SendFilter(w)
           \/ SendDrop(w) \/ SendDropEmpty(w) \/ SendPut(w)
           \/ GetPoll(w) \/ GetTake(w) \/ GetEmpty(w) \/ GetTimeout(w)
           \/ GetRestore(w) \/ GetTaken(w) \/ GetRecheck(w) \/ GetMark(w)
           \/ GetPrepare(w) \/ GetCheck(w) \/ GetReceipt(w) \/ GetWrite(w)
           \/ GetWriteFail(w)
  <2>1. UNCHANGED <<generation, delivered, predictionIndex>>
    BY <1>1
    DEF Cancel, ReadyCall, PolicyCall, SendCall, GetCall, AbortUnlocked,
        AbortLocked, PolicyLock, PolicyLoad, SendReceive, SendFilter, SendDrop,
        SendDropEmpty, SendPut, GetPoll, GetTake, GetEmpty, GetTimeout,
        GetRestore, GetTaken, GetRecheck, GetMark, GetPrepare, GetCheck,
        GetReceipt, GetWrite, GetWriteFail, model, episode, history
  <2>2. /\ SeedInHand(w)'
        /\ call[w].pc = "policy.clear" => call'[w].pc = "policy.clear"
    <3>1. CASE Cancel(w)
      BY <1>a, <1>d, <2>1, <3>1, CancelMoves DEF Keeps, SeedInHand
    <3>2. CASE PolicyCall(w) \/ SendCall(w)
      BY <1>a, <1>c, <3>2, PolicyCallMoves, SendCallMoves
      DEF SeedInHand, PolicyCall, SendCall, At, GetPcs
    <3>3. CASE GetPoll(w) \/ GetTake(w)
      BY <1>a, <1>d, <2>1, <3>3, GetPollMoves, GetTakeMoves
      DEF Keeps, SeedInHand, GetPoll, GetTake, At, GetPcs, InferredPcs,
          CommittedPcs
    <3>4. CASE /\ call[w].pc # "policy.clear"
               /\ \/ Finish(w)
                  \/ \E label \in Pcs :
                        /\ Goto(w, label)
                        /\ label \in InferredPcs <=> call[w].pc \in InferredPcs
                        /\ label \in GetPcs => call[w].pc \in GetPcs
      <4>1. CASE Finish(w)
        BY <1>a, <1>c, <3>4, <4>1, FinishMoves DEF Idle, SeedInHand, GetPcs
      <4>2. CASE \E label \in Pcs :
                    /\ Goto(w, label)
                    /\ label \in InferredPcs <=> call[w].pc \in InferredPcs
                    /\ label \in GetPcs => call[w].pc \in GetPcs
        BY <1>a, <1>d, <2>1, <3>4, <4>2, GotoMoves DEF SeedInHand
      <4> QED  BY <3>4, <4>1, <4>2
    <3> QED
      BY <1>1, <3>1, <3>2, <3>3, <3>4
      DEF ReadyCall, GetCall, AbortUnlocked, AbortLocked, PolicyLock,
          PolicyLoad, SendReceive, SendFilter, SendDrop, SendDropEmpty, SendPut,
          GetEmpty, GetTimeout, GetRestore, GetTaken, GetRecheck, GetMark,
          GetPrepare, GetCheck, GetReceipt, GetWrite, GetWriteFail,
          FinishAndRelease, At, InferredPcs, CommittedPcs, Pcs, FreePcs,
          SendPcs, HoldPcs, GetPcs, PolicyPcs
  <2> QED  BY <1>a, <2>1, <2>2, SeedQuiet
<1>2. CASE ReadyClear(w) \/ PolicyClear(w)
  <2>1. Finish(w) /\ generation' = generation + 1
        /\ UNCHANGED <<delivered, predictionIndex>>
    BY <1>2 DEF ReadyClear, PolicyClear, ClearEpisodeState, FinishAndRelease,
                history, model
  <2>2. \A v \in Workers :
              \/ call'[v].pc \notin GetPcs
              \/ /\ call'[v].pc = call[v].pc /\ call'[v].seed = call[v].seed
                 /\ call'[v].captured = call[v].captured
    BY <1>a, <2>1, FinishMoves DEF Moves, Idle, GetPcs
  <2> QED  BY <1>a, <2>1, <2>2, SeedEnds
<1>3. CASE PolicyInstall(w)
  <2>1. call'[w].pc = "policy.clear" /\ UNCHANGED <<generation, delivered>>
        /\ call[w].pc \in HoldPcs
    BY <1>3, <1>a, GotoMoves
    DEF PolicyInstall, episode, history, At, Pcs, HoldPcs, PolicyPcs
  <2>2. \A v \in Workers : call'[v].pc \notin GetPcs
    BY <1>a, <1>c, <2>1, OneReader DEF Moves
  <2>3. SeedBound'
    BY <2>1 DEF SeedBound
  <2>4. \A v \in Workers : SeedInHand(v)'
    BY <1>c, <2>2 DEF SeedInHand
  <2> QED  BY <2>1, <2>3, <2>4 DEF SeedSafe
<1>4. CASE GetLock(w)
  <2>1. UNCHANGED <<generation, delivered, predictionIndex>> /\ call[w].pc = "get.lock"
        /\ inferenceLock = Free
    BY <1>4 DEF GetLock, model, episode, history, At
  <2>2. \A v \in Workers : call[v].pc # "policy.clear"
    BY <1>a, <1>c, <2>1 DEF LockDiscipline
  <2>3. \A d \in delivered : d.session = generation => d.seed < predictionIndex
    BY <2>2 DEF SeedSafe, SeedBound
  <2>4. \/ call'[w].pc = "get.poll" /\ call'[w].captured = generation
        \/ call'[w].pc = "idle"
    BY <1>4, <1>a, GetLockMoves DEF Idle
  <2>5. SeedInHand(w)'
    BY <2>1, <2>3, <2>4 DEF SeedInHand, GetPcs, InferredPcs, CommittedPcs
  <2> QED  BY <1>a, <2>1, <2>5, SeedQuiet
<1>5. CASE GetInfer(w) \/ GetFail(w)
  <2>1. /\ UNCHANGED <<generation, delivered>> /\ call[w].pc \in GetPcs \ InferredPcs
        /\ predictionIndex' \in {predictionIndex, predictionIndex + 1}
        /\ GetInfer(w) => predictionIndex' = predictionIndex + 1
    BY <1>5
    DEF GetInfer, GetFail, DrawSeed, episode, history, At, GetPcs, InferredPcs,
        CommittedPcs
  <2>2. \/ /\ call'[w].pc = "get.check" /\ call'[w].captured = call[w].captured
           /\ call'[w].seed = predictionIndex /\ GetInfer(w)
        \/ call'[w].pc = "idle"
    BY <1>5, <1>a, GetInferMoves, GetInferSeed, FinishMoves
    DEF GetFail, FinishAndRelease, Idle, Keeps
  <2>3. \A v \in Workers \ {w} : call'[v] = call[v] /\ call[v].pc \notin HoldPcs
    BY <1>a, <1>c, <2>1, OneReader DEF Moves
  <2>4. \A v \in Workers \ {w} : SeedInHand(v)'
    BY <1>c, <2>3 DEF SeedInHand
  <2>5. SeedInHand(w)'
    <3>1. CASE call'[w].pc = "idle"
      BY <1>c, <3>1 DEF SeedInHand, GetPcs
    <3>2. CASE /\ call'[w].pc = "get.check" /\ call'[w].captured = call[w].captured
               /\ call'[w].seed = predictionIndex /\ GetInfer(w)
      BY <1>b, <1>d, <2>1, <3>2 DEF SeedInHand, InferredPcs
    <3> QED  BY <2>2, <3>1, <3>2
  <2>6. SeedBound'
    <3>1. \A v \in Workers : call[v].pc # "policy.clear"
      BY <1>c, <2>1, <2>3
    <3>2. \A d \in delivered : d.session = generation => d.seed < predictionIndex
      BY <3>1 DEF SeedSafe, SeedBound
    <3> QED  BY <1>b, <2>1, <3>2 DEF SeedBound
  <2> QED  BY <2>1, <2>4, <2>5, <2>6 DEF SeedSafe
<1>6. CASE GetReply(w)
  <2>1. /\ UNCHANGED <<generation, predictionIndex>> /\ call[w].pc = "get.reply"
        /\ delivered' \subseteq delivered \cup {Chunk(w)} /\ delivered \subseteq delivered'
        /\ call'[w] = Idle
    BY <1>6, <1>a, FinishMoves
    DEF GetReply, FinishAndRelease, model, episode, At
  <2>2. /\ Chunk(w).session = call[w].captured /\ Chunk(w).seed = call[w].seed
        /\ call[w].seed < predictionIndex
        /\ \A d \in delivered : d.session = call[w].captured => d.seed < call[w].seed
    BY <1>d, <2>1 DEF Chunk, SeedInHand, InferredPcs, CommittedPcs
  <2>3. \A v \in Workers : call'[v].pc \notin GetPcs /\ call'[v].pc # "policy.clear"
    <3>1. call[w].pc \in HoldPcs
      BY <1>c, <2>1 DEF GetPcs
    <3> QED  BY <1>a, <1>c, <2>1, <3>1, OneReader DEF Moves, Idle, GetPcs
  <2>4. \A v \in Workers : SeedInHand(v)'
    BY <1>c, <2>3 DEF SeedInHand
  <2>5. \A v \in Workers : call[v].pc # "policy.clear"
    BY <1>c, <2>1, OneReader DEF GetPcs
  <2>6. SeedBound'
    BY <2>1, <2>2, <2>5 DEF SeedSafe, SeedBound
  <2>7. \A d \in delivered' : d.session <= generation'
    <3>1. call[w].captured <= generation
      BY <2>1 DEF SessionInv, GetInSession, GetPcs
    <3> QED  BY <2>1, <2>2, <3>1 DEF SeedSafe
  <2>8. \A d, e \in delivered' : d.session = e.session /\ d.seed = e.seed => d = e
    BY <1>b, <2>1, <2>2 DEF SeedSafe
  <2> QED  BY <2>4, <2>6, <2>7, <2>8 DEF SeedSafe
<1> QED  BY <1>1, <1>2, <1>3, <1>4, <1>5, <1>6 DEF Calls, Step

LEMMA SeedStop == ASSUME TypeInv, LockDiscipline, SeedInv, Stop PROVE SeedInv'
<1> SUFFICES ASSUME Seeded, SeedSafe PROVE SeedSafe'
  BY DEF SeedInv
<1>1. UNCHANGED <<delivered, predictionIndex>>
  BY DEF Stop, StopSet, StopClear, StopClose, StopGrace, history, model
<1>2. \A v \in Workers : /\ call'[v].pc = call[v].pc /\ call'[v].seed = call[v].seed
                         /\ call'[v].captured = call[v].captured
  <2>1. CASE StopGrace
    <3>1. \A v \in Workers : call[v] \in Calling
             /\ call'[v] = [call[v] EXCEPT !.active = call[v].pc = "idle"]
      BY <2>1 DEF StopGrace, TypeInv, TypeOK
    <3> QED  BY <3>1 DEF Calling
  <2>2. CASE UNCHANGED call
    BY <2>2
  <2> QED  BY <2>1, <2>2 DEF Stop, StopSet, StopClear, StopClose
<1>3. CASE UNCHANGED generation
  BY <1>1, <1>2, <1>3 DEF SeedSafe, SeedBound, SeedInHand
<1>4. CASE generation' = generation + 1
  BY <1>1, <1>2, <1>4, SeedEnds DEF TypeInv
<1> QED
  BY <1>3, <1>4
  DEF Stop, StopSet, StopClear, StopClose, StopGrace, episode, ClearEpisodeState

-----------------------------------------------------------------------------
(* The latency log                                                         *)

\* A chunk whose line is written and that has reached its client, or may.
Answering(o) == \/ \E d \in delivered : d.obs = o
                \/ \E w \in Workers : call[w].pc = "get.reply" /\ call[w].obs = o

\* An observation a line may still be written for.
Pending(o) == \/ o \in unsent
              \/ \E g \in Generations : queue[g] = o
              \/ \E w \in Workers : call[w].pc # "get.reply" /\ call[w].obs = o

\* A line whose write or sync failed keeps its number for the next line, but
\* its own chunk is never answered.
LogSafe ==
    /\ \A l \in log : ~Pending(l.obs)
    /\ \A l, m \in log : l.obs = m.obs => l = m
    /\ \A l \in log : l.number <= sequence /\ (Answering(l.obs) => l.number < sequence)
    /\ \A l, m \in log :
          Answering(l.obs) /\ Answering(m.obs) /\ l.number = m.number => l = m
    /\ \A o \in Observations : Answering(o) => \E l \in log : l.obs = o

LogInv == Logging => LogSafe

\* Nothing is written, and no observation comes back.
LEMMA LogFrame ==
    ASSUME LogSafe, TypeOK, UNCHANGED <<log, sequence>>,
           \A o \in Observations : Answering(o)' => Answering(o),
           \A o \in Observations : Pending(o)' => Pending(o)
    PROVE  LogSafe'
<1>1. \A l \in log : l.obs \in Observations
  BY DEF TypeOK
<1> QED  BY <1>1 DEF LogSafe

\* ... as when at most one observation leaves w's hands.
LEMMA LogQuiet ==
    ASSUME LogSafe, TypeOK, NEW w \in Workers, Moves(w),
           UNCHANGED <<log, sequence, queue, delivered>>, unsent' \subseteq unsent,
           \/ call'[w].obs = NoObs
           \/ /\ call'[w].obs = call[w].obs
              /\ call'[w].pc = "get.reply" <=> call[w].pc = "get.reply"
           \/ call'[w].obs \in unsent /\ call'[w].pc # "get.reply"
    PROVE  LogSafe'
<1>1. ASSUME NEW o \in Observations PROVE Answering(o)' => Answering(o)
  <2>1. o # NoObs
    BY ServerConstants
  <2> QED  BY <2>1 DEF Answering, Moves
<1>2. ASSUME NEW o \in Observations PROVE Pending(o)' => Pending(o)
  <2>1. o # NoObs
    BY ServerConstants
  <2> QED  BY <2>1 DEF Pending, Moves
<1> QED  BY <1>1, <1>2, LogFrame

LEMMA LogStep ==
    ASSUME TypeInv, PlaceInv, LogInv, NEW w \in Workers,
           Calls(w) \/ Cancel(w) \/ Step(w)
    PROVE  LogInv'
<1> SUFFICES ASSUME Logging, LogSafe PROVE LogSafe'
  BY DEF LogInv
<1>a. TypeOK /\ Moves(w) /\ \A o \in Observations : o # NoObs
  BY ActorMoves, ServerConstants DEF TypeInv
<1>b. generation \in Generations /\ call[w].source \in Generations
      /\ queue \in [Generations -> Observations \cup {NoObs}]
      /\ (call[w].pc \in CarryPcs => call[w].obs \in Observations)
  BY <1>a DEF TypeOK, Calling, TypeInv, HandsFull
<1>1. CASE \/ Cancel(w) \/ ReadyCall(w) \/ ReadyClear(w) \/ PolicyCall(w)
           \/ SendCall(w) \/ GetCall(w) \/ AbortUnlocked(w) \/ AbortLocked(w)
           \/ PolicyLock(w) \/ PolicyLoad(w) \/ PolicyInstall(w)
           \/ PolicyClear(w) \/ SendReceive(w) \/ SendFilter(w)
           \/ SendDropEmpty(w) \/ GetLock(w) \/ GetPoll(w) \/ GetEmpty(w)
           \/ GetTimeout(w) \/ GetTaken(w) \/ GetRecheck(w) \/ GetMark(w)
           \/ GetPrepare(w) \/ GetInfer(w) \/ GetFail(w) \/ GetCheck(w)
           \/ GetReceipt(w)
  <2>1. UNCHANGED <<log, sequence, queue, delivered>> /\ unsent' \subseteq unsent
    BY <1>1
    DEF Cancel, ReadyCall, ReadyClear, PolicyCall, SendCall, GetCall,
        AbortUnlocked, AbortLocked, PolicyLock, PolicyLoad, PolicyInstall,
        PolicyClear, SendReceive, SendFilter, SendDropEmpty, GetLock, GetPoll,
        GetEmpty, GetTimeout, GetTaken, GetRecheck, GetMark, GetPrepare,
        GetInfer, GetFail, GetCheck, GetReceipt, recorder, clients, history
  <2>2. \/ call'[w].obs = NoObs
        \/ /\ call'[w].obs = call[w].obs
           /\ call'[w].pc = "get.reply" <=> call[w].pc = "get.reply"
        \/ call'[w].obs \in unsent /\ call'[w].pc # "get.reply"
    <3>0. CASE Cancel(w) \/ SendCall(w)
      BY <1>a, <3>0, CancelMoves, SendCallMoves DEF Keeps
    <3>1. CASE PolicyCall(w) \/ GetLock(w) \/ GetPoll(w) \/ GetInfer(w)
      <4>1. call[w].pc # "get.reply"
        BY <3>1 DEF PolicyCall, GetLock, GetPoll, GetInfer, At
      <4>2. \/ call'[w] = Idle
            \/ call'[w].obs = call[w].obs /\ call'[w].pc # "get.reply"
        BY <1>a, <3>1, PolicyCallMoves, GetLockMoves, GetPollMoves, GetInferMoves
        DEF Keeps
      <4> QED  BY <4>1, <4>2 DEF Idle
    <3>2. CASE \/ Finish(w)
               \/ \E label \in Pcs \ {"get.reply"} :
                     Goto(w, label) /\ call[w].pc # "get.reply"
      <4>1. CASE Finish(w)
        BY <1>a, <4>1, FinishMoves DEF Idle
      <4>2. CASE \E label \in Pcs \ {"get.reply"} :
                     Goto(w, label) /\ call[w].pc # "get.reply"
        BY <1>a, <4>2, GotoMoves
      <4> QED  BY <3>2, <4>1, <4>2
    <3> QED
      BY <1>1, <3>0, <3>1, <3>2
      DEF ReadyCall, ReadyClear, GetCall, AbortUnlocked, AbortLocked,
          PolicyLock, PolicyLoad, PolicyInstall, PolicyClear, SendReceive,
          SendFilter, SendDropEmpty, GetEmpty, GetTimeout, GetTaken,
          GetRecheck, GetMark, GetPrepare, GetFail, GetCheck, GetReceipt,
          FinishAndRelease, At, Pcs, FreePcs, SendPcs, HoldPcs, GetPcs,
          PolicyPcs
  <2> QED  BY <1>a, <2>1, <2>2, LogQuiet
<1>2. CASE SendDrop(w)
  <2>1. /\ call'[w].obs = call[w].obs /\ call'[w].pc = "send.put" /\ call[w].pc = "send.drop"
        /\ queue' = [queue EXCEPT ![generation] = NoObs]
        /\ UNCHANGED <<log, sequence, delivered, unsent>>
    BY <1>2, <1>a, GotoMoves
    DEF SendDrop, recorder, clients, history, At, Pcs, SendPcs
  <2>2. \A g \in Generations : queue'[g] \in {queue[g], NoObs}
    BY <1>b, <2>1
  <2>3. \A o \in Observations : Pending(o)' => Pending(o)
    BY <1>a, <2>1, <2>2 DEF Pending, Moves
  <2>4. \A o \in Observations : Answering(o)' => Answering(o)
    BY <1>a, <2>1 DEF Answering, Moves
  <2> QED  BY <1>a, <2>1, <2>3, <2>4, LogFrame
<1>3. CASE SendPut(w) \/ GetRestore(w)
  <2>1. /\ call'[w] = Idle /\ call[w].pc # "get.reply"
        /\ UNCHANGED <<log, sequence, delivered, unsent>>
    BY <1>3, <1>a, FinishMoves
    DEF SendPut, GetRestore, FinishAndRelease, recorder, clients, history, At
  <2>2. \A g \in Generations : queue'[g] \in {queue[g], call[w].obs}
    BY <1>3, <1>b DEF SendPut, GetRestore
  <2>3. \A o \in Observations : Pending(o)' => Pending(o)
    BY <1>a, <2>1, <2>2 DEF Pending, Moves, Idle
  <2>4. \A o \in Observations : Answering(o)' => Answering(o)
    BY <1>a, <2>1 DEF Answering, Moves, Idle
  <2> QED  BY <1>a, <2>1, <2>3, <2>4, LogFrame
<1>4. CASE GetTake(w)
  <2>1. /\ call'[w].pc = "get.taken" /\ call'[w].obs = queue[call[w].source]
        /\ queue' = [queue EXCEPT ![call[w].source] = NoObs]
        /\ UNCHANGED <<log, sequence, delivered, unsent>>
    BY <1>4, <1>a, GetTakeMoves DEF GetTake, recorder, clients, history
  <2>2. \A g \in Generations : queue'[g] \in {queue[g], NoObs}
    BY <1>b, <2>1
  <2>3. \A o \in Observations : Pending(o)' => Pending(o)
    BY <1>a, <1>b, <2>1, <2>2 DEF Pending, Moves
  <2>4. \A o \in Observations : Answering(o)' => Answering(o)
    BY <1>a, <2>1 DEF Answering, Moves
  <2> QED  BY <1>a, <2>1, <2>3, <2>4, LogFrame
<1>5. CASE GetWrite(w)
  <2> DEFINE x == call[w].obs
  <2>1. /\ call'[w].pc = "get.reply" /\ call'[w].obs = x
        /\ call[w].pc = "get.write" /\ x \in Observations
        /\ log' = log \cup {Line(w)} /\ sequence' = sequence + 1
        /\ UNCHANGED <<queue, delivered, unsent>>
    BY <1>5, <1>a, <1>b, GotoMoves
    DEF GetWrite, clients, history, At, Pcs, HoldPcs, GetPcs, CarryPcs
  <2>2. /\ Line(w).obs = x /\ Line(w).number = sequence
        /\ \A l \in log : l.obs # x
    BY <2>1 DEF Line, LogSafe, Pending
  <2>3. sequence \in Nat /\ \A l \in log : l.number \in Nat /\ l.obs \in Observations
    BY <1>a DEF TypeOK
  <2>4. ASSUME NEW o \in Observations PROVE Answering(o)' <=> Answering(o) \/ o = x
    BY <1>a, <2>1 DEF Answering, Moves
  <2>5. ASSUME NEW o \in Observations PROVE Pending(o)' => Pending(o) /\ o # x
    <3>1. Pending(o)' => Pending(o)
      BY <1>a, <2>1 DEF Pending, Moves
    <3>2. ASSUME o = x, Pending(o)' PROVE FALSE
      BY <1>a, <2>1, <3>2 DEF Pending, Moves, PlaceInv
    <3> QED  BY <3>1, <3>2
  <2> HIDE DEF x
  <2>6. \A l \in log' : ~Pending(l.obs)'
    BY <2>1, <2>2, <2>3, <2>5 DEF LogSafe
  <2>7. \A l, m \in log' : l.obs = m.obs => l = m
    BY <2>1, <2>2 DEF LogSafe
  <2>8. \A l \in log' : l.number < sequence' /\ l.number <= sequence'
    BY <2>1, <2>2, <2>3 DEF LogSafe
  <2>9. \A l, m \in log' :
           Answering(l.obs)' /\ Answering(m.obs)' /\ l.number = m.number => l = m
    <3>1. \A l \in log : Answering(l.obs)' => Answering(l.obs) /\ l.number < sequence
      BY <2>2, <2>3, <2>4 DEF LogSafe
    <3> QED  BY <2>1, <2>2, <2>3, <3>1 DEF LogSafe
  <2>10. \A o \in Observations : Answering(o)' => \E l \in log' : l.obs = o
    BY <2>1, <2>2, <2>4 DEF LogSafe
  <2> QED  BY <2>6, <2>7, <2>8, <2>9, <2>10 DEF LogSafe
<1>6. CASE GetWriteFail(w)
  <2> DEFINE x == call[w].obs
  <2>1. /\ call'[w] = Idle /\ call[w].pc = "get.write" /\ x \in Observations
        /\ log' \in {log, log \cup {Line(w)}}
        /\ UNCHANGED <<queue, delivered, unsent, sequence>>
    BY <1>6, <1>a, <1>b, FinishMoves
    DEF GetWriteFail, FinishAndRelease, clients, history, At, CarryPcs, GetPcs
  <2>2. /\ Line(w).obs = x /\ Line(w).number = sequence
        /\ \A l \in log : l.obs # x
    BY <2>1 DEF Line, LogSafe, Pending
  <2>3. sequence \in Nat /\ \A l \in log : l.number \in Nat /\ l.obs \in Observations
    BY <1>a DEF TypeOK
  <2>4. ASSUME NEW o \in Observations PROVE Answering(o)' => Answering(o) /\ o # x
    <3>1. Answering(o)' => Answering(o)
      BY <1>a, <2>1 DEF Answering, Moves, Idle
    <3>2. ASSUME o = x, Answering(o)' PROVE FALSE
      BY <1>a, <2>1, <3>2 DEF Answering, Moves, Idle, PlaceInv
    <3> QED  BY <3>1, <3>2
  <2>5. ASSUME NEW o \in Observations PROVE Pending(o)' => Pending(o) /\ o # x
    <3>1. Pending(o)' => Pending(o)
      BY <1>a, <2>1 DEF Pending, Moves, Idle
    <3>2. ASSUME o = x, Pending(o)' PROVE FALSE
      BY <1>a, <2>1, <3>2 DEF Pending, Moves, Idle, PlaceInv
    <3> QED  BY <3>1, <3>2
  <2> HIDE DEF x
  <2>6. \A l \in log' : ~Pending(l.obs)'
    BY <2>1, <2>2, <2>3, <2>5 DEF LogSafe
  <2>7. \A l, m \in log' : l.obs = m.obs => l = m
    BY <2>1, <2>2 DEF LogSafe
  <2>8. \A l \in log' : Answering(l.obs)' => l \in log /\ Answering(l.obs)
    BY <2>1, <2>2, <2>3, <2>4
  <2>9. \A l \in log' : l.number <= sequence' /\ (Answering(l.obs)' => l.number < sequence')
    BY <2>1, <2>2, <2>3, <2>8 DEF LogSafe
  <2>10. \A o \in Observations : Answering(o)' => \E l \in log' : l.obs = o
    BY <2>1, <2>4 DEF LogSafe
  <2> QED  BY <2>6, <2>7, <2>8, <2>9, <2>10 DEF LogSafe
<1>7. CASE GetReply(w)
  <2>1. /\ call'[w] = Idle /\ call[w].pc = "get.reply"
        /\ UNCHANGED <<log, sequence, queue, unsent>>
        /\ \A d \in delivered' : d \in delivered \/ d.obs = call[w].obs
    BY <1>7, <1>a, FinishMoves
    DEF GetReply, FinishAndRelease, recorder, clients, At, Chunk
  <2>2. \A o \in Observations : Pending(o)' => Pending(o)
    BY <1>a, <2>1 DEF Pending, Moves, Idle
  <2>3. \A o \in Observations : Answering(o)' => Answering(o)
    BY <1>a, <2>1 DEF Answering, Moves, Idle
  <2> QED  BY <1>a, <2>1, <2>2, <2>3, LogFrame
<1> QED  BY <1>1, <1>2, <1>3, <1>4, <1>5, <1>6, <1>7 DEF Calls, Step

LEMMA LogStop == ASSUME TypeInv, LogInv, Stop PROVE LogInv'
<1> SUFFICES ASSUME Logging, LogSafe PROVE LogSafe'
  BY DEF LogInv
<1>1. UNCHANGED <<log, sequence, queue, delivered, unsent>>
  BY DEF Stop, StopSet, StopClear, StopClose, StopGrace, history, recorder, clients
<1>2. \A v \in Workers : call'[v].pc = call[v].pc /\ call'[v].obs = call[v].obs
  BY StopTypes
<1>3. \A o \in Observations : (Answering(o)' => Answering(o)) /\ (Pending(o)' => Pending(o))
  BY <1>1, <1>2 DEF Answering, Pending
<1> QED  BY <1>1, <1>3, LogFrame DEF TypeInv

-----------------------------------------------------------------------------
(* What clients can rely on                                                *)

\* Queues, seeds and lines, on top of Inv.
Account == NewestInv /\ SeedInv /\ LogInv

LEMMA InitAccount == Init => Account
<1> SUFFICES ASSUME Init PROVE Account
  OBVIOUS
<1>1. \A w \in Workers : call[w].pc = "idle" /\ call[w].obs = NoObs
  BY DEF Init, Idle
<1>2. NewestInv
  BY <1>1 DEF Init, NewestInv, NewestWins, TakenIsNewest
<1>3. SeedInv
  BY <1>1 DEF Init, SeedInv, SeedSafe, SeedBound, SeedInHand, GetPcs, InferredPcs,
     CommittedPcs
<1>4. LogInv
  <2>1. \A o \in Observations : ~Answering(o)
    BY <1>1 DEF Init, Answering
  <2> QED  BY <2>1 DEF Init, LogInv, LogSafe
<1> QED  BY <1>2, <1>3, <1>4 DEF Account

LEMMA NextAccount == Inv /\ Account /\ [Next]_vars => Account'
<1> SUFFICES ASSUME Inv, Account, [Next]_vars PROVE Account'
  OBVIOUS
<1> USE DEF Inv, Account
<1>1. ASSUME NEW w \in Workers, Calls(w) \/ Cancel(w) \/ Step(w)  PROVE Account'
  BY <1>1, NewestStep, SeedStep, LogStep
<1>2. CASE Stop
  BY <1>2, NewestStop, SeedStop, LogStop
<1>3. CASE UNCHANGED vars
  <2>1. UNCHANGED <<predictionIndex, generation, queue, log, sequence, call, unsent,
                    newest, delivered>>
    BY <1>3 DEF vars, model, episode, recorder, clients, history
  <2>2. NewestInv'
    BY <2>1 DEF NewestInv, NewestWins, TakenIsNewest, Committing
  <2>3. SeedInv'
    BY <2>1 DEF SeedInv, SeedSafe, SeedBound, SeedInHand
  <2>4. LogInv'
    BY <2>1 DEF LogInv, LogSafe, Answering, Pending
  <2> QED  BY <2>2, <2>3, <2>4
<1> QED  BY <1>1, <1>2, <1>3 DEF Next

LEMMA Accounted == Spec => []Account
  BY InitAccount, NextAccount, Invariance, PTL DEF Spec

\* Put back by a cancelled waiter, or queued by a sender: what waits in a queue
\* is the last observation the queue accepted.
THEOREM QueuesHoldTheNewest == Spec => []NewestWins
<1>1. Account => NewestWins
  BY DEF Account, NewestInv
<1> QED  BY <1>1, Accounted, PTL

\* No two chunks of a session are computed from one seed.
THEOREM SeedsAreFresh == Spec => []SeedsNotReused
<1>1. Account => SeedsNotReused
  BY DEF Account, SeedInv, SeedSafe, SeedsNotReused
<1> QED  BY <1>1, Accounted, PTL

\* With a latency log every delivered chunk has one line, and a number no other
\* delivered chunk has.
THEOREM LinesIdentifyChunks == Spec => []LogIdentifiesChunks
<1>1. Inv /\ Account => LogIdentifiesChunks
  <2> SUFFICES ASSUME Inv, LogSafe, NEW d \in delivered
               PROVE  \E line \in log :
                         /\ line.obs = d.obs
                         /\ \A other \in log : other.obs = d.obs => other = line
                         /\ \A other \in log : /\ other.number = line.number
                                               /\ \E e \in delivered : e.obs = other.obs
                                               => other = line
    BY DEF Account, LogInv, LogIdentifiesChunks
  <2>1. d.obs \in Observations /\ Answering(d.obs)
    BY DEF Inv, TypeInv, TypeOK, Answering
  <2>2. PICK line \in log : line.obs = d.obs
    BY <2>1 DEF LogSafe
  <2>3. \A other \in log : other.obs = d.obs => other = line
    BY <2>2 DEF LogSafe
  <2>4. ASSUME NEW other \in log, other.number = line.number,
               NEW e \in delivered, e.obs = other.obs
        PROVE  other = line
    <3>1. Answering(other.obs)
      BY <2>4 DEF Answering
    <3> QED  BY <2>1, <2>2, <2>4, <3>1 DEF LogSafe
  <2> QED  BY <2>2, <2>3, <2>4
<1> QED  BY <1>1, Accounted, Invariance, PTL

-----------------------------------------------------------------------------
(* What the mapping needs beside the server's invariant                    *)

SenderPcs == {"send.receive", "send.filter"} \cup SendPcs
WantingPcs == {"policy.lock", "policy.load", "policy.install"}

\* A sender that puts finds room, and what it puts was never queued; a policy
\* that is installed is one a client asked for; and a reader finds in its queue,
\* even in one its session has left, only observations of the policy it uses.
Prepared(w) ==
    /\ call[w].pc = "send.put" => queue[generation] = NoObs
    /\ call[w].pc \in SenderPcs =>
          accepted[call[w].obs] = NeverQueued /\ policy # NoPolicy
    /\ call[w].pc \in WantingPcs => call[w].wanted \in Policies
    /\ call[w].pc = "get.take" /\ queue[call[w].source] # NoObs =>
          accepted[queue[call[w].source]].policy = policy

RefInv ==
    /\ \A o \in unsent : accepted[o] = NeverQueued
    /\ \A w \in Workers : Prepared(w)

\* A step that touches no queue and changes no policy.
LEMMA PreparedQuiet ==
    ASSUME RefInv, NEW w \in Workers, Moves(w),
           UNCHANGED <<queue, accepted, policy, generation>>, unsent' \subseteq unsent,
           Prepared(w)'
    PROVE  RefInv'
  BY DEF RefInv, Prepared, Moves

LEMMA PolicyCallWanted ==
    ASSUME TypeOK, NEW w \in Workers, PolicyCall(w)
    PROVE  call'[w].wanted \in Policies
  BY DEF PolicyCall, TypeOK, Calling

\* Every action of a worker keeps what the mapping needs.
LEMMA PreparedStep ==
    ASSUME Inv, RefInv, NEW w \in Workers, Calls(w) \/ Cancel(w) \/ Step(w)
    PROVE  RefInv'
<1>a. TypeOK /\ Moves(w) /\ Free \notin Workers /\ NoObs \notin Observations
      /\ LockDiscipline /\ NoPolicy \notin Policies
  BY ActorMoves, ServerConstants DEF Inv, TypeInv
<1>b. generation \in Generations /\ call[w].source \in Generations
      /\ queue \in [Generations -> Observations \cup {NoObs}]
      /\ \A v \in Workers : call[v].source \in Generations
      /\ DOMAIN accepted = Observations
  BY <1>a DEF TypeOK, Calling
<1>c. Prepared(w) /\ \A v \in Workers : call[v].pc \in CarryPcs => call[v].obs \in Observations
  BY DEF RefInv, Inv, TypeInv, HandsFull
<1>1. CASE \/ Cancel(w) \/ ReadyCall(w) \/ PolicyCall(w) \/ SendCall(w)
           \/ GetCall(w) \/ AbortUnlocked(w) \/ AbortLocked(w)
           \/ PolicyLock(w) \/ PolicyLoad(w) \/ SendReceive(w) \/ SendFilter(w)
           \/ SendDropEmpty(w) \/ GetLock(w) \/ GetPoll(w) \/ GetEmpty(w)
           \/ GetTimeout(w) \/ GetTaken(w) \/ GetRecheck(w) \/ GetMark(w)
           \/ GetPrepare(w) \/ GetInfer(w) \/ GetFail(w) \/ GetCheck(w)
           \/ GetReceipt(w) \/ GetWrite(w) \/ GetWriteFail(w) \/ GetReply(w)
  <2>1. UNCHANGED <<queue, accepted, policy, generation>> /\ unsent' \subseteq unsent
    BY <1>1
    DEF Cancel, ReadyCall, PolicyCall, SendCall, GetCall, AbortUnlocked,
        AbortLocked, PolicyLock, PolicyLoad, SendReceive, SendFilter,
        SendDropEmpty, GetLock, GetPoll, GetEmpty, GetTimeout, GetTaken,
        GetRecheck, GetMark, GetPrepare, GetInfer, GetFail, GetCheck,
        GetReceipt, GetWrite, GetWriteFail, GetReply, model, episode, clients,
        history
  <2>2. Prepared(w)'
    <3>1. CASE Cancel(w)
      BY <1>a, <1>c, <2>1, <3>1, CancelMoves DEF Keeps, Prepared
    <3>2. CASE PolicyCall(w)
      BY <1>a, <3>2, PolicyCallMoves, PolicyCallWanted
      DEF Prepared, SenderPcs, SendPcs
    <3>3. CASE SendCall(w)
      BY <1>a, <2>1, <3>3, SendCallMoves
      DEF SendCall, RefInv, Prepared, SenderPcs, SendPcs, WantingPcs
    <3>4. CASE GetLock(w) \/ GetInfer(w)
      BY <1>a, <3>4, GetLockMoves, GetInferMoves
      DEF Idle, Prepared, SenderPcs, SendPcs, WantingPcs
    <3>5. CASE GetPoll(w)
      <4>1. call'[w].pc = "get.take" /\ call'[w].source = generation /\ call[w].pc = "get.poll"
        BY <1>a, <3>5, GetPollMoves DEF GetPoll, At
      <4>2. \A v \in Workers : call[v].pc # "policy.clear"
        BY <1>a, <4>1, OneReader DEF HoldPcs, GetPcs, PolicyPcs
      <4>3. queue[generation] # NoObs => accepted[queue[generation]].policy = policy
        BY <4>2 DEF Inv, SessionInv, QueuedForPolicy
      <4> QED  BY <2>1, <4>1, <4>3 DEF Prepared, SenderPcs, SendPcs, WantingPcs
    <3>6. CASE SendFilter(w)
      <4>1. \/ call'[w] = Idle
            \/ /\ call'[w].pc \in SendPcs /\ call'[w].obs = call[w].obs
               /\ call'[w].pc = "send.put" => queue[generation] = NoObs
        BY <1>a, <3>6, GotoMoves, FinishMoves DEF SendFilter, Pcs, SendPcs
      <4> QED
        BY <1>c, <2>1, <3>6, <4>1
        DEF SendFilter, At, Idle, Prepared, SenderPcs, SendPcs, WantingPcs
    <3>7. CASE Finish(w)
      BY <1>a, <3>7, FinishMoves DEF Idle, Prepared, SenderPcs, SendPcs, WantingPcs
    <3>8. CASE \E label \in Pcs \ {"send.put", "get.take"} :
                  /\ Goto(w, label)
                  /\ label \in SenderPcs => call[w].pc \in SenderPcs
                  /\ label \in WantingPcs => call[w].pc \in WantingPcs
      BY <1>a, <1>c, <2>1, <3>8, GotoMoves DEF Prepared
    <3> QED
      BY <1>1, <3>1, <3>2, <3>3, <3>4, <3>5, <3>6, <3>7, <3>8
      DEF ReadyCall, GetCall, AbortUnlocked, AbortLocked, PolicyLock,
          PolicyLoad, SendReceive, SendDropEmpty, GetEmpty, GetTimeout,
          GetTaken, GetRecheck, GetMark, GetPrepare, GetFail, GetCheck,
          GetReceipt, GetWrite, GetWriteFail, GetReply, FinishAndRelease, At,
          SenderPcs, WantingPcs, Pcs, FreePcs, SendPcs, HoldPcs, GetPcs,
          PolicyPcs
  <2> QED  BY <1>a, <2>1, <2>2, PreparedQuiet
<1>2. CASE ReadyClear(w) \/ PolicyClear(w)
  <2>1. /\ call'[w] = Idle /\ UNCHANGED <<queue, accepted, policy, unsent>>
        /\ \A v \in Workers : call[v].pc # "send.put"
    BY <1>2, <1>a, FinishMoves
    DEF ReadyClear, PolicyClear, ClearEpisodeState, FinishAndRelease, history,
        model, clients, LockDiscipline, SendPcs
  <2>2. \A v \in Workers : Prepared(v)'
    BY <1>a, <2>1
    DEF Moves, Idle, RefInv, Prepared, SenderPcs, SendPcs, WantingPcs
  <2> QED  BY <2>1, <2>2 DEF RefInv
<1>3. CASE PolicyInstall(w)
  <2>1. /\ call'[w].pc = "policy.clear" /\ UNCHANGED <<queue, accepted, unsent, generation>>
        /\ policy' \in Policies /\ call[w].pc = "policy.install"
    BY <1>3, <1>a, <1>c, GotoMoves
    DEF PolicyInstall, At, Prepared, WantingPcs, episode, clients, history, Pcs,
        HoldPcs, PolicyPcs
  <2>2. \A v \in Workers : call'[v].pc # "get.take"
    <3>1. ASSUME NEW v \in Workers, call'[v].pc = "get.take" PROVE FALSE
      BY <1>a, <2>1, <3>1, OneReader DEF Moves, HoldPcs, GetPcs, PolicyPcs
    <3> QED  BY <3>1
  <2>3. \A v \in Workers : Prepared(v)'
    BY <1>a, <2>1, <2>2 DEF Moves, RefInv, Prepared, SenderPcs, SendPcs, WantingPcs
  <2> QED  BY <2>1, <2>3 DEF RefInv
<1>4. CASE SendDrop(w)
  <2>1. /\ call'[w].pc = "send.put" /\ call'[w].obs = call[w].obs
        /\ call[w].pc = "send.drop"
        /\ queue' = [queue EXCEPT ![generation] = NoObs]
        /\ UNCHANGED <<accepted, unsent, generation, policy>>
    BY <1>4, <1>a, GotoMoves
    DEF SendDrop, At, clients, history, model, Pcs, SendPcs
  <2>2. \A g \in Generations : queue'[g] = IF g = generation THEN NoObs ELSE queue[g]
    BY <1>b, <2>1
  <2>3. \A v \in Workers \ {w} : call'[v] = call[v]
    BY <1>a DEF Moves
  <2>4. Prepared(w)'
    BY <1>b, <1>c, <2>1, <2>2 DEF Prepared, SenderPcs, SendPcs, WantingPcs
  <2>5. \A v \in Workers \ {w} : Prepared(v)'
    BY <1>b, <2>1, <2>2, <2>3 DEF RefInv, Prepared
  <2> QED  BY <2>1, <2>4, <2>5 DEF RefInv
<1>5. CASE SendPut(w)
  <2>1. /\ call'[w] = Idle /\ call[w].pc = "send.put"
        /\ queue' = [queue EXCEPT ![generation] = call[w].obs]
        /\ accepted' = [accepted EXCEPT ![call[w].obs] =
                          [session |-> generation, policy |-> policy]]
        /\ UNCHANGED <<unsent, generation, policy>>
    BY <1>5, <1>a, FinishMoves DEF SendPut, At, clients, model
  <2>2. call[w].obs \in Observations
    BY <1>c, <2>1 DEF CarryPcs, SendPcs
  <2>3. \A g \in Generations : queue'[g] = IF g = generation THEN call[w].obs ELSE queue[g]
    BY <1>b, <2>1
  <2>4. /\ \A o \in Observations : o # call[w].obs => accepted'[o] = accepted[o]
        /\ accepted'[call[w].obs].policy = policy
    BY <1>b, <2>1, <2>2
  <2>5. /\ \A v \in Workers \ {w} : call'[v] = call[v] /\ call[v].obs # call[w].obs
        /\ \A o \in unsent : o # call[w].obs /\ o \in Observations
        /\ \A g \in Generations : queue[g] # call[w].obs
    BY <1>a, <2>2 DEF Moves, Inv, PlaceInv, TypeOK
  <2>6. \A v \in Workers \ {w} : call[v].pc # "send.put"
    BY <1>a, <2>1 DEF LockDiscipline, SendPcs
  <2>7. Prepared(w)'
    BY <2>1 DEF Prepared, Idle, SenderPcs, SendPcs, WantingPcs
  <2>8. ASSUME NEW v \in Workers \ {w} PROVE Prepared(v)'
    <3>1. Prepared(v) /\ call'[v] = call[v] /\ call[v].pc # "send.put"
      BY <2>5, <2>6 DEF RefInv
    <3>2. call[v].pc \in SenderPcs => accepted'[call[v].obs] = NeverQueued
      BY <1>c, <2>4, <2>5, <3>1 DEF Prepared, SenderPcs, CarryPcs
    <3>3. call[v].pc = "get.take" /\ queue'[call[v].source] # NoObs =>
             accepted'[queue'[call[v].source]].policy = policy
      BY <1>a, <1>b, <2>3, <2>4, <2>5, <3>1 DEF Prepared
    <3> QED  BY <2>1, <3>1, <3>2, <3>3 DEF Prepared
  <2>9. \A o \in unsent' : accepted'[o] = NeverQueued
    BY <2>1, <2>4, <2>5 DEF RefInv
  <2> QED  BY <2>7, <2>8, <2>9 DEF RefInv
<1>6. CASE GetTake(w) \/ GetRestore(w)
  <2>1. /\ call'[w].pc \in {"get.taken", "idle"} /\ call[w].pc \in HoldPcs
        /\ UNCHANGED <<accepted, unsent, generation, policy>>
    BY <1>6, <1>a, GetTakeMoves, FinishMoves
    DEF GetTake, GetRestore, FinishAndRelease, At, Idle, HoldPcs, GetPcs,
        clients, history, model, episode
  <2>2. \A v \in Workers : call'[v].pc # "get.take"
    <3>1. ASSUME NEW v \in Workers, call'[v].pc = "get.take" PROVE FALSE
      BY <1>a, <2>1, <3>1, OneReader DEF Moves, HoldPcs, GetPcs
    <3> QED  BY <3>1
  <2>3. \A v \in Workers : call[v].pc = "send.put" => queue'[generation] = NoObs
    <3>1. CASE GetTake(w)
      BY <1>a, <1>b, <3>1 DEF GetTake, RefInv, Prepared
    <3>2. CASE GetRestore(w)
      BY <1>a, <3>2 DEF GetRestore, LockDiscipline, SendPcs
    <3> QED  BY <1>6, <3>1, <3>2
  <2>4. \A v \in Workers : Prepared(v)'
    BY <1>a, <2>1, <2>2, <2>3 DEF Moves, RefInv, Prepared, SenderPcs, SendPcs, WantingPcs
  <2> QED  BY <2>1, <2>4 DEF RefInv
<1> QED  BY <1>1, <1>2, <1>3, <1>4, <1>5, <1>6 DEF Calls, Step

LEMMA PreparedStop == ASSUME Inv, RefInv, Stop PROVE RefInv'
<1>1. UNCHANGED <<queue, accepted, unsent, policy>>
      /\ \A v \in Workers : /\ call'[v].pc = call[v].pc /\ call'[v].obs = call[v].obs
                            /\ call'[v].source = call[v].source
                            /\ call'[v].wanted = call[v].wanted
  BY StopTypes DEF Inv
<1>2. CASE UNCHANGED generation
  BY <1>1, <1>2 DEF RefInv, Prepared
<1>3. CASE stateLock = Free
  <2>1. \A v \in Workers : call[v].pc # "send.put"
    BY <1>3, ServerConstants DEF Inv, LockDiscipline, SendPcs
  <2> QED  BY <1>1, <2>1 DEF RefInv, Prepared
<1> QED
  BY <1>2, <1>3
  DEF Stop, StopSet, StopClear, StopClose, StopGrace, episode, ClearEpisodeState

LEMMA InitPrepared == Init => RefInv
<1> SUFFICES ASSUME Init PROVE RefInv
  OBVIOUS
<1>1. \A w \in Workers : call[w].pc = "idle"
  BY DEF Init, Idle
<1>2. \A o \in unsent : accepted[o] = NeverQueued
  BY DEF Init
<1> QED
  BY <1>1, <1>2 DEF RefInv, Prepared, SenderPcs, SendPcs, WantingPcs

LEMMA NextPrepared == Inv /\ RefInv /\ [Next]_vars => RefInv'
<1> SUFFICES ASSUME Inv, RefInv, [Next]_vars PROVE RefInv'
  OBVIOUS
<1>1. CASE UNCHANGED vars
  BY <1>1 DEF vars, model, episode, clients, history, RefInv, Prepared
<1> QED  BY <1>1, PreparedStep, PreparedStop DEF Next

LEMMA AlwaysPrepared == Spec => []RefInv
  BY InitPrepared, NextPrepared, Invariance, PTL DEF Spec

-----------------------------------------------------------------------------
(* What the mailbox shows of a state of the server                         *)

PutPending == \E w \in Workers : call[w].pc = "send.put"

QueueEntry(g) ==
    IF queue[g] = NoObs THEN None ELSE Entry(queue[g], accepted[queue[g]].policy)

HeldBy(w) == [obs |-> call[w].obs, session |-> call[w].source,
              committed |-> call[w].pc \in CommittedPcs]

Shows ==
    /\ MailboxSlots = [g \in Generations |-> MailboxSlots[g]]
    /\ \A g \in Generations : ~(PutPending /\ g = generation) =>
          MailboxSlots[g] = QueueEntry(g)
    /\ \A w \in Workers : call[w].pc = "send.put" =>
          MailboxSlots[generation] = Entry(call[w].obs, policy)
    /\ \A w \in Workers : call[w].pc \in InHandPcs =>
          MailboxClaim = HeldBy(w) /\ MailboxClaim # None
    /\ (\A w \in Workers : call[w].pc \notin InHandPcs) => MailboxClaim = None
    /\ \A o \in Observations : o \in MailboxOffered <=>
          \/ accepted[o] # NeverQueued
          \/ \E w \in Workers : call[w].pc = "send.put" /\ call[w].obs = o
    /\ MailboxOffered \subseteq Observations

LEMMA ShowsState == Inv => Shows
<1> SUFFICES ASSUME Inv PROVE Shows
  OBVIOUS
<1>a. TypeOK /\ LockDiscipline /\ Free \notin Workers
  BY ServerConstants DEF Inv, TypeInv
<1>b. generation \in Generations /\ stateLock \in Workers \cup {Free}
      /\ inferenceLock \in Workers \cup {Free}
  BY <1>a DEF TypeOK
<1>1. Putting => stateLock \in Workers /\ call[stateLock].pc = "send.put"
  BY <1>b DEF Putting, At
<1>2. \A w \in Workers : call[w].pc = "send.put" => Putting /\ stateLock = w
  BY <1>a DEF Putting, At, LockDiscipline, SendPcs
<1>3. Predicting => inferenceLock \in Workers /\ call[inferenceLock].pc \in InHandPcs
  BY <1>b DEF Predicting, InHandPcs
<1>4. \A w \in Workers : call[w].pc \in InHandPcs => Predicting /\ inferenceLock = w
  BY <1>a DEF Predicting, InHandPcs, LockDiscipline, HoldPcs
<1>5. \A g \in Generations : ~(PutPending /\ g = generation) =>
          MailboxSlots[g] = QueueEntry(g)
  BY <1>1 DEF MailboxSlots, QueueEntry, PutPending
<1>6. \A w \in Workers : call[w].pc = "send.put" =>
          MailboxSlots[generation] = Entry(call[w].obs, policy)
  BY <1>b, <1>2 DEF MailboxSlots
<1>7. ASSUME NEW w \in Workers, call[w].pc \in InHandPcs
      PROVE  MailboxClaim = HeldBy(w) /\ MailboxClaim # None
  <2>1. MailboxClaim = HeldBy(w)
    BY <1>4, <1>7 DEF MailboxClaim, HeldBy
  <2>2. call[w].obs \in Observations /\ call[w].source \in Generations
    BY <1>a, <1>7 DEF TypeOK, Calling, Inv, TypeInv, HandsFull, CarryPcs, InHandPcs
  <2>3. (call[w].pc \in CommittedPcs) \in BOOLEAN
    OBVIOUS
  <2>4. HeldBy(w) \in Claims
    BY <2>2, <2>3 DEF HeldBy, Claims
  <2> QED  BY <2>1, <2>4, MailboxConstants
<1>8. (\A w \in Workers : call[w].pc \notin InHandPcs) => MailboxClaim = None
  BY <1>3 DEF MailboxClaim
<1>9. MailboxSlots = [g \in Generations |-> MailboxSlots[g]]
  BY DEF MailboxSlots
<1>10. \A o \in Observations : o \in MailboxOffered <=>
          \/ accepted[o] # NeverQueued
          \/ \E w \in Workers : call[w].pc = "send.put" /\ call[w].obs = o
  BY <1>1, <1>2 DEF MailboxOffered
<1>11. MailboxOffered \subseteq Observations
  BY DEF MailboxOffered
<1> QED  BY <1>5, <1>6, <1>7, <1>8, <1>9, <1>10, <1>11 DEF Shows

LEMMA ShowsAfter == Inv' => Shows'
  BY ShowsState, PTL

-----------------------------------------------------------------------------
(* What a step changes in the mailbox                                      *)

\* A slot is overwritten.
LEMMA SlotWritten ==
    ASSUME Shows, Shows', NEW g \in Generations, NEW e,
           \A h \in Generations : MailboxSlots'[h] = IF h = g THEN e ELSE MailboxSlots[h]
    PROVE  MailboxSlots' = [MailboxSlots EXCEPT ![g] = e]
<1>1. /\ MailboxSlots = [h \in Generations |-> MailboxSlots[h]]
      /\ MailboxSlots' = [h \in Generations |-> MailboxSlots'[h]]
  BY DEF Shows
<1> QED  BY <1>1

\* A pending put stays with its worker and in its session.
PutsStay ==
    \/ /\ generation' = generation
       /\ \A v \in Workers : /\ call'[v].pc = "send.put" <=> call[v].pc = "send.put"
                             /\ call[v].pc = "send.put" => call'[v].obs = call[v].obs
    \/ \A v \in Workers : call[v].pc # "send.put" /\ call'[v].pc # "send.put"

LEMMA SlotsStay ==
    ASSUME Shows, Shows', PutsStay, UNCHANGED <<queue, accepted>>,
           \/ UNCHANGED policy
           \/ \A v \in Workers : call[v].pc # "send.put" /\ call'[v].pc # "send.put"
    PROVE  UNCHANGED <<MailboxSlots, MailboxOffered>>
<1>1. ASSUME NEW g \in Generations PROVE MailboxSlots'[g] = MailboxSlots[g]
  <2>1. QueueEntry(g)' = QueueEntry(g)
    BY DEF QueueEntry
  <2>2. CASE \E v \in Workers : call[v].pc = "send.put" /\ g = generation
    BY <2>2 DEF Shows, PutsStay
  <2>3. CASE ~(PutPending /\ g = generation)
    <3>1. ~(PutPending' /\ g = generation')
      BY <2>3 DEF PutPending, PutsStay
    <3> QED  BY <2>1, <2>3, <3>1 DEF Shows
  <2> QED  BY <2>2, <2>3 DEF PutPending
<1>2. MailboxSlots' = MailboxSlots
  <2>1. /\ MailboxSlots = [h \in Generations |-> MailboxSlots[h]]
        /\ MailboxSlots' = [h \in Generations |-> MailboxSlots'[h]]
    BY DEF Shows
  <2> QED  BY <1>1, <2>1
<1>3. \A o \in Observations : o \in MailboxOffered' <=> o \in MailboxOffered
  BY DEF Shows, PutsStay
<1> QED  BY <1>2, <1>3 DEF Shows

\* Every prediction that goes on shows the same claim.
LEMMA ClaimStays ==
    ASSUME Shows, Shows',
           \A v \in Workers :
              /\ call'[v].pc \in InHandPcs <=> call[v].pc \in InHandPcs
              /\ call[v].pc \in InHandPcs => HeldBy(v)' = HeldBy(v)
    PROVE  MailboxClaim' = MailboxClaim
<1>1. CASE \E v \in Workers : call[v].pc \in InHandPcs
  BY <1>1 DEF Shows
<1>2. CASE \A v \in Workers : call[v].pc \notin InHandPcs
  BY <1>2 DEF Shows
<1> QED  BY <1>1, <1>2

\* A worker that gives up its observation leaves no claim.
LEMMA ClaimDrops ==
    ASSUME Inv, Shows, Shows', NEW w \in Workers, Moves(w),
           call[w].pc \in InHandPcs, call'[w].pc \notin InHandPcs
    PROVE  MailboxClaim = HeldBy(w) /\ MailboxClaim # None /\ MailboxClaim' = None
<1>1. \A v \in Workers : call'[v].pc \notin InHandPcs
  BY OneReader DEF Inv, Moves, InHandPcs, HoldPcs
<1> QED  BY <1>1 DEF Shows

\* Without an observation in a worker's hands there is no claim.
LEMMA NoClaim ==
    ASSUME Inv, Shows, NEW w \in Workers, call[w].pc \in HoldPcs \ InHandPcs
    PROVE  MailboxClaim = None
<1>1. \A v \in Workers : call[v].pc \notin InHandPcs
  BY OneReader DEF Inv, InHandPcs, HoldPcs
<1> QED  BY <1>1 DEF Shows

\* A step the mailbox does not see, or sees as a prediction that is given up.
LEMMA QuietSim ==
    ASSUME Inv, Shows, Shows', NEW w \in Workers, Moves(w),
           UNCHANGED <<queue, accepted, policy, generation, delivered>>,
           call'[w].pc = "send.put" <=> call[w].pc = "send.put",
           call[w].pc = "send.put" => call'[w].obs = call[w].obs,
           call'[w].pc \in InHandPcs =>
              /\ call[w].pc \in InHandPcs
              /\ HeldBy(w)' = HeldBy(w)
    PROVE  [Mailbox!Next]_Mailbox!vars
<1>1. UNCHANGED <<MailboxSlots, MailboxOffered>>
  <2>1. PutsStay
    BY DEF PutsStay, Moves
  <2> QED  BY <2>1, SlotsStay
<1>2. UNCHANGED MailboxAnswers
  BY DEF MailboxAnswers
<1>3. CASE call[w].pc \in InHandPcs /\ call'[w].pc \notin InHandPcs
  <2>1. MailboxClaim # None /\ MailboxClaim' = None
    BY <1>3, ClaimDrops
  <2> QED  BY <1>1, <1>2, <2>1 DEF Mailbox!Next, Mailbox!Abandon
<1>4. CASE call[w].pc \notin InHandPcs \/ call'[w].pc \in InHandPcs
  <2>1. \A v \in Workers :
              /\ call'[v].pc \in InHandPcs <=> call[v].pc \in InHandPcs
              /\ call[v].pc \in InHandPcs => HeldBy(v)' = HeldBy(v)
    BY <1>4 DEF Moves, HeldBy
  <2> QED  BY <1>1, <1>2, <2>1, ClaimStays DEF Mailbox!vars
<1> QED  BY <1>3, <1>4

-----------------------------------------------------------------------------
(* Every step of a worker is a step of the mailbox, or none                *)

LEMMA WorkerSim ==
    ASSUME Inv, Inv', RefInv, NEW w \in Workers, Calls(w) \/ Cancel(w) \/ Step(w)
    PROVE  [Mailbox!Next]_Mailbox!vars
<1>a. TypeOK /\ Moves(w) /\ Free \notin Workers /\ NoObs \notin Observations
      /\ LockDiscipline /\ NoPolicy \notin Policies
  BY ActorMoves, ServerConstants DEF Inv, TypeInv
<1>b. /\ generation \in Generations /\ call[w].source \in Generations
      /\ queue \in [Generations -> Observations \cup {NoObs}]
      /\ accepted \in [Observations -> [session : Generations,
                                        policy : Policies \cup {NoPolicy}]]
  BY <1>a DEF TypeOK, Calling
<1>c. Prepared(w) /\ (call[w].pc \in CarryPcs => call[w].obs \in Observations)
  BY DEF RefInv, Inv, TypeInv, HandsFull
<1>d. Shows /\ Shows'
  BY ShowsState, ShowsAfter
<1>e. stateLock = Free => \A v \in Workers : call[v].pc \notin SendPcs
  BY <1>a DEF LockDiscipline
<1>1. CASE \/ Cancel(w) \/ ReadyCall(w) \/ PolicyCall(w) \/ SendCall(w)
           \/ GetCall(w) \/ AbortUnlocked(w) \/ AbortLocked(w)
           \/ PolicyLock(w) \/ PolicyLoad(w) \/ SendReceive(w)
           \/ SendDropEmpty(w) \/ GetLock(w) \/ GetPoll(w) \/ GetEmpty(w)
           \/ GetTimeout(w) \/ GetTaken(w) \/ GetRecheck(w) \/ GetMark(w)
           \/ GetPrepare(w) \/ GetInfer(w) \/ GetFail(w)
           \/ GetReceipt(w) \/ GetWrite(w) \/ GetWriteFail(w)
  <2>1. UNCHANGED <<queue, accepted, policy, generation, delivered>>
    BY <1>1
    DEF Cancel, ReadyCall, PolicyCall, SendCall, GetCall, AbortUnlocked,
        AbortLocked, PolicyLock, PolicyLoad, SendReceive,
        SendDropEmpty, GetLock, GetPoll, GetEmpty, GetTimeout, GetTaken,
        GetRecheck, GetMark, GetPrepare, GetInfer, GetFail,
        GetReceipt, GetWrite, GetWriteFail, model, episode, history
  <2> DEFINE Same ==
               /\ call'[w].pc = "send.put" <=> call[w].pc = "send.put"
               /\ call[w].pc = "send.put" => call'[w].obs = call[w].obs
               /\ call'[w].pc \in InHandPcs =>
                     call[w].pc \in InHandPcs /\ HeldBy(w)' = HeldBy(w)
  <2>2. Same
    <3>1. CASE Cancel(w)
      BY <1>a, <3>1, CancelMoves DEF Keeps, HeldBy
    <3>2. CASE PolicyCall(w) \/ SendCall(w) \/ GetLock(w) \/ GetPoll(w)
      BY <1>a, <3>2, PolicyCallMoves, SendCallMoves, GetLockMoves, GetPollMoves
      DEF PolicyCall, SendCall, GetLock, GetPoll, At, Idle, InHandPcs, GetPcs
    <3>3. CASE GetInfer(w)
      <4>1. /\ call[w].pc = "get.infer" /\ call'[w].pc = "get.check"
            /\ call'[w].obs = call[w].obs /\ call'[w].source = call[w].source
        BY <1>a, <3>3, GetInferMoves DEF GetInfer, At, Keeps
      <4> QED  BY <4>1 DEF HeldBy, InHandPcs, GetPcs, CommittedPcs
    <3>4. CASE Finish(w) /\ call[w].pc # "send.put"
      BY <1>a, <3>4, FinishMoves DEF Idle, InHandPcs, GetPcs
    <3>5. CASE \E label \in Pcs \ {"send.put"} :
                  /\ Goto(w, label)
                  /\ call[w].pc # "send.put"
                  /\ label \in InHandPcs => call[w].pc \in InHandPcs
                  /\ label \in CommittedPcs <=> call[w].pc \in CommittedPcs
      BY <1>a, <3>5, GotoMoves DEF HeldBy
    <3> QED
      BY <1>1, <3>1, <3>2, <3>3, <3>4, <3>5
      DEF ReadyCall, GetCall, AbortUnlocked, AbortLocked, PolicyLock,
          PolicyLoad, SendReceive, SendDropEmpty, GetEmpty, GetTimeout,
          GetTaken, GetRecheck, GetMark, GetPrepare, GetFail,
          GetReceipt, GetWrite, GetWriteFail, FinishAndRelease, At,
          InHandPcs, CommittedPcs, Pcs, FreePcs, SendPcs, HoldPcs, GetPcs,
          PolicyPcs
  <2> QED  BY <1>a, <1>d, <2>1, <2>2, QuietSim
<1>2. CASE ReadyClear(w) \/ PolicyClear(w)
  <2>1. /\ call'[w] = Idle /\ call[w].pc \in {"ready.clear", "policy.clear"}
        /\ stateLock = Free /\ generation' = generation + 1
        /\ UNCHANGED <<queue, accepted, policy, delivered>>
    BY <1>2, <1>a, FinishMoves
    DEF ReadyClear, PolicyClear, ClearEpisodeState, FinishAndRelease, history,
        model, At
  <2>2. \A v \in Workers : call[v].pc # "send.put" /\ call'[v].pc # "send.put"
    BY <1>a, <1>e, <2>1 DEF Moves, Idle, SendPcs
  <2>3. UNCHANGED <<MailboxSlots, MailboxOffered>>
    BY <1>d, <2>1, <2>2, SlotsStay DEF PutsStay
  <2>4. UNCHANGED MailboxClaim
    <3>1. ASSUME NEW v \in Workers
          PROVE  /\ call'[v].pc \in InHandPcs <=> call[v].pc \in InHandPcs
                 /\ call[v].pc \in InHandPcs => HeldBy(v)' = HeldBy(v)
      BY <1>a, <2>1 DEF Moves, HeldBy, Idle, InHandPcs, GetPcs
    <3> QED  BY <1>d, <3>1, ClaimStays
  <2>5. UNCHANGED MailboxAnswers
    BY <2>1 DEF MailboxAnswers
  <2> QED  BY <2>1, <2>3, <2>4, <2>5 DEF Mailbox!Next, Mailbox!Reset
<1>3. CASE PolicyInstall(w)
  <2>1. /\ call'[w].pc = "policy.clear" /\ call[w].pc = "policy.install"
        /\ stateLock = Free
        /\ UNCHANGED <<queue, accepted, generation, delivered>>
        /\ policy' \in Policies
    BY <1>3, <1>a, <1>c, GotoMoves
    DEF PolicyInstall, At, Prepared, WantingPcs, episode, history, Pcs,
        HoldPcs, PolicyPcs
  <2>2. \A v \in Workers : call[v].pc # "send.put" /\ call'[v].pc # "send.put"
    BY <1>a, <1>e, <2>1 DEF Moves, SendPcs
  <2>3. UNCHANGED <<MailboxSlots, MailboxOffered>>
    BY <1>d, <2>1, <2>2, SlotsStay DEF PutsStay
  <2>4. MailboxClaim = None
    BY <1>d, <2>1, NoClaim DEF HoldPcs, PolicyPcs, InHandPcs, GetPcs
  <2>5. UNCHANGED MailboxClaim
    <3>1. ASSUME NEW v \in Workers
          PROVE  /\ call'[v].pc \in InHandPcs <=> call[v].pc \in InHandPcs
                 /\ call[v].pc \in InHandPcs => HeldBy(v)' = HeldBy(v)
      BY <1>a, <2>1 DEF Moves, HeldBy, InHandPcs, GetPcs
    <3> QED  BY <1>d, <3>1, ClaimStays
  <2>6. UNCHANGED MailboxAnswers
    BY <2>1 DEF MailboxAnswers
  <2> QED  BY <2>1, <2>3, <2>4, <2>5, <2>6 DEF Mailbox!Next, Mailbox!Install
<1>4. CASE SendFilter(w) \/ SendDrop(w)
  <2>1. CASE call'[w].pc # "send.put"
    <3>1. /\ UNCHANGED <<queue, accepted, policy, generation, delivered>>
          /\ call[w].pc = "send.filter" /\ call'[w].pc \notin InHandPcs
      BY <1>4, <1>a, <2>1, GotoMoves, FinishMoves
      DEF SendFilter, SendDrop, At, Idle, Pcs, SendPcs, model, episode, history,
          InHandPcs, GetPcs
    <3> QED  BY <1>a, <1>d, <2>1, <3>1, QuietSim
  <2>2. CASE call'[w].pc = "send.put"
    <3>1. /\ call[w].pc \in {"send.filter", "send.drop"}
          /\ call'[w].obs = call[w].obs
          /\ UNCHANGED <<accepted, policy, generation, delivered>>
          /\ queue' = queue \/ queue' = [queue EXCEPT ![generation] = NoObs]
      BY <1>4, <1>a, <2>2, GotoMoves, FinishMoves
      DEF SendFilter, SendDrop, At, Idle, Pcs, SendPcs, model, episode, history
    <3> DEFINE o == call[w].obs
    <3>2. /\ o \in Observations /\ accepted[o] = NeverQueued /\ policy # NoPolicy
      BY <1>c, <3>1 DEF CarryPcs, SendPcs, Prepared, SenderPcs
    <3>3. \A v \in Workers : /\ call[v].pc # "send.put"
                             /\ call'[v].pc = "send.put" => v = w
      <4>1. stateLock = Free \/ stateLock = w
        BY <1>4, <1>a, <3>1 DEF SendFilter, SendDrop, At, LockDiscipline, SendPcs
      <4>2. \A v \in Workers : call[v].pc = "send.put" => v = w
        BY <1>a, <4>1 DEF LockDiscipline, SendPcs
      <4> QED  BY <1>a, <3>1, <4>2 DEF Moves
    <3>4. o \notin MailboxOffered
      BY <1>d, <3>2, <3>3 DEF Shows
    <3>5. \A x \in Observations : x \in MailboxOffered' <=> x \in MailboxOffered \/ x = o
      BY <1>d, <2>2, <3>1, <3>2, <3>3 DEF Shows
    <3>6. MailboxOffered' = MailboxOffered \cup {o}
      BY <1>d, <3>2, <3>5 DEF Shows
    <3>7. ASSUME NEW g \in Generations
          PROVE  MailboxSlots'[g] = IF g = generation THEN Entry(o, policy)
                                    ELSE MailboxSlots[g]
      <4>1. CASE g = generation
        BY <1>d, <2>2, <3>1, <4>1 DEF Shows
      <4>2. CASE g # generation
        <5>1. queue'[g] = queue[g]
          BY <1>b, <3>1, <4>2
        <5>2. QueueEntry(g)' = QueueEntry(g)
          BY <3>1, <5>1 DEF QueueEntry
        <5> QED  BY <1>d, <3>1, <4>2, <5>2 DEF Shows
      <4> QED  BY <4>1, <4>2
    <3>8. MailboxSlots' = [MailboxSlots EXCEPT ![generation] = Entry(o, policy)]
      BY <1>b, <1>d, <3>7, SlotWritten
    <3>9. UNCHANGED MailboxClaim
      <4>1. ASSUME NEW v \in Workers
            PROVE  /\ call'[v].pc \in InHandPcs <=> call[v].pc \in InHandPcs
                   /\ call[v].pc \in InHandPcs => HeldBy(v)' = HeldBy(v)
        BY <1>a, <2>2, <3>1 DEF Moves, HeldBy, InHandPcs, GetPcs
      <4> QED  BY <1>d, <4>1, ClaimStays
    <3>10. UNCHANGED MailboxAnswers
      BY <3>1 DEF MailboxAnswers
    <3>11. Mailbox!Offer(o)
      BY <3>1, <3>2, <3>4, <3>6, <3>8, <3>9, <3>10 DEF Mailbox!Offer, Entry
    <3> QED  BY <3>2, <3>11 DEF Mailbox!Next
  <2> QED  BY <2>1, <2>2
<1>5. CASE SendPut(w)
  <2> DEFINE o == call[w].obs
  <2>1. /\ call'[w] = Idle /\ call[w].pc = "send.put"
        /\ queue' = [queue EXCEPT ![generation] = o]
        /\ accepted' = [accepted EXCEPT ![o] = [session |-> generation,
                                                policy |-> policy]]
        /\ UNCHANGED <<generation, policy, delivered>>
    BY <1>5, <1>a, FinishMoves DEF SendPut, At, model
  <2>2. o \in Observations /\ policy # NoPolicy
    BY <1>c, <2>1 DEF CarryPcs, SendPcs, Prepared, SenderPcs
  <2>3. /\ \A x \in Observations : x # o => accepted'[x] = accepted[x]
        /\ accepted'[o] = [session |-> generation, policy |-> policy]
        /\ queue'[generation] = o
        /\ \A g \in Generations : g # generation => queue'[g] = queue[g]
    BY <1>b, <2>1, <2>2
  <2>4. \A v \in Workers : /\ call[v].pc = "send.put" => v = w
                           /\ call'[v].pc # "send.put"
    BY <1>a, <2>1 DEF LockDiscipline, SendPcs, Moves, Idle
  <2>5. ASSUME NEW g \in Generations PROVE MailboxSlots'[g] = MailboxSlots[g]
    <3>1. MailboxSlots'[g] = QueueEntry(g)'
      BY <1>d, <2>4 DEF Shows, PutPending
    <3>2. CASE g = generation
      <4>1. QueueEntry(g)' = Entry(o, policy)
        BY <1>a, <2>2, <2>3, <3>2 DEF QueueEntry
      <4> QED  BY <1>d, <2>1, <3>1, <3>2, <4>1 DEF Shows
    <3>3. CASE g # generation
      <4>1. queue[g] # o /\ (queue[g] # NoObs => queue[g] \in Observations)
        BY <1>b, <2>2 DEF Inv, PlaceInv
      <4>2. QueueEntry(g)' = QueueEntry(g)
        BY <2>3, <3>3, <4>1 DEF QueueEntry
      <4> QED  BY <1>d, <3>1, <3>3, <4>2 DEF Shows
    <3> QED  BY <3>2, <3>3
  <2>6. MailboxSlots' = MailboxSlots
    BY <1>d, <2>5 DEF Shows
  <2>7. MailboxOffered' = MailboxOffered
    <3>1. accepted'[o] # NeverQueued
      BY <2>2, <2>3 DEF NeverQueued
    <3>2. \A x \in Observations : x \in MailboxOffered' <=> x \in MailboxOffered
      BY <1>d, <2>1, <2>3, <2>4, <3>1 DEF Shows
    <3> QED  BY <1>d, <3>2 DEF Shows
  <2>8. UNCHANGED MailboxClaim
    <3>1. ASSUME NEW v \in Workers
          PROVE  /\ call'[v].pc \in InHandPcs <=> call[v].pc \in InHandPcs
                 /\ call[v].pc \in InHandPcs => HeldBy(v)' = HeldBy(v)
      BY <1>a, <2>1 DEF Moves, HeldBy, Idle, InHandPcs, GetPcs
    <3> QED  BY <1>d, <3>1, ClaimStays
  <2>9. UNCHANGED MailboxAnswers
    BY <2>1 DEF MailboxAnswers
  <2> QED  BY <2>1, <2>6, <2>7, <2>8, <2>9 DEF Mailbox!vars
<1>6. CASE GetTake(w)
  <2> DEFINE g == call[w].source
             o == queue[g]
  <2>1. /\ call[w].pc = "get.take" /\ call'[w].pc = "get.taken"
        /\ call'[w].obs = o /\ o # NoObs /\ o \in Observations
        /\ call'[w].source = g
        /\ queue' = [queue EXCEPT ![g] = NoObs]
        /\ UNCHANGED <<generation, policy, delivered, accepted>>
    BY <1>6, <1>a, GetTakeMoves DEF GetTake, At, Keeps, model, episode, history
  <2>2. MailboxClaim = None
    BY <1>d, <2>1, NoClaim DEF HoldPcs, InHandPcs, GetPcs
  <2>3. ~(PutPending /\ g = generation)
    BY <2>1 DEF PutPending, RefInv, Prepared
  <2>4. MailboxSlots[g] = Entry(o, policy)
    <3>1. accepted[o].policy = policy
      BY <1>c, <2>1 DEF Prepared
    <3> QED  BY <1>b, <1>d, <2>1, <2>3, <3>1 DEF Shows, QueueEntry
  <2>5. MailboxSlots[g] # None
    <3>1. policy \in Policies \cup {NoPolicy}
      BY <1>a DEF TypeOK
    <3>2. Entry(o, policy) \in Slots
      BY <2>1, <3>1 DEF Entry, Slots
    <3> QED  BY <2>4, <3>2, MailboxConstants
  <2>6. MailboxClaim' = [obs |-> o, session |-> g, committed |-> FALSE]
    <3>1. MailboxClaim' = HeldBy(w)'
      BY <1>d, <2>1 DEF Shows, InHandPcs, GetPcs
    <3>2. (call'[w].pc \in CommittedPcs) = FALSE
      BY <2>1 DEF CommittedPcs
    <3> QED  BY <2>1, <3>1, <3>2 DEF HeldBy
  <2>7. \A v \in Workers : /\ call'[v].pc = "send.put" <=> call[v].pc = "send.put"
                           /\ call[v].pc = "send.put" => call'[v].obs = call[v].obs
    BY <1>a, <2>1 DEF Moves
  <2>8. ASSUME NEW h \in Generations
        PROVE  MailboxSlots'[h] = IF h = g THEN None ELSE MailboxSlots[h]
    <3>1. CASE h = g
      <4>1. ~(PutPending' /\ h = generation')
        BY <2>1, <2>3, <2>7, <3>1 DEF PutPending
      <4>2. QueueEntry(h)' = None
        BY <1>b, <2>1, <3>1 DEF QueueEntry
      <4> QED  BY <1>d, <3>1, <4>1, <4>2 DEF Shows
    <3>2. CASE h # g
      <4>1. queue'[h] = queue[h]
        BY <1>b, <2>1, <3>2
      <4>2. QueueEntry(h)' = QueueEntry(h)
        BY <2>1, <4>1 DEF QueueEntry
      <4>3. CASE PutPending /\ h = generation
        BY <1>d, <2>1, <2>7, <3>2, <4>3 DEF Shows, PutPending
      <4>4. CASE ~(PutPending /\ h = generation)
        <5>1. ~(PutPending' /\ h = generation')
          BY <2>1, <2>7, <4>4 DEF PutPending
        <5> QED  BY <1>d, <3>2, <4>2, <4>4, <5>1 DEF Shows
      <4> QED  BY <4>3, <4>4
    <3> QED  BY <3>1, <3>2
  <2>9. MailboxSlots' = [MailboxSlots EXCEPT ![g] = None]
    BY <1>b, <1>d, <2>8, SlotWritten
  <2>10. MailboxOffered' = MailboxOffered
    <3>1. \A x \in Observations : x \in MailboxOffered' <=> x \in MailboxOffered
      BY <1>d, <2>1, <2>7 DEF Shows
    <3> QED  BY <1>d, <3>1 DEF Shows
  <2>11. UNCHANGED MailboxAnswers
    BY <2>1 DEF MailboxAnswers
  <2>12. Mailbox!Claim(g)
    BY <2>1, <2>2, <2>4, <2>5, <2>6, <2>9, <2>10, <2>11 DEF Mailbox!Claim, Entry
  <2> QED  BY <1>b, <2>12 DEF Mailbox!Next
<1>7. CASE GetRestore(w)
  <2> DEFINE g == call[w].source
             o == call[w].obs
  <2>1. /\ call[w].pc = "get.taken" /\ call'[w] = Idle /\ stateLock = Free
        /\ UNCHANGED <<generation, policy, delivered, accepted>>
        /\ queue' = IF CanRestore(w) THEN [queue EXCEPT ![g] = o] ELSE queue
    BY <1>7, <1>a, FinishMoves
    DEF GetRestore, FinishAndRelease, At, model, episode, history
  <2>2. CASE ~CanRestore(w)
    <3>1. queue' = queue
      BY <2>1, <2>2
    <3>2. call'[w].pc # "send.put" /\ call'[w].pc \notin InHandPcs
      BY <2>1 DEF Idle, InHandPcs, GetPcs
    <3> QED  BY <1>a, <1>d, <2>1, <3>1, <3>2, QuietSim
  <2>3. CASE CanRestore(w)
    <3>1. g = generation /\ queue[g] = NoObs /\ queue' = [queue EXCEPT ![g] = o]
          /\ o \in Observations
      BY <1>c, <2>1, <2>3 DEF CanRestore, CarryPcs, GetPcs
    <3>2. accepted[o].policy = policy
      BY <2>1, <3>1 DEF Inv, SessionInv, GetInSession, InHandPcs, GetPcs
    <3>3. /\ MailboxClaim = HeldBy(w) /\ MailboxClaim # None
          /\ MailboxClaim' = None
      BY <1>a, <1>d, <2>1, ClaimDrops DEF Idle, InHandPcs, GetPcs
    <3>4. \A v \in Workers : call[v].pc # "send.put" /\ call'[v].pc # "send.put"
      BY <1>a, <1>e, <2>1 DEF Moves, Idle, SendPcs
    <3>5. /\ \A h \in Generations : MailboxSlots[h] = QueueEntry(h)
          /\ \A h \in Generations : MailboxSlots'[h] = QueueEntry(h)'
      BY <1>d, <3>4 DEF Shows, PutPending
    <3>6. MailboxSlots[generation] = None
      BY <1>b, <3>1, <3>5 DEF QueueEntry
    <3>7. ASSUME NEW h \in Generations
          PROVE  MailboxSlots'[h] = IF h = generation THEN Entry(o, policy)
                                    ELSE MailboxSlots[h]
      <4>1. queue'[h] = IF h = generation THEN o ELSE queue[h]
        BY <1>b, <3>1
      <4>2. CASE h = generation
        BY <1>a, <2>1, <3>1, <3>2, <3>5, <4>1, <4>2 DEF QueueEntry
      <4>3. CASE h # generation
        BY <2>1, <3>5, <4>1, <4>3 DEF QueueEntry
      <4> QED  BY <4>2, <4>3
    <3>8. MailboxSlots' = [MailboxSlots EXCEPT ![generation] = Entry(o, policy)]
      BY <1>b, <1>d, <3>7, SlotWritten
    <3>9. MailboxOffered' = MailboxOffered
      <4>1. \A x \in Observations : x \in MailboxOffered' <=> x \in MailboxOffered
        BY <1>d, <2>1, <3>4 DEF Shows
      <4> QED  BY <1>d, <4>1 DEF Shows
    <3>10. UNCHANGED MailboxAnswers
      BY <2>1 DEF MailboxAnswers
    <3>11. MailboxClaim.obs = o /\ MailboxClaim.session = g
           /\ ~MailboxClaim.committed
      BY <2>1, <3>3 DEF HeldBy, CommittedPcs
    <3>12. Mailbox!PutBack
      BY <2>1, <3>1, <3>3, <3>6, <3>8, <3>9, <3>10, <3>11
      DEF Mailbox!PutBack, Entry
    <3> QED  BY <3>12 DEF Mailbox!Next
  <2> QED  BY <2>2, <2>3
<1>8. CASE GetCheck(w)
  <2>1. /\ call[w].pc = "get.check"
        /\ UNCHANGED <<queue, accepted, policy, generation, delivered>>
    BY <1>8 DEF GetCheck, At, model, episode, history
  <2>2. CASE Finish(w)
    <3>1. call'[w].pc # "send.put" /\ call'[w].pc \notin InHandPcs
      BY <1>a, <2>2, FinishMoves DEF Idle, InHandPcs, GetPcs
    <3> QED  BY <1>a, <1>d, <2>1, <3>1, QuietSim
  <2>3. CASE call[w].captured = generation /\ Goto(w, "get.receipt")
    <3>1. /\ call'[w].pc = "get.receipt" /\ call'[w].obs = call[w].obs
          /\ call'[w].source = call[w].source
      BY <1>a, <2>3, GotoMoves DEF Pcs, HoldPcs, GetPcs
    <3>2. call[w].source = generation
      <4>1. call[w].captured <= call[w].source /\ call[w].source <= generation
        BY <2>1 DEF Inv, SessionInv, GetInSession, GetPcs
      <4> QED  BY <1>b, <2>3, <4>1 DEF Generations
    <3>3. /\ MailboxClaim = HeldBy(w) /\ MailboxClaim # None
          /\ MailboxClaim' = HeldBy(w)'
      BY <1>d, <2>1, <3>1 DEF Shows, InHandPcs, GetPcs
    <3>4. /\ MailboxClaim.session = generation /\ ~MailboxClaim.committed
          /\ MailboxClaim' = [obs |-> MailboxClaim.obs, session |-> generation,
                            committed |-> TRUE]
      <4>1. (call[w].pc \in CommittedPcs) = FALSE
            /\ (call'[w].pc \in CommittedPcs) = TRUE
        BY <2>1, <3>1 DEF CommittedPcs
      <4>2. MailboxClaim = [obs |-> call[w].obs, session |-> call[w].source,
                            committed |-> FALSE]
        BY <3>3, <4>1 DEF HeldBy
      <4>3. MailboxClaim' = [obs |-> call[w].obs, session |-> call[w].source,
                             committed |-> TRUE]
        BY <3>1, <3>3, <4>1 DEF HeldBy
      <4>4. MailboxClaim' = [obs |-> MailboxClaim.obs, session |-> generation,
                             committed |-> TRUE]
        BY <3>2, <4>2, <4>3
      <4>5. MailboxClaim.session = generation /\ ~MailboxClaim.committed
        BY <3>2, <4>2
      <4> QED  BY <4>4, <4>5
    <3>5. UNCHANGED <<MailboxSlots, MailboxOffered>>
      <4>1. PutsStay
        BY <1>a, <2>1, <3>1 DEF PutsStay, Moves
      <4> QED  BY <1>d, <2>1, <4>1, SlotsStay
    <3>6. UNCHANGED MailboxAnswers
      BY <2>1 DEF MailboxAnswers
    <3> QED
      BY <2>1, <3>3, <3>4, <3>5, <3>6 DEF Mailbox!Next, Mailbox!Commit
  <2> QED  BY <1>8, <2>2, <2>3 DEF GetCheck, FinishAndRelease
<1>9. CASE GetReply(w)
  <2>1. /\ call[w].pc = "get.reply" /\ call'[w] = Idle
        /\ UNCHANGED <<queue, accepted, policy, generation>>
        /\ delivered' = delivered \cup (IF call[w].active THEN {Chunk(w)} ELSE {})
    BY <1>9, <1>a, FinishMoves
    DEF GetReply, FinishAndRelease, At, model, episode
  <2>2. call'[w].pc # "send.put" /\ call'[w].pc \notin InHandPcs
    BY <2>1 DEF Idle, InHandPcs, GetPcs
  <2>3. CASE ~call[w].active
    <3>1. delivered' = delivered
      BY <2>1, <2>3
    <3> QED  BY <1>a, <1>d, <2>1, <2>2, <3>1, QuietSim
  <2>4. CASE call[w].active
    <3>1. /\ MailboxClaim = HeldBy(w) /\ MailboxClaim # None
          /\ MailboxClaim' = None
      BY <1>a, <1>d, <2>1, <2>2, ClaimDrops DEF InHandPcs, GetPcs
    <3>2. /\ MailboxClaim.committed /\ MailboxClaim.obs = call[w].obs
          /\ MailboxClaim.session = call[w].source
      BY <2>1, <3>1 DEF HeldBy, CommittedPcs
    <3>3. call[w].source = call[w].captured /\ call[w].wanted = policy
      BY <2>1 DEF Inv, SessionInv, GetInSession, CommittedPcs
    <3>4. delivered' = delivered \cup {Chunk(w)}
      BY <2>1, <2>4
    <3>5. MailboxAnswers' = MailboxAnswers \cup
             {[obs |-> MailboxClaim.obs, session |-> MailboxClaim.session,
               policy |-> policy]}
      <4>1. /\ Chunk(w).obs = MailboxClaim.obs
            /\ Chunk(w).session = MailboxClaim.session
            /\ Chunk(w).policy = policy
        BY <3>2, <3>3 DEF Chunk
      <4> QED  BY <3>4, <4>1 DEF MailboxAnswers
    <3>6. UNCHANGED <<MailboxSlots, MailboxOffered>>
      <4>1. PutsStay
        BY <1>a, <2>1, <2>2 DEF PutsStay, Moves
      <4> QED  BY <1>d, <2>1, <4>1, SlotsStay
    <3> QED
      BY <2>1, <3>1, <3>2, <3>5, <3>6 DEF Mailbox!Next, Mailbox!Answer
  <2> QED  BY <2>3, <2>4
<1> QED  BY <1>1, <1>2, <1>3, <1>4, <1>5, <1>6, <1>7, <1>8, <1>9 DEF Calls, Step

\* stop() ends the session once; its other steps do not show.
LEMMA StopSim ==
    ASSUME Inv, Inv', Stop
    PROVE  [Mailbox!Next]_Mailbox!vars
<1>a. Shows /\ Shows'
  BY ShowsState, ShowsAfter
<1>1. /\ UNCHANGED <<policy, queue, accepted, delivered>>
      /\ \A v \in Workers : /\ call'[v].pc = call[v].pc /\ call'[v].obs = call[v].obs
                            /\ call'[v].source = call[v].source
  BY StopTypes DEF Inv
<1>2. \/ generation' = generation
      \/ /\ generation' = generation + 1
         /\ \A v \in Workers : call[v].pc # "send.put"
  <2>1. CASE StopClear
    BY <2>1, ServerConstants
    DEF StopClear, ClearEpisodeState, Inv, LockDiscipline, SendPcs
  <2>2. CASE StopSet \/ StopClose \/ StopGrace
    BY <2>2 DEF StopSet, StopClose, StopGrace, episode
  <2> QED  BY <2>1, <2>2 DEF Stop
<1>3. UNCHANGED <<MailboxSlots, MailboxOffered>>
  <2>1. PutsStay
    BY <1>1, <1>2 DEF PutsStay
  <2> QED  BY <1>a, <1>1, <2>1, SlotsStay
<1>4. UNCHANGED MailboxClaim
  <2>1. \A v \in Workers :
           /\ call'[v].pc \in InHandPcs <=> call[v].pc \in InHandPcs
           /\ call[v].pc \in InHandPcs => HeldBy(v)' = HeldBy(v)
    BY <1>1 DEF HeldBy
  <2> QED  BY <1>a, <2>1, ClaimStays
<1>5. UNCHANGED MailboxAnswers
  BY <1>1 DEF MailboxAnswers
<1>6. CASE generation' = generation
  BY <1>1, <1>3, <1>4, <1>5, <1>6 DEF Mailbox!vars
<1>7. CASE generation' = generation + 1
  BY <1>1, <1>3, <1>4, <1>5, <1>7 DEF Mailbox!Next, Mailbox!Reset
<1> QED  BY <1>2, <1>6, <1>7

\* A new server is an empty mailbox.
LEMMA InitSim == Init => Mailbox!Init
<1> SUFFICES ASSUME Init PROVE Mailbox!Init
  OBVIOUS
<1>1. /\ \A w \in Workers : call[w].pc = "idle"
      /\ \A o \in Observations : accepted[o] = NeverQueued
  BY DEF Init, Idle
<1>2. /\ Shows /\ generation = 0 /\ policy = NoPolicy /\ delivered = {}
      /\ \A g \in Generations : queue[g] = NoObs
  BY InitInv, ShowsState DEF Init
<1>3. MailboxSlots = [g \in Generations |-> None]
  <2>1. \A g \in Generations : MailboxSlots[g] = None
    BY <1>1, <1>2 DEF Shows, PutPending, QueueEntry
  <2> QED  BY <1>2, <2>1 DEF Shows
<1>4. MailboxClaim = None
  BY <1>1, <1>2 DEF Shows, InHandPcs, GetPcs
<1>5. MailboxOffered = {}
  BY <1>1, <1>2 DEF Shows
<1>6. MailboxAnswers = {}
  BY <1>2 DEF MailboxAnswers
<1> QED  BY <1>2, <1>3, <1>4, <1>5, <1>6 DEF Mailbox!Init

\* ImplementsMailbox, for any number of workers, observations, policies and
\* resets: every behaviour of the gRPC threads, with their cancellations, aborts
\* and failed predictions, is one of a mailbox that keeps the newest observation
\* of each session, predicts one at a time, and answers only from the session and
\* with the policy the observation was offered to.
THEOREM MailboxRefined == Spec => ImplementsMailbox
<1>1. Inv /\ RefInv /\ Inv' /\ [Next]_vars => [Mailbox!Next]_Mailbox!vars
  <2> SUFFICES ASSUME Inv, RefInv, Inv', [Next]_vars
               PROVE  [Mailbox!Next]_Mailbox!vars
    OBVIOUS
  <2>1. CASE UNCHANGED vars
    BY <2>1
    DEF vars, model, episode, locks, history, Mailbox!vars, MailboxSlots, Putting,
        At, MailboxClaim, Predicting, MailboxOffered, MailboxAnswers
  <2> QED  BY <2>1, WorkerSim, StopSim DEF Next
<1>2. Spec => []Inv /\ []RefInv
  BY Invariance, AlwaysPrepared, PTL
<1> QED  BY <1>1, <1>2, InitSim, PTL DEF Spec, ImplementsMailbox, Mailbox!Spec
=============================================================================

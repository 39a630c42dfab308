---------------------------- MODULE PolicyServer ----------------------------
(***************************************************************************)
(* NativeMLXPolicyServer (mlx_smolvla/server.py): the four LeRobot RPCs    *)
(* executed by a pool of gRPC worker threads over one policy, one          *)
(* newest-observation queue of size one, an inference lock and a state     *)
(* lock.                                                                   *)
(*                                                                         *)
(* A worker runs one handler at a time; call[w].pc names the statement it  *)
(* is about to execute.  A section under the state lock is one action,     *)
(* except the enqueue: consumers take from the queue WITHOUT that lock, so *)
(* its tests and its queue calls are actions of their own.                 *)
(*                                                                         *)
(* _clear_episode_state increments _generation and replaces the queue in   *)
(* one locked section, so a queue object is identified by the generation   *)
(* it was created in: queue[generation] is self.observation_queue, and a   *)
(* worker may still hold a reference to an older one.                      *)
(***************************************************************************)
EXTENDS Naturals, FiniteSets

CONSTANTS
    Workers,        \* gRPC worker threads (max_workers)
    Observations,   \* the TimedObservation objects the clients ever send
    Policies,       \* checkpoints a client may ask for
    TimestepOf,     \* [Observations -> Nat]: TimedObservation.timestep
    MustGo,         \* the observations sent with must_go
    Similar,        \* pairs that observations_similar holds of
    MaxResets,      \* bound: Ready and SendPolicyInstructions calls started
    Logging,        \* config.latency_log is set
    Seeded,         \* config.seed is set
    NoObs, NoPolicy, Free

ASSUME ServerConstants ==
    /\ IsFiniteSet(Workers)
    /\ TimestepOf \in [Observations -> Nat]
    /\ MustGo \subseteq Observations
    /\ Similar \subseteq Observations \X Observations
    /\ MaxResets \in Nat
    /\ Logging \in BOOLEAN
    /\ Seeded \in BOOLEAN
    /\ NoObs \notin Observations
    /\ NoPolicy \notin Policies
    /\ Free \notin Workers

VARIABLES
    policy,          \* self.policy
    predictionIndex, \* self._prediction_index
    generation,      \* self._generation
    receipts,        \* keys of self._observation_receipts
    predicted,       \* self._predicted_timesteps
    lastProcessed,   \* self.last_processed_obs
    queue,           \* queue[g]: the content of the queue made by generation g
    inferenceLock,   \* holder of self._inference_lock
    stateLock,       \* holder of self._state_lock across an enqueue
    stopping,        \* progress of the shutdown; self._stopped is set unless "up"
    log,             \* lines of the latency log: observation and number
    sequence,        \* the recorder's next number
    call,            \* per worker: the handler it runs, with its local variables
    resets,          \* Ready and SendPolicyInstructions calls started
    unsent,          \* observations no client has sent yet
    accepted,        \* history: [o |-> session and policy it was queued under]
    newest,          \* history: newest[g] is the last observation queued in g
    delivered        \* history: the chunks clients received

model    == <<policy, predictionIndex>>
episode  == <<generation, receipts, predicted, lastProcessed>>
locks    == <<inferenceLock, stateLock>>
recorder == <<log, sequence>>
clients  == <<resets, unsent>>
history  == <<accepted, newest, delivered>>
vars == <<model, episode, queue, locks, stopping, recorder, call, clients,
          history>>

Generations == 0 .. MaxResets + 1
NeverQueued == [session |-> 0, policy |-> NoPolicy]

\* active: context.is_active(); obs: the observation in the worker's hands;
\* captured, source: GetActions' `generation` and `observation_queue`;
\* wanted: the policy being loaded, or used for the chunk; seed: its seed.
Idle == [pc |-> "idle", active |-> TRUE, obs |-> NoObs, captured |-> 0,
         source |-> 0, wanted |-> NoPolicy, seed |-> 0]

PolicyPcs == {"policy.load", "policy.install", "policy.clear"}
GetPcs    == {"get.poll", "get.take", "get.taken", "get.recheck", "get.mark",
              "get.prepare", "get.infer", "get.check", "get.receipt",
              "get.write", "get.reply"}
HoldPcs   == PolicyPcs \cup GetPcs
SendPcs   == {"send.drop", "send.put"}
FreePcs   == {"idle", "ready.clear", "policy.lock", "get.lock", "send.receive",
              "send.filter"}

Running == stopping = "up"
At(w, label) == call[w].pc = label
CheckActive(w) == call[w].active /\ Running  \* what _check_active lets through

Goto(w, label) == call' = [call EXCEPT ![w].pc = label]

\* The handler leaves: by return, or by _abort, which always raises.
Finish(w) == call' = [call EXCEPT ![w] = Idle]

\* ... through the `finally` that releases the inference lock.
FinishAndRelease(w) ==
    /\ Finish(w)
    /\ inferenceLock' = Free
    /\ UNCHANGED stateLock

Init ==
    /\ policy = NoPolicy
    /\ predictionIndex = 0
    /\ generation = 0
    /\ receipts = {}
    /\ predicted = {}
    /\ lastProcessed = NoObs
    /\ queue = [g \in Generations |-> NoObs]
    /\ inferenceLock = Free
    /\ stateLock = Free
    /\ stopping = "up"
    /\ log = {}
    /\ sequence = 0
    /\ call = [w \in Workers |-> Idle]
    /\ resets = 0
    /\ unsent = Observations
    /\ accepted = [o \in Observations |-> NeverQueued]
    /\ newest = [g \in Generations |-> NoObs]
    /\ delivered = {}

-----------------------------------------------------------------------------
(* Cancellation and the episode reset                                      *)

\* The client cancels the RPC, or its deadline passes: is_active() turns false.
Cancel(w) ==
    /\ ~At(w, "idle") /\ call[w].active
    /\ call' = [call EXCEPT ![w].active = FALSE]
    /\ UNCHANGED <<model, episode, queue, locks, stopping, recorder, clients,
                   history>>

\* Mutant of AbortUnlocked: the wait for the inference lock is not polled.
AbortUnlocked_NoLockPoll(w) ==
    /\ At(w, "send.receive")
    /\ ~CheckActive(w)
    /\ Finish(w)
    /\ UNCHANGED <<model, episode, queue, locks, stopping, recorder, clients,
                   history>>

\* _check_active aborts, with CANCELLED or UNAVAILABLE, a worker that waits for
\* the inference lock or for the next message of a stream, ...
AbortUnlocked(w) ==
    /\ call[w].pc \in {"policy.lock", "get.lock", "send.receive"}
    /\ ~CheckActive(w)
    /\ Finish(w)
    /\ UNCHANGED <<model, episode, queue, locks, stopping, recorder, clients,
                   history>>

\* ... and one that holds the inference lock.
AbortLocked(w) ==
    /\ call[w].pc \in {"policy.load", "get.poll", "get.recheck", "get.check",
                       "get.reply"}
    /\ ~CheckActive(w)
    /\ FinishAndRelease(w)
    /\ UNCHANGED <<model, episode, queue, stopping, recorder, clients, history>>

\* _clear_episode_state.  policy.reset() only clears the queue of
\* select_action, which no RPC uses.
ClearEpisodeState ==
    /\ stateLock = Free
    /\ generation' = generation + 1
    /\ receipts' = {}
    /\ predicted' = {}
    /\ lastProcessed' = NoObs

-----------------------------------------------------------------------------
(* Ready                                                                   *)

ReadyCall(w) ==
    /\ At(w, "idle") /\ Running /\ resets < MaxResets
    /\ resets' = resets + 1
    /\ Goto(w, "ready.clear")
    /\ UNCHANGED <<model, episode, queue, locks, stopping, recorder, unsent,
                   history>>

ReadyClear(w) ==
    /\ At(w, "ready.clear")
    /\ ClearEpisodeState
    /\ Finish(w)
    /\ UNCHANGED <<model, queue, locks, stopping, recorder, clients, history>>

-----------------------------------------------------------------------------
(* SendPolicyInstructions                                                  *)

\* A setup that fails validation aborts before it touches any state.
PolicyCall(w) ==
    /\ At(w, "idle") /\ Running /\ resets < MaxResets
    /\ resets' = resets + 1
    /\ \E p \in Policies :
          call' = [call EXCEPT ![w].pc = "policy.lock", ![w].wanted = p]
    /\ UNCHANGED <<model, episode, queue, locks, stopping, recorder, unsent,
                   history>>

PolicyLock(w) ==
    /\ At(w, "policy.lock")
    /\ inferenceLock = Free
    /\ inferenceLock' = w
    /\ Goto(w, "policy.load")
    /\ UNCHANGED <<model, episode, queue, stateLock, stopping, recorder, clients,
                   history>>

\* The loader, the chunk-size test and the image-key test: each aborts with
\* INVALID_ARGUMENT and leaves the served policy alone.
PolicyLoad(w) ==
    /\ At(w, "policy.load")
    /\ CheckActive(w)
    /\ \/ Goto(w, "policy.install") /\ UNCHANGED locks
       \/ FinishAndRelease(w)
    /\ UNCHANGED <<model, episode, queue, stopping, recorder, clients, history>>

PolicyInstall(w) ==
    /\ At(w, "policy.install")
    /\ stateLock = Free
    /\ policy' = call[w].wanted
    /\ predictionIndex' = 0
    /\ Goto(w, "policy.clear")
    /\ UNCHANGED <<episode, queue, locks, stopping, recorder, clients, history>>

\* Mutant of PolicyClear: the new policy goes on in the old session.
PolicyClear_SameSession(w) ==
    /\ At(w, "policy.clear")
    /\ FinishAndRelease(w)
    /\ UNCHANGED <<model, episode, queue, stopping, recorder, clients, history>>

PolicyClear(w) ==
    /\ At(w, "policy.clear")
    /\ ClearEpisodeState
    /\ FinishAndRelease(w)
    /\ UNCHANGED <<model, queue, stopping, recorder, clients, history>>

-----------------------------------------------------------------------------
(* SendObservations                                                        *)

SendCall(w) ==
    /\ At(w, "idle") /\ Running
    /\ stateLock = Free /\ policy # NoPolicy
    /\ \E o \in unsent :
          /\ call' = [call EXCEPT ![w].pc = "send.receive", ![w].obs = o]
          /\ unsent' = unsent \ {o}
    /\ UNCHANGED <<model, episode, queue, locks, stopping, recorder, resets,
                   history>>

\* The stream ends and its pickle holds a valid TimedObservation, or the
\* handler aborts with INVALID_ARGUMENT.
SendReceive(w) ==
    /\ At(w, "send.receive")
    /\ Goto(w, "send.filter") \/ Finish(w)
    /\ UNCHANGED <<model, episode, queue, locks, stopping, recorder, clients,
                   history>>

ShouldEnqueue(o) ==
    \/ o \in MustGo
    \/ lastProcessed = NoObs
    \/ /\ TimestepOf[o] \notin predicted
       /\ <<o, lastProcessed>> \notin Similar

\* _enqueue_observation takes the state lock, filters, and asks full().
SendFilter(w) ==
    /\ At(w, "send.filter")
    /\ stateLock = Free
    /\ \/ /\ ~ShouldEnqueue(call[w].obs)
          /\ Finish(w)
          /\ UNCHANGED stateLock
       \/ /\ ShouldEnqueue(call[w].obs)
          /\ stateLock' = w
          /\ Goto(w, IF queue[generation] = NoObs THEN "send.put" ELSE "send.drop")
    /\ UNCHANGED <<model, episode, queue, inferenceLock, stopping, recorder,
                   clients, history>>

\* get_nowait of the observation to replace.
SendDrop(w) ==
    /\ At(w, "send.drop")
    /\ queue[generation] # NoObs
    /\ receipts' = receipts \ {queue[generation]}
    /\ queue' = [queue EXCEPT ![generation] = NoObs]
    /\ Goto(w, "send.put")
    /\ UNCHANGED <<model, generation, predicted, lastProcessed, locks, stopping,
                   recorder, clients, history>>

\* A consumer emptied the queue after full() said yes: get_nowait raises
\* queue.Empty, nothing catches it, and the observation is not queued.
SendDropEmpty(w) ==
    /\ At(w, "send.drop")
    /\ queue[generation] = NoObs
    /\ stateLock' = Free
    /\ Finish(w)
    /\ UNCHANGED <<model, episode, queue, inferenceLock, stopping, recorder,
                   clients, history>>

\* Mutant of SendPut: the receipt is recorded for what the queue held.
SendPut_WrongReceipt(w) ==
    /\ At(w, "send.put")
    /\ receipts' = receipts \cup {queue[generation]}
    /\ queue' = [queue EXCEPT ![generation] = call[w].obs]
    /\ accepted' = [accepted EXCEPT
                  ![call[w].obs] = [session |-> generation, policy |-> policy]]
    /\ newest' = [newest EXCEPT ![generation] = call[w].obs]
    /\ stateLock' = Free
    /\ Finish(w)
    /\ UNCHANGED <<model, generation, predicted, lastProcessed, inferenceLock,
                   stopping, recorder, clients, delivered>>

\* The receipt is recorded, then put_nowait; both under the state lock.
SendPut(w) ==
    /\ At(w, "send.put")
    /\ receipts' = receipts \cup {call[w].obs}
    /\ queue' = [queue EXCEPT ![generation] = call[w].obs]
    /\ accepted' = [accepted EXCEPT
                  ![call[w].obs] = [session |-> generation, policy |-> policy]]
    /\ newest' = [newest EXCEPT ![generation] = call[w].obs]
    /\ stateLock' = Free
    /\ Finish(w)
    /\ UNCHANGED <<model, generation, predicted, lastProcessed, inferenceLock,
                   stopping, recorder, clients, delivered>>

-----------------------------------------------------------------------------
(* GetActions                                                              *)

GetCall(w) ==
    /\ At(w, "idle") /\ Running
    /\ Goto(w, "get.lock")
    /\ UNCHANGED <<model, episode, queue, locks, stopping, recorder, clients,
                   history>>

\* The inference lock is taken; then, under the state lock, the generation is
\* read, or the call aborts with FAILED_PRECONDITION.
GetLock(w) ==
    /\ At(w, "get.lock")
    /\ inferenceLock = Free /\ stateLock = Free
    /\ \/ /\ policy = NoPolicy
          /\ Finish(w)
          /\ UNCHANGED inferenceLock
       \/ /\ policy # NoPolicy
          /\ inferenceLock' = w
          /\ call' = [call EXCEPT ![w].pc = "get.poll",
                                  ![w].captured = generation]
    /\ UNCHANGED <<model, episode, queue, stateLock, stopping, recorder, clients,
                   history>>

\* One round of _next_observation: _check_active, then read the attribute
\* self.observation_queue, without the state lock.
GetPoll(w) ==
    /\ At(w, "get.poll")
    /\ CheckActive(w)
    /\ call' = [call EXCEPT ![w].pc = "get.take", ![w].source = generation]
    /\ UNCHANGED <<model, episode, queue, locks, stopping, recorder, clients,
                   history>>

GetTake(w) ==
    /\ At(w, "get.take")
    /\ queue[call[w].source] # NoObs
    /\ call' = [call EXCEPT ![w].pc = "get.taken",
                            ![w].obs = queue[call[w].source]]
    /\ queue' = [queue EXCEPT ![call[w].source] = NoObs]
    /\ UNCHANGED <<model, episode, locks, stopping, recorder, clients, history>>

\* Empty before the deadline: another round.
GetEmpty(w) ==
    /\ At(w, "get.take")
    /\ queue[call[w].source] = NoObs
    /\ Goto(w, "get.poll")
    /\ UNCHANGED <<model, episode, queue, locks, stopping, recorder, clients,
                   history>>

\* Mutant of GetTimeout: the deadline is set anew each round.
GetTimeout_NewDeadline(w) == GetEmpty(w)

\* Empty at the deadline: an empty Actions message.
GetTimeout(w) ==
    /\ At(w, "get.take")
    /\ queue[call[w].source] = NoObs
    /\ FinishAndRelease(w)
    /\ UNCHANGED <<model, episode, queue, stopping, recorder, clients, history>>

\* Mutants of CanRestore: without the full() test; without the session test.
CanRestore_Full(w) == Running /\ call[w].source = generation

CanRestore_AnySession(w) == Running /\ queue[call[w].source] = NoObs

CanRestore(w) ==
    /\ Running
    /\ call[w].source = generation
    /\ queue[call[w].source] = NoObs

\* Mutant of GetRestore: the waiter gives the observation back and goes on.
GetRestore_GoOn(w) ==
    /\ At(w, "get.taken") /\ ~call[w].active
    /\ stateLock = Free
    /\ queue' = IF CanRestore(w)
                THEN [queue EXCEPT ![call[w].source] = call[w].obs]
                ELSE queue
    /\ Goto(w, "get.recheck")
    /\ UNCHANGED <<model, episode, locks, stopping, recorder, clients, history>>

\* The call was cancelled while it waited: put the observation back, unless
\* the server stops, the session changed, or a newer one has arrived.
GetRestore(w) ==
    /\ At(w, "get.taken") /\ ~call[w].active
    /\ stateLock = Free
    /\ queue' = IF CanRestore(w)
                THEN [queue EXCEPT ![call[w].source] = call[w].obs]
                ELSE queue
    /\ FinishAndRelease(w)
    /\ UNCHANGED <<model, episode, stopping, recorder, clients, history>>

GetTaken(w) ==
    /\ At(w, "get.taken") /\ call[w].active
    /\ Goto(w, "get.recheck")
    /\ UNCHANGED <<model, episode, queue, locks, stopping, recorder, clients,
                   history>>

GetRecheck(w) ==
    /\ At(w, "get.recheck")
    /\ CheckActive(w)
    /\ Goto(w, "get.mark")
    /\ UNCHANGED <<model, episode, queue, locks, stopping, recorder, clients,
                   history>>

GetMark(w) ==
    /\ At(w, "get.mark")
    /\ stateLock = Free
    /\ predicted' = predicted \cup {TimestepOf[call[w].obs]}
    /\ Goto(w, "get.prepare")
    /\ UNCHANGED <<model, generation, receipts, lastProcessed, queue, locks,
                   stopping, recorder, clients, history>>

\* prepare_observation, then the unlocked assignment of last_processed_obs.
GetPrepare(w) ==
    /\ At(w, "get.prepare")
    /\ lastProcessed' = call[w].obs
    /\ Goto(w, "get.infer")
    /\ UNCHANGED <<model, generation, receipts, predicted, queue, locks, stopping,
                   recorder, clients, history>>

\* Draws the seed under the state lock: its offset is _prediction_index.
DrawSeed ==
    /\ stateLock = Free
    /\ predictionIndex' = predictionIndex + (IF Seeded THEN 1 ELSE 0)

GetInfer(w) ==
    /\ At(w, "get.infer")
    /\ DrawSeed
    /\ call' = [call EXCEPT ![w].pc = "get.check", ![w].wanted = policy,
                            ![w].seed = predictionIndex]
    /\ UNCHANGED <<policy, episode, queue, locks, stopping, recorder, clients,
                   history>>

\* An exception of _predict_timed_actions, in prepare_observation or in the
\* prediction itself: the receipt goes, and the call aborts with INTERNAL.
GetFail(w) ==
    /\ \/ At(w, "get.prepare") /\ stateLock = Free /\ UNCHANGED predictionIndex
       \/ At(w, "get.infer") /\ DrawSeed
    /\ receipts' = receipts \ {call[w].obs}
    /\ FinishAndRelease(w)
    /\ UNCHANGED <<policy, generation, predicted, lastProcessed, queue, stopping,
                   recorder, clients, history>>

\* Mutant of GetCheck: the test is against the queue's session.
GetCheck_QueueSession(w) ==
    /\ At(w, "get.check")
    /\ CheckActive(w) /\ stateLock = Free
    /\ call[w].source = generation
    /\ Goto(w, "get.receipt")
    /\ UNCHANGED <<model, episode, queue, locks, stopping, recorder, clients,
                   history>>

\* _check_active, then the session test: a chunk of a session that is over is
\* thrown away.
GetCheck(w) ==
    /\ At(w, "get.check")
    /\ CheckActive(w) /\ stateLock = Free
    /\ \/ /\ call[w].captured # generation
          /\ FinishAndRelease(w)
       \/ /\ call[w].captured = generation
          /\ Goto(w, "get.receipt")
          /\ UNCHANGED locks
    /\ UNCHANGED <<model, episode, queue, stopping, recorder, clients, history>>

\* _record_chunk_latency pops the receipt under the state lock; with a log, a
\* chunk without a receipt is an error.
GetReceipt(w) ==
    /\ At(w, "get.receipt")
    /\ stateLock = Free
    /\ receipts' = receipts \ {call[w].obs}
    /\ \/ ~Logging /\ Goto(w, "get.reply") /\ UNCHANGED locks
       \/ /\ Logging /\ call[w].obs \in receipts
          /\ Goto(w, "get.write")
          /\ UNCHANGED locks
       \/ Logging /\ call[w].obs \notin receipts /\ FinishAndRelease(w)
    /\ UNCHANGED <<model, generation, predicted, lastProcessed, queue, stopping,
                   recorder, clients, history>>

Line(w) == [obs |-> call[w].obs, number |-> sequence]

\* Mutant of GetWrite: the sequence does not advance.
GetWrite_SameNumber(w) ==
    /\ At(w, "get.write")
    /\ stopping \in {"up", "set", "cleared"}
    /\ log' = log \cup {Line(w)}
    /\ Goto(w, "get.reply")
    /\ UNCHANGED <<model, episode, queue, locks, sequence, stopping, clients,
                   history>>

\* The recorder writes and syncs the line, then advances its sequence.
GetWrite(w) ==
    /\ At(w, "get.write")
    /\ stopping \in {"up", "set", "cleared"}
    /\ log' = log \cup {Line(w)}
    /\ sequence' = sequence + 1
    /\ Goto(w, "get.reply")
    /\ UNCHANGED <<model, episode, queue, locks, stopping, clients, history>>

\* The write or the sync fails, before or after the line reached the file, or
\* stop() has closed it: INTERNAL.
GetWriteFail(w) ==
    /\ At(w, "get.write")
    /\ \/ UNCHANGED log
       \/ stopping \in {"up", "set", "cleared"} /\ log' = log \cup {Line(w)}
    /\ FinishAndRelease(w)
    /\ UNCHANGED <<model, episode, queue, sequence, stopping, clients, history>>

Chunk(w) == [obs |-> call[w].obs, session |-> call[w].captured,
             policy |-> call[w].wanted, seed |-> call[w].seed]

\* The handler returns the chunk after the latency wait; gRPC hands it to a
\* client that is still there.
GetReply(w) ==
    /\ At(w, "get.reply")
    /\ delivered' = delivered \cup (IF call[w].active THEN {Chunk(w)} ELSE {})
    /\ FinishAndRelease(w)
    /\ UNCHANGED <<model, episode, queue, stopping, recorder, clients, accepted,
                   newest>>

-----------------------------------------------------------------------------
(* stop(), then grpc_server.stop(grace=1), which cancels what still runs    *)

StopSet ==
    /\ stopping = "up"
    /\ stopping' = "set"
    /\ UNCHANGED <<model, episode, queue, locks, recorder, call, clients, history>>

StopClear ==
    /\ stopping = "set"
    /\ ClearEpisodeState
    /\ stopping' = "cleared"
    /\ UNCHANGED <<model, queue, locks, recorder, call, clients, history>>

StopClose ==
    /\ stopping = "cleared"
    /\ stopping' = "closed"
    /\ UNCHANGED <<model, episode, queue, locks, recorder, call, clients, history>>

\* Mutant of StopGrace: the calls that still run are not cancelled.
StopGrace_NoCancel ==
    /\ stopping = "closed"
    /\ stopping' = "cancelled"
    /\ UNCHANGED <<model, episode, queue, locks, recorder, call, clients, history>>

StopGrace ==
    /\ stopping = "closed"
    /\ stopping' = "cancelled"
    /\ call' = [w \in Workers |->
                  [call[w] EXCEPT !.active = call[w].pc = "idle"]]
    /\ UNCHANGED <<model, episode, queue, locks, recorder, clients, history>>

-----------------------------------------------------------------------------
Calls(w) == ReadyCall(w) \/ PolicyCall(w) \/ SendCall(w) \/ GetCall(w)

\* Statements of a handler that is under way.
Step(w) ==
    \/ AbortUnlocked(w) \/ AbortLocked(w)
    \/ ReadyClear(w)
    \/ PolicyLock(w) \/ PolicyLoad(w) \/ PolicyInstall(w) \/ PolicyClear(w)
    \/ SendReceive(w) \/ SendFilter(w) \/ SendDrop(w) \/ SendDropEmpty(w)
    \/ SendPut(w)
    \/ GetLock(w) \/ GetPoll(w) \/ GetTake(w) \/ GetEmpty(w) \/ GetTimeout(w)
    \/ GetRestore(w) \/ GetTaken(w) \/ GetRecheck(w) \/ GetMark(w)
    \/ GetPrepare(w) \/ GetInfer(w) \/ GetFail(w) \/ GetCheck(w)
    \/ GetReceipt(w) \/ GetWrite(w) \/ GetWriteFail(w) \/ GetReply(w)

Stop == StopSet \/ StopClear \/ StopClose \/ StopGrace

Next ==
    \/ \E w \in Workers : Calls(w) \/ Cancel(w) \/ Step(w)
    \/ Stop

Spec == Init /\ [][Next]_vars

(***************************************************************************)
(* Threads that can run do run, and the wait for an observation has a      *)
(* deadline.  Nothing is assumed of the clients: no call, cancellation or  *)
(* stop has to happen, a stream may stall until it is cancelled, and a     *)
(* worker may lose the race for the inference lock forever.                *)
(***************************************************************************)
FairStep(w) == Step(w) /\ (At(w, "send.receive") => ~call[w].active)

Fairness ==
    /\ \A w \in Workers : WF_vars(FairStep(w)) /\ SF_vars(GetTimeout(w))
    /\ WF_vars(StopClear) /\ WF_vars(StopClose) /\ WF_vars(StopGrace)

FairSpec == Spec /\ Fairness

-----------------------------------------------------------------------------
(* Properties                                                              *)

Calling == [pc : FreePcs \cup SendPcs \cup HoldPcs, active : BOOLEAN,
            obs : Observations \cup {NoObs}, captured : Generations,
            source : Generations, wanted : Policies \cup {NoPolicy},
            seed : Nat]

\* The type of the server's state, of its workers' locals and of the histories.
TypeOK ==
    /\ policy \in Policies \cup {NoPolicy}
    /\ predictionIndex \in Nat
    /\ generation \in Generations
    /\ receipts \subseteq Observations
    /\ predicted \subseteq Nat
    /\ lastProcessed \in Observations \cup {NoObs}
    /\ queue \in [Generations -> Observations \cup {NoObs}]
    /\ inferenceLock \in Workers \cup {Free}
    /\ stateLock \in Workers \cup {Free}
    /\ stopping \in {"up", "set", "cleared", "closed", "cancelled"}
    /\ log \subseteq [obs : Observations, number : Nat]
    /\ sequence \in Nat
    /\ call \in [Workers -> Calling]
    /\ resets \in 0 .. MaxResets
    /\ unsent \subseteq Observations
    /\ accepted \in [Observations -> [session : Generations,
                                      policy : Policies \cup {NoPolicy}]]
    /\ newest \in [Generations -> Observations \cup {NoObs}]
    /\ delivered \subseteq [obs : Observations, session : Generations,
                            policy : Policies \cup {NoPolicy}, seed : Nat]

\* Every way out of a locked section, by return, abort, exception or timeout,
\* releases its lock, and no worker acts without the lock it needs.
LockDiscipline ==
    \A w \in Workers :
        /\ (inferenceLock = w) <=> (call[w].pc \in HoldPcs)
        /\ (stateLock = w) <=> (call[w].pc \in SendPcs)

\* A chunk a client receives was computed from an observation queued in the
\* session its GetActions belongs to, by the policy that was installed when the
\* observation was queued; whatever Ready and SendPolicyInstructions ran while
\* the call waited, predicted or slept.
DeliveredFromOwnSession ==
    \A d \in delivered : accepted[d.obs] = [session |-> d.session,
                                            policy |-> d.policy]

InHand(w, o) == call[w].obs = o /\ call[w].pc \in GetPcs

\* An observation is in one place: one queue, one worker's hands, or answered.
\* It is neither predicted twice nor both predicted and put back.
OnePlace ==
    \A o \in Observations :
        /\ \A g, h \in Generations : queue[g] = o /\ queue[h] = o => g = h
        /\ \A v, w \in Workers : InHand(v, o) /\ InHand(w, o) => v = w
        /\ \A g \in Generations, w \in Workers : ~(queue[g] = o /\ InHand(w, o))
        /\ (\E d \in delivered : d.obs = o) =>
              /\ \A g \in Generations : queue[g] # o
              /\ \A w \in Workers : ~InHand(w, o)

\* The queue never holds an observation older than the last one it accepted,
\* though a cancelled waiter puts one back after others may have arrived.
NewestWins ==
    \A g \in Generations : queue[g] # NoObs => queue[g] = newest[g]

\* put_nowait cannot raise queue.Full: nothing fills the queue between full()
\* (or the get_nowait that makes room) and the put.
PutFindsRoom ==
    \A w \in Workers : At(w, "send.put") => queue[generation] = NoObs

\* With a latency log, a delivered chunk has exactly one line, and no other
\* delivered chunk has its number, even after a line whose sync failed.
LogIdentifiesChunks ==
    Logging =>
      \A d \in delivered : \E line \in log :
        /\ line.obs = d.obs
        /\ \A other \in log : other.obs = d.obs => other = line
        /\ \A other \in log : /\ other.number = line.number
                              /\ \E e \in delivered : e.obs = other.obs
                              => other = line

\* With --seed, two chunks of one session are never computed from one seed,
\* though a policy installation in between restarts the index.
SeedsNotReused ==
    Seeded => \A d, e \in delivered :
                 d.session = e.session /\ d.seed = e.seed => d = e

\* Only the session a GetActions started in gets an answer from it: from the
\* session test on, a worker's observation comes from the queue of the session
\* it captured, even when its reference to that queue is by now stale.
CommittedPcs == {"get.receipt", "get.write", "get.reply"}
CommittedInSession ==
    \A w \in Workers : call[w].pc \in CommittedPcs =>
        /\ call[w].source = call[w].captured
        /\ call[w].wanted = policy

\* A cancelled call ends: no wait (for a lock, a message, an observation) and
\* no latency sleep outlives it for ever.
CancelledCallEnds ==
    \A w \in Workers : (~call[w].active) ~> At(w, "idle")

\* The holder of the inference lock gives it back, so that one waiting client
\* cannot keep the others out when no observation ever comes.
LockReleased ==
    \A w \in Workers : (inferenceLock = w) ~> (inferenceLock # w)

\* After stop() and the grace period no handler is left running.
StopDrains == (stopping # "up") ~> (\A w \in Workers : At(w, "idle"))

\* What ARCHITECTURE.md says of the one-item queue: an observation that passes
\* the filter becomes the newest of its session when its handler leaves.
AcceptedIsQueued ==
    [][\A w \in Workers :
          call[w].pc \in SendPcs /\ call'[w].pc = "idle"
              => newest'[generation] = call[w].obs]_vars

\* What ARCHITECTURE.md says of receipts: they follow queue replacement and the
\* restoration after a cancellation, so that each is of an observation that
\* waits or is being predicted.
ReceiptsFollowQueue ==
    \A o \in receipts : \/ queue[generation] = o
                        \/ \E w \in Workers : InHand(w, o)

\* What test_server.py says of cancelled waiters: one that has taken an
\* observation leaves it in the queue if it may.
CancelledWaiterRestores ==
    [][\A w \in Workers :
          /\ call[w].pc \in {"get.taken", "get.recheck"} /\ ~call[w].active
          /\ CanRestore(w)
          /\ call'[w].pc = "idle"
          => queue'[generation] = call[w].obs]_vars
=============================================================================

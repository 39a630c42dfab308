--------------------------- MODULE HardwareSession ---------------------------
(***************************************************************************)
(* One supervised session of the robot client: run_control_loop and        *)
(* HiwonderSO101IO (mlx_smolvla/hiwonder_client.py) around SafetySession   *)
(* and SafetyEnvelope (mlx_smolvla/hardware_safety.py).                    *)
(*                                                                         *)
(* The client is one thread; what makes it hard is that every bus, camera  *)
(* or RPC call may raise, with or without its physical effect, and that    *)
(* an interrupt may land between two statements.  Cleanup is a script of   *)
(* attempts (todo) whose failures are collected in errors.                 *)
(*                                                                         *)
(* Joints are independent in the envelope, so one joint stands for all;    *)
(* its positions are integers, Delta the largest step in those units.      *)
(***************************************************************************)
EXTENDS Integers, Sequences, FiniteSets

CONSTANTS
    Modes,                   \* the kinds of session, see Mode below
    ChunkLimit,              \* config.chunk_limit
    TimeoutLimit,            \* config.timeout_limit
    NormLower, NormUpper,    \* normalized_ranges: the driver's public domain
    Lower, Upper, Margin,    \* ranges: the calibration, and its inset
    Delta,                   \* the rate limit
    Actions,                 \* the values chunks may carry
    Malformed,               \* a chunk of the wrong shape, or not finite
    StartPositions,          \* where the joint may be when the client starts
    MaxFaults,               \* bound: I/O calls that raise, and interrupts
    InterruptPoints          \* statements an interrupt may land before

\* noMotion: config.no_motion; singleAction: config.stop_on_valid_action;
\* goalWrite: adapter.arming_mode is "goal-write"; autoEnable: the controller
\* energizes on a goal write; exact: the joint reaches each goal in the dwell.
Mode == [noMotion : BOOLEAN, singleAction : BOOLEAN, goalWrite : BOOLEAN,
         autoEnable : BOOLEAN, exact : BOOLEAN]

ASSUME SessionConstants ==
    /\ Modes \subseteq Mode
    /\ ChunkLimit \in Nat \ {0} /\ TimeoutLimit \in Nat \ {0}
    /\ {NormLower, NormUpper, Lower, Upper} \subseteq Int
    /\ NormLower <= Lower /\ Lower <= Upper /\ Upper <= NormUpper
    /\ Margin \in Nat /\ 2 * Margin <= Upper - Lower
    /\ Delta \in Nat \ {0}
    /\ Actions \subseteq Int /\ Malformed \notin Int
    /\ StartPositions \subseteq Int
    /\ MaxFaults \in Nat

VARIABLES
    mode,         \* the kind of session: never changes
    pc,           \* the statement about to run
    torque,       \* some motor is energized
    goal,         \* the Goal_Position register
    pos,          \* the joint
    armed,        \* adapter.armed
    start,        \* session.start_position
    chunk,        \* the chunk being processed
    expired,      \* the duration has passed
    stopReason,   \* session.stop_reason
    chunkCount, validCount, timeouts,
    todo,         \* cleanup attempts still to make
    steps,        \* return-to-start steps made
    raised,       \* the exception on its way out
    errors,       \* cleanup attempts that failed: notes, or the group raised
    closed,       \* the adapter was closed
    faults        \* I/O calls that raised

servo   == <<torque, goal, pos, armed>>
counts  == <<stopReason, chunkCount, validCount, timeouts>>
cleanup == <<todo, steps, errors, closed>>
vars == <<mode, pc, servo, start, chunk, expired, counts, cleanup, raised,
          faults>>

NoMotion == mode.noMotion
NoStart == Lower - 1          \* session.start_position is None

-----------------------------------------------------------------------------
(* SafetyEnvelope.evaluate                                                 *)

Clip(x, low, high) == IF x < low THEN low ELSE IF x > high THEN high ELSE x

Held == [hold |-> TRUE, target |-> 0, clipped |-> FALSE, limited |-> FALSE]

Evaluate(action, present) ==
    IF action = Malformed \/ present \notin Lower .. Upper THEN Held
    ELSE IF action \notin NormLower .. NormUpper THEN Held
    ELSE LET tightened == Clip(action, Lower + Margin, Upper - Margin)
             target == Clip(tightened, present - Delta, present + Delta)
         IN  [hold |-> FALSE, target |-> target, clipped |-> tightened # action,
              limited |-> target # tightened]

-----------------------------------------------------------------------------
(* The bus and the joint                                                   *)

CanFail == faults < MaxFaults
Works == UNCHANGED faults
Fails == CanFail /\ faults' = faults + 1

Reach(from, to) == IF mode.exact THEN {to} ELSE from .. to \cup to .. from

\* sync_write("Goal_Position", g): an energized joint moves towards g.
DriveTo(g) ==
    /\ goal' = g
    /\ pos' \in IF torque THEN Reach(pos, g) ELSE {pos}
    /\ UNCHANGED <<torque, armed>>

\* disable_torque(): the call or its readback raises, or reads a motor still on;
\* `armed` is cleared after the readback arrived and before it is judged.
DisableWorks ==
    /\ torque' = FALSE /\ armed' = FALSE
    /\ UNCHANGED <<goal, pos>>

DisableFails ==
    /\ \/ torque' \in {torque, FALSE} /\ UNCHANGED armed
       \/ torque' = torque /\ armed' = FALSE
    /\ UNCHANGED <<goal, pos>>

-----------------------------------------------------------------------------
Init ==
    /\ mode \in Modes
    /\ pc = "setup"
    /\ torque = FALSE /\ armed = FALSE
    /\ pos \in StartPositions
    /\ goal \in {pos, Upper}
    /\ start = NoStart /\ chunk = Malformed
    /\ expired = FALSE
    /\ stopReason = "none"
    /\ chunkCount = 0 /\ validCount = 0 /\ timeouts = 0
    /\ todo = <<>> /\ steps = 0 /\ errors = {} /\ closed = FALSE
    /\ raised = "none"
    /\ faults = 0

\* An exception leaves the code under way; the cleanup script is what the
\* enclosing handlers attempt before it reaches the caller.
Leave(exception, script) ==
    /\ pc' = "cleanup"
    /\ raised' = exception
    /\ todo' = script
    /\ UNCHANGED <<steps, errors, closed>>

ExitScript == IF NoMotion THEN <<"close">>
              ELSE <<"hold", "return", "disable", "close">>

EnterScript == <<"disable", "close">>              \* __enter__ after prepare_motion
\* Mutant of PrepareScript: a failed preparation only closes the adapter.
PrepareScript_CloseOnly == <<"close">>

PrepareScript == <<"disable">> \o EnterScript      \* ... after its own handler

Raise(script) == Fails /\ Leave("fault", script)

\* The next statement runs; nothing is raised.
Proceed(label) == pc' = label /\ UNCHANGED <<cleanup, raised>>

-----------------------------------------------------------------------------
(* Setup and SafetySession.__enter__                                       *)

TransportStart ==
    /\ pc = "setup"
    /\ \/ Works /\ Proceed("enter")
       \/ Raise(<<"close">>)
    /\ UNCHANGED <<servo, start, chunk, expired, counts>>

\* A first read that raises leaves __enter__ at once: __exit__ does not run.
EnterReadFails ==
    /\ pc = "enter"
    /\ Raise(<<>>)
    /\ UNCHANGED <<servo, start, chunk, expired, counts>>

Enter ==
    /\ pc = "enter"
    /\ Works
    /\ LET d == Evaluate(pos, pos)
           refused == d.hold \/ (~NoMotion /\ d.clipped)
       IN  \/ refused /\ Leave("start pose", <<"close">>) /\ UNCHANGED start
           \/ ~refused /\ start' = pos
              /\ Proceed(IF NoMotion THEN "started" ELSE "preload")
    /\ UNCHANGED <<servo, chunk, expired, counts>>

\* prepare_motion up to the goal preload: profile, registers and raw limits are
\* verified (or refused), then the raw present position becomes the goal.
PreloadRefused ==
    /\ pc = "preload"
    /\ Raise(EnterScript)
    /\ UNCHANGED <<servo, start, chunk, expired, counts>>

\* Mutant of Preload: the goal register keeps what an earlier session left.
Preload_StaleGoal ==
    /\ pc = "preload"
    /\ Works /\ Proceed("verify")
    /\ UNCHANGED <<servo, start, chunk, expired, counts>>

Preload ==
    /\ pc = "preload"
    /\ \/ goal' = pos /\ torque' = (torque \/ mode.autoEnable) /\ Works
          /\ Proceed("verify")
       \/ /\ \/ goal' = pos /\ torque' = (torque \/ mode.autoEnable)
             \/ UNCHANGED <<goal, torque>>
          /\ Raise(PrepareScript)
    /\ UNCHANGED <<pos, armed, start, chunk, expired, counts>>

\* The readback after the preload: torque must be what the arming mode expects.
VerifyPreload ==
    /\ pc = "verify"
    /\ \/ torque = mode.goalWrite /\ Works /\ Proceed("arm")
       \/ torque # mode.goalWrite /\ Works /\ Leave("fault", PrepareScript)
       \/ Raise(PrepareScript)
    /\ UNCHANGED <<servo, start, chunk, expired, counts>>

\* enable_torque() unless the goal write armed already, and its readback.
Arm ==
    /\ pc = "arm"
    /\ \/ /\ torque' = TRUE /\ armed' = TRUE /\ pos' \in Reach(pos, goal)
          /\ Works /\ Proceed("started")
       \/ /\ torque' \in {torque, TRUE}
          /\ pos' \in IF torque' THEN Reach(pos, goal) ELSE {pos}
          /\ UNCHANGED armed
          /\ Raise(PrepareScript)
    /\ UNCHANGED <<goal, start, chunk, expired, counts>>

\* started_at is read and __enter__ returns.
Started ==
    /\ pc = "started"
    /\ Works /\ Proceed("check")
    /\ UNCHANGED <<servo, start, chunk, expired, counts>>

-----------------------------------------------------------------------------
(* The control loop                                                        *)

\* A body that is done: __exit__ runs with no exception.
Stop == Leave("none", ExitScript)

CheckLimits ==
    /\ pc = "check"
    /\ Works
    /\ \/ ~expired /\ Proceed("observe") /\ UNCHANGED stopReason
       \/ expired /\ stopReason' = "duration_limit" /\ Stop
    /\ UNCHANGED <<servo, start, chunk, expired, chunkCount, validCount,
                   timeouts>>

\* read_observation and send_observation.
Observe ==
    /\ pc = "observe"
    /\ \/ Works /\ Proceed("receive")
       \/ Raise(ExitScript)
    /\ UNCHANGED <<servo, start, chunk, expired, counts>>

\* receive_action_chunk: a chunk, a deadline, or another RPC error.
Receive ==
    /\ pc = "receive"
    /\ \/ /\ chunk' \in Actions \cup {Malformed}
          /\ Works /\ Proceed("process")
       \/ UNCHANGED chunk /\ Works /\ Proceed("timeout")
       \/ UNCHANGED chunk /\ Raise(ExitScript)
    /\ UNCHANGED <<servo, start, expired, counts>>

\* The read or the write of a hold or of an action raises; the goal may have
\* reached the bus.
WriteFails(target) ==
    /\ ~NoMotion /\ (UNCHANGED servo \/ DriveTo(target))
    /\ Raise(ExitScript)

ReadFails ==
    /\ UNCHANGED servo
    /\ Raise(ExitScript)

\* write_positions in a motion session; nothing in a no-motion one.
Write(target) ==
    IF NoMotion THEN UNCHANGED servo ELSE armed /\ DriveTo(target)

\* record_timeout: hold, count, and stop at the limit.
RecordTimeout ==
    /\ pc = "timeout"
    /\ \/ /\ Works /\ Write(pos)
          /\ timeouts' = timeouts + 1
          /\ \/ timeouts' < TimeoutLimit /\ Proceed("check") /\ UNCHANGED stopReason
             \/ /\ timeouts' >= TimeoutLimit
                /\ stopReason' = "watchdog_timeout"
                /\ Stop
       \/ (ReadFails \/ WriteFails(pos)) /\ UNCHANGED <<timeouts, stopReason>>
    /\ UNCHANGED <<start, chunk, expired, chunkCount, validCount>>

\* process_chunk when the duration passed meanwhile: it stops without a write,
\* and in a motion session the loop then raises, because no motor write is as
\* recent as the observation it sent.
ProcessLate ==
    /\ pc = "process" /\ expired
    /\ stopReason' = "duration_limit"
    /\ Works
    /\ \/ NoMotion /\ Stop
       \/ ~NoMotion /\ Leave("no motor write", ExitScript)
    /\ UNCHANGED <<servo, start, chunk, expired, chunkCount, validCount,
                   timeouts>>

Target(d) == IF d.hold THEN pos ELSE d.target

\* Mutant of Counted: a chunk that holds is not counted.
Counted_ValidOnly(d) == IF NoMotion \/ d.hold THEN 0 ELSE 1

\* Chunks count whether they move the joint or hold it; a no-motion session
\* counts them too, but nothing reads that count.
Counted(d) == IF NoMotion THEN 0 ELSE 1

\* Mutant of ReasonAfter: a single-action session stops one action late.
ReasonAfter_OneLate(valid, chunks) ==
    IF NoMotion THEN "none"
    ELSE IF mode.singleAction /\ valid > 1 THEN "action_limit"
    ELSE IF chunks >= ChunkLimit THEN "chunk_limit"
    ELSE "none"

ReasonAfter(valid, chunks) ==
    IF NoMotion THEN "none"
    ELSE IF mode.singleAction /\ valid >= 1 THEN "action_limit"
    ELSE IF chunks >= ChunkLimit THEN "chunk_limit"
    ELSE "none"

ProcessChunk ==
    /\ pc = "process" /\ ~expired
    /\ LET d == Evaluate(chunk, pos)
       IN  \/ /\ Works /\ Write(Target(d))
              /\ timeouts' = 0
              /\ chunkCount' = chunkCount + Counted(d)
              /\ validCount' = validCount + (IF NoMotion \/ d.hold THEN 0 ELSE 1)
              /\ stopReason' = ReasonAfter(validCount', chunkCount')
              /\ \/ stopReason' = "none" /\ Proceed("check")
                 \/ stopReason' # "none" /\ Stop
           \/ (ReadFails \/ WriteFails(Target(d))) /\ UNCHANGED counts
    /\ UNCHANGED <<start, chunk, expired>>

-----------------------------------------------------------------------------
(* Cleanup: one action per attempt, or per step of the return              *)

Attempting(op) == pc = "cleanup" /\ todo # <<>> /\ Head(todo) = op

Attempted(op, failed) ==
    /\ todo' = Tail(todo)
    /\ errors' = errors \cup (IF failed THEN {op} ELSE {})

CleanupHold ==
    /\ Attempting("hold")
    /\ \/ Works /\ Attempted("hold", ~armed)
          /\ IF armed THEN DriveTo(pos) ELSE UNCHANGED servo
       \/ Fails /\ Attempted("hold", TRUE)
          /\ IF armed THEN DriveTo(pos) ELSE UNCHANGED servo
    /\ UNCHANGED <<steps, closed>>

\* Mutant of ReturnGoesOn: one step too few.
ReturnGoesOn_OneLess(d, n) == d.limited /\ n < ChunkLimit - 1

\* The step was rate-limited, and the cap allows another one.
ReturnGoesOn(d, n) == d.limited /\ n < ChunkLimit

\* Mutant of ReturnFailed: running out of steps is taken for arriving.
ReturnFailed_Never(d) == FALSE

ReturnFailed(d) == d.limited

\* return_to_start_gradually: each step reads back, evaluates and writes.
CleanupReturn ==
    /\ Attempting("return")
    /\ LET d == Evaluate(start, pos)
           refused == d.hold \/ d.clipped \/ ~armed
       IN  \/ /\ Works /\ refused
              /\ Attempted("return", TRUE)
              /\ UNCHANGED <<servo, steps>>
           \/ /\ Works /\ ~refused
              /\ DriveTo(d.target)
              /\ steps' = steps + 1
              /\ IF ReturnGoesOn(d, steps') THEN UNCHANGED <<todo, errors>>
                 ELSE Attempted("return", ReturnFailed(d))
           \/ /\ Fails
              /\ Attempted("return", TRUE)
              /\ IF refused THEN UNCHANGED servo
                 ELSE UNCHANGED servo \/ DriveTo(d.target)
              /\ UNCHANGED steps
    /\ UNCHANGED closed

CleanupDisable ==
    /\ Attempting("disable")
    /\ \/ Works /\ DisableWorks /\ Attempted("disable", FALSE)
       \/ Fails /\ DisableFails /\ Attempted("disable", TRUE)
    /\ UNCHANGED <<steps, closed>>

\* close(): one more disable while armed, then cameras and bus.
CleanupClose ==
    /\ Attempting("close")
    /\ \/ Works /\ Attempted("close", FALSE)
          /\ IF armed THEN DisableWorks ELSE UNCHANGED servo
       \/ Fails /\ Attempted("close", TRUE)
          /\ IF armed THEN DisableWorks \/ DisableFails ELSE UNCHANGED servo
    /\ closed' = TRUE
    /\ UNCHANGED steps

Cleanup ==
    /\ CleanupHold \/ CleanupReturn \/ CleanupDisable \/ CleanupClose
    /\ UNCHANGED <<pc, start, chunk, expired, counts, raised>>

\* transport.close(), then the result or the exception reaches the caller.
Finish ==
    /\ pc = "cleanup" /\ todo = <<>>
    /\ pc' = "done"
    /\ UNCHANGED <<servo, start, chunk, expired, counts, cleanup, raised,
                   faults>>

-----------------------------------------------------------------------------
(* The environment                                                         *)

Expire ==
    /\ ~expired /\ pc \in {"check", "observe", "receive", "timeout", "process"}
    /\ expired' = TRUE
    /\ UNCHANGED <<pc, servo, start, chunk, counts, cleanup, raised, faults>>

\* SIGINT, or SIGTERM turned into it: the handlers that enclose the statement
\* are those of prepare_motion, of __enter__, of the with block, or none.
InterruptScript ==
    CASE pc = "setup"                                         -> <<"close">>
      [] pc = "preload"                                       -> EnterScript
      [] pc \in {"verify", "arm"}                             -> PrepareScript
      [] pc \in {"check", "observe", "receive", "timeout", "process"} -> ExitScript
      [] OTHER                                                -> <<>>

Interrupt ==
    /\ pc \in InterruptPoints
    /\ Fails
    /\ Leave("interrupt", InterruptScript)
    /\ UNCHANGED <<servo, start, chunk, expired, counts>>

Setup == TransportStart \/ EnterReadFails \/ Enter \/ PreloadRefused \/ Preload
         \/ VerifyPreload \/ Arm \/ Started

Loop == CheckLimits \/ Observe \/ Receive \/ RecordTimeout \/ ProcessLate
        \/ ProcessChunk

Client == Setup \/ Loop \/ Cleanup \/ Finish

Next == (Client \/ Expire \/ Interrupt) /\ UNCHANGED mode

Spec == Init /\ [][Next]_vars

\* The client's thread runs.  Time is not needed to end a motion session.
ClientStep == Client /\ UNCHANGED mode
FairSpec == Spec /\ WF_vars(ClientStep)

-----------------------------------------------------------------------------
(* Properties                                                              *)

Ops == {"hold", "return", "disable", "close"}
Distance(a, b) == IF a < b THEN b - a ELSE a - b
Inset == Lower + Margin .. Upper - Margin

\* The type of the session's state.
TypeOK ==
    /\ mode \in Modes
    /\ pc \in {"setup", "enter", "preload", "verify", "arm", "started", "check",
               "observe", "receive", "timeout", "process", "cleanup", "done"}
    /\ torque \in BOOLEAN /\ armed \in BOOLEAN
    /\ goal \in Int /\ pos \in Int
    /\ start \in Lower .. Upper \cup {NoStart}
    /\ chunk \in Actions \cup {Malformed}
    /\ expired \in BOOLEAN
    /\ stopReason \in {"none", "duration_limit", "watchdog_timeout",
                       "action_limit", "chunk_limit"}
    /\ chunkCount \in Nat /\ validCount \in Nat /\ timeouts \in Nat
    /\ todo \in Seq(Ops)
    /\ steps \in 0 .. ChunkLimit
    /\ raised \in {"none", "fault", "start pose", "no motor write", "interrupt"}
    /\ errors \subseteq Ops
    /\ closed \in BOOLEAN
    /\ faults \in 0 .. MaxFaults

\* Whatever fails, wherever: a session that ends with a motor energized has
\* reported that a torque-off failed.
TorqueOffOrReported ==
    pc = "done" /\ torque => errors \cap {"disable", "close"} # {}

\* A session whose cleanup reports nothing has put the joint back within one
\* step of where it started (exactly there if the joint follows its goals).
CleanExitAtStart ==
    pc = "done" /\ errors = {} /\ start # NoStart =>
        Distance(pos, start) <= (IF mode.exact THEN 0 ELSE Delta)

\* The return, capped at chunk_limit steps like the session itself, is long
\* enough: with a joint that follows its goals only a fault makes it fail.
ReturnFits == mode.exact /\ faults = 0 => "return" \notin errors

\* An energized joint stays in the inset calibration, and as far from the start
\* as the caps on valid actions and chunks allow, through faults and cleanup.
TravelBounded ==
    torque => /\ pos \in Inset
              /\ Distance(pos, start) <=
                    Delta * (IF mode.singleAction THEN 1 ELSE ChunkLimit)

\* The joint never jumps: no command, and no enabling of torque over a goal
\* register left by an earlier session, drives it further than one step.
NoJump == [][Distance(pos', pos) <= Delta]_vars

\* A motion session ends by its caps alone, though rejected chunks reset the
\* count of consecutive timeouts, and even if the clock does not advance.
MotionEnds == ~NoMotion ~> pc = "done"

\* What test_hardware_client.py says of a chunk that arrives at the duration
\* boundary: the session stops without an error.
DurationStopIsClean ==
    pc = "done" /\ stopReason = "duration_limit" /\ faults = 0 => raised = "none"

\* What CLIENT_DESIGN.md says of SIGINT: the session attempts to disable torque.
InterruptDisablesTorque == pc = "done" /\ raised = "interrupt" => ~torque

\* What CLIENT_DESIGN.md says of a session's end: it closes its I/O.
AlwaysCloses == pc = "done" => closed
=============================================================================

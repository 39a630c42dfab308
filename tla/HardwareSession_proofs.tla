----------------------- MODULE HardwareSession_proofs -----------------------
(***************************************************************************)
(* The safety of a supervised session for every calibration, rate limit,   *)
(* cap and set of actions, and any number of faults.                       *)
(***************************************************************************)
EXTENDS HardwareSession, SequenceTheorems, TLAPS

Preparing == {"preload", "verify", "arm"}
Looping == {"check", "observe", "receive", "timeout", "process"}

ReturnTodo == {<<"hold", "return", "disable", "close">>, <<"return", "disable", "close">>}
DisableTodo == {<<"disable", "disable", "close">>, <<"disable", "close">>} \cup ReturnTodo
Todos == {<< >>, <<"close">>} \cup DisableTodo
Returning == todo \in ReturnTodo

\* the valid actions a session may take
Cap == IF mode.singleAction THEN 1 ELSE ChunkLimit

\* Where the client is determines what it has still to clean up ...
Scripted ==
    /\ todo \in Todos
    /\ pc # "cleanup" => todo = << >>
    /\ pc \notin {"cleanup", "done"} => steps = 0 /\ errors = {}
    /\ Returning => steps < ChunkLimit /\ pc = "cleanup" /\ ~NoMotion /\ start # NoStart

\* ... whether the motors may be energized, and when they are ...
Powered ==
    /\ NoMotion \/ start = NoStart => ~torque /\ ~armed
    /\ NoMotion => pc \notin Preparing
    /\ ~NoMotion /\ pc \in Looping \cup {"started"} => torque /\ armed
    /\ Returning => torque /\ armed

\* ... and where the joint is.
Placed ==
    /\ pc \in {"setup", "enter"} => start = NoStart
    /\ start = NoStart => pc \in {"setup", "enter", "cleanup", "done"}
    /\ start # NoStart /\ ~NoMotion => start \in Inset /\ pos \in Inset
    /\ start # NoStart /\ NoMotion => pos = start
    /\ pc \in Preparing \cup {"started"} => pos = start
    /\ pc \in {"verify", "arm"} => goal = pos

\* In the loop the joint is as far from the start as its valid actions took it,
\* and one more is allowed.
Counting ==
    /\ pc \in {"setup", "enter", "started"} \cup Preparing => chunkCount = 0 /\ validCount = 0
    /\ pc \in {"started"} \cup Preparing \cup Looping =>
          /\ validCount <= chunkCount /\ chunkCount < ChunkLimit
          /\ mode.singleAction => validCount = 0
          /\ Distance(pos, start) <= Delta * validCount
    /\ start # NoStart => Distance(pos, start) <= Delta * Cap

\* A return that is over without a complaint ended near the start.
Returned ==
    "cleanup" \notin InterruptPoints =>
       (pc \in {"cleanup", "done"} /\ ~Returning /\ errors = {} /\ start # NoStart =>
          Distance(pos, start) <= (IF mode.exact THEN 0 ELSE Delta))

\* The steps that are left are enough.
Fits ==
    mode.exact /\ faults = 0 =>
       /\ "return" \notin errors
       /\ Returning => Distance(pos, start) <= Delta * (ChunkLimit - steps)

\* Torque is off, is about to be turned off, or could not be.
Reported ==
    InterruptPoints \cap {"started", "cleanup"} = {} =>
       (pc \in {"cleanup", "done"} /\ torque /\ errors \cap {"disable", "close"} = {} =>
          todo \in DisableTodo)

Safe == Scripted /\ Powered /\ Placed /\ Counting /\ Returned /\ Fits /\ Reported
IInv == TypeOK /\ Safe
-----------------------------------------------------------------------------
\* Distances, and the boxes the joint stays in.

LEMMA DistanceLaws ==
    /\ \A a, b \in Int: Distance(a, b) \in Nat /\ (Distance(a, b) = 0 <=> a = b)
    /\ \A a, b, c \in Int: Distance(a, c) <= Distance(a, b) + Distance(b, c)
BY DEF Distance

\* k steps of at most d
LEMMA OneMore == ASSUME NEW d \in Nat, NEW n \in Nat PROVE d * n \in Nat /\ d * (n + 1) = d * n + d
<1>1. d * n \in Nat
  OBVIOUS
<1>2. d * (n + 1) = d * n + d
  OBVIOUS
<1> QED BY <1>1, <1>2

LEMMA NoFewer == ASSUME NEW d \in Nat, NEW n \in Nat, NEW k \in Nat, n <= k PROVE d * n <= d * k
OBVIOUS

\* Wherever the joint is, a command of the envelope is within a step of it, and
\* no command leads out of the inset.
LEMMA CommandInReach ==
    ASSUME NEW action \in Int \cup {Malformed}, NEW present \in Int, ~Evaluate(action, present).hold
    PROVE  LET target == Evaluate(action, present).target IN
              /\ target \in Int /\ Distance(target, present) <= Delta
              /\ present \in Inset => target \in Inset
BY SessionConstants DEF Evaluate, Held, Clip, Distance, Inset

\* On the way back nothing is held or clipped: each step but the last is a full one.
LEMMA WayBack ==
    ASSUME NEW from \in Inset, NEW to \in Inset
    PROVE  LET d == Evaluate(to, from) IN
              /\ ~d.hold /\ ~d.clipped /\ d.limited \in BOOLEAN
              /\ d.target \in Inset
              /\ d.limited => /\ Distance(from, to) > Delta
                              /\ Distance(d.target, to) = Distance(from, to) - Delta
              /\ ~d.limited => d.target = to /\ Distance(from, to) <= Delta
<1> DEFINE far == Clip(to, from - Delta, from + Delta)
<1>1. /\ from \in Int /\ to \in Int /\ Delta \in Nat \ {0} /\ to # Malformed
      /\ from \in Lower .. Upper /\ to \in NormLower .. NormUpper
      /\ Clip(to, Lower + Margin, Upper - Margin) = to
  BY SessionConstants DEF Inset, Clip
<1>2. Evaluate(to, from) = [hold |-> FALSE, target |-> far, clipped |-> FALSE, limited |-> far # to]
  BY <1>1 DEF Evaluate
<1>3. /\ far \in Inset
      /\ far # to => /\ Distance(from, to) > Delta
                     /\ Distance(far, to) = Distance(from, to) - Delta
      /\ far = to => Distance(from, to) <= Delta
  BY <1>1, SessionConstants DEF Clip, Distance, Inset
<1> HIDE DEF far
<1> DEFINE d == Evaluate(to, from)
<1>4. d.hold = FALSE /\ d.target = far /\ d.clipped = FALSE /\ d.limited = (far # to)
  BY <1>2
<1> HIDE DEF d
<1>5. /\ ~d.hold /\ ~d.clipped /\ d.limited \in BOOLEAN
      /\ d.target \in Inset
      /\ d.limited => /\ Distance(from, to) > Delta
                      /\ Distance(d.target, to) = Distance(from, to) - Delta
      /\ ~d.limited => d.target = to /\ Distance(from, to) <= Delta
  BY <1>3, <1>4
<1> QED BY <1>5 DEF d

LEMMA OnTheWay ==
    ASSUME NEW from \in Int, NEW to \in Int, NEW p \in Int,
           (from <= p /\ p <= to) \/ (to <= p /\ p <= from)
    PROVE  /\ Distance(p, from) <= Distance(to, from)
           /\ Distance(p, to) <= Distance(from, to)
           /\ from \in Inset /\ to \in Inset => p \in Inset
           /\ \A x \in Int: Distance(p, x) <= Distance(from, x) \/ Distance(p, x) <= Distance(to, x)
<1>1. /\ Distance(p, from) <= Distance(to, from)
      /\ Distance(p, to) <= Distance(from, to)
  BY DEF Distance
<1>2. from \in Inset /\ to \in Inset => p \in Inset
  BY SessionConstants DEF Inset
<1>3. ASSUME NEW x \in Int PROVE Distance(p, x) <= Distance(from, x) \/ Distance(p, x) <= Distance(to, x)
  BY DEF Distance
<1> QED BY <1>1, <1>2, <1>3

\* Where a write takes the joint.
LEMMA Driven ==
    ASSUME TypeOK, NEW g \in Int, DriveTo(g)
    PROVE  /\ pos' \in Int /\ goal' = g /\ UNCHANGED <<torque, armed>>
           /\ Distance(pos', pos) <= Distance(g, pos)
           /\ pos \in Inset /\ g \in Inset => pos' \in Inset
           /\ \A x \in Int: Distance(pos', x) <= Distance(pos, x) \/ Distance(pos', x) <= Distance(g, x)
           /\ torque => \/ mode.exact /\ pos' = g
                        \/ ~mode.exact /\ Distance(pos', g) <= Distance(pos, g)
<1>1. pos' = pos \/ pos' = g \/ pos' \in pos .. g \cup g .. pos
  BY DEF DriveTo, Reach, TypeOK
<1>2. goal' = g /\ UNCHANGED <<torque, armed>> /\ pos \in Int
  BY DEF DriveTo, TypeOK
<1>3. pos' \in Int /\ ((pos <= pos' /\ pos' <= g) \/ (g <= pos' /\ pos' <= pos))
  BY <1>1, <1>2
<1>4. torque /\ mode.exact => pos' = g
  BY DEF DriveTo, Reach, TypeOK
<1> QED BY <1>2, <1>3, <1>4, OnTheWay
-----------------------------------------------------------------------------
\* The scripts, and what is left of one after its first attempt.

LEMMA TwoDisables == <<"disable">> \o <<"disable", "close">> = <<"disable", "disable", "close">>
<1> DEFINE a == <<"disable">>
           b == <<"disable", "close">>
           c == a \o b
           e == <<"disable", "disable", "close">>
<1>1. a \in Seq(Ops) /\ b \in Seq(Ops) 
      /\ Len(a) = 1 /\ Len(b) = 2 /\ a[1] = "disable" /\ b[1] = "disable" /\ b[2] = "close"
  BY DEF Ops
<1>3. e \in Seq(Ops) /\ Len(e) = 3 /\ e[1] = "disable" /\ e[2] = "disable" /\ e[3] = "close"
  BY DEF Ops
<1> HIDE DEF a, b, e
<1>2. c \in Seq(Ops) /\ Len(c) = 3 /\ c[1] = a[1] /\ c[2] = b[1] /\ c[3] = b[2]
  <2>1. /\ c \in Seq(Ops) /\ Len(c) = Len(a) + Len(b)
        /\ \A i \in 1 .. Len(a) + Len(b): c[i] = IF i <= Len(a) THEN a[i] ELSE b[i - Len(a)]
    BY <1>1, ConcatProperties
  <2> HIDE DEF c
  <2> QED BY <1>1, <2>1
<1> HIDE DEF c
<1>4. \A i \in 1 .. 3: c[i] = e[i]
  BY <1>1, <1>2, <1>3
<1>5. c = e
  BY <1>2, <1>3, <1>4, SeqEqual
<1> QED BY <1>5 DEF a, b, c, e

LEMMA Scripts ==
    /\ << >> \in Todos /\ << >> \notin DisableTodo /\ << >> \notin ReturnTodo
    /\ <<"close">> \in Todos /\ <<"close">> \notin DisableTodo /\ <<"close">> \notin ReturnTodo
    /\ EnterScript \in Todos /\ EnterScript \in DisableTodo /\ EnterScript \notin ReturnTodo
    /\ PrepareScript \in Todos /\ PrepareScript \in DisableTodo /\ PrepareScript \notin ReturnTodo
    /\ NoMotion => ExitScript = <<"close">>
    /\ ~NoMotion => ExitScript \in Todos /\ ExitScript \in DisableTodo /\ ExitScript \in ReturnTodo
<1>1. EnterScript = <<"disable", "close">> /\ PrepareScript = <<"disable", "disable", "close">>
  BY TwoDisables DEF EnterScript, PrepareScript
<1>2. /\ << >> \notin DisableTodo /\ << >> \notin ReturnTodo
      /\ <<"close">> \notin DisableTodo /\ <<"close">> \notin ReturnTodo
      /\ <<"disable", "close">> \notin ReturnTodo /\ <<"disable", "disable", "close">> \notin ReturnTodo
  BY DEF DisableTodo, ReturnTodo
<1> QED BY <1>1, <1>2 DEF ExitScript, Todos, DisableTodo, ReturnTodo

LEMMA Attempts ==
    ASSUME NEW script \in Todos, script # << >>
    PROVE  /\ Head(script) = "hold" => script \in ReturnTodo /\ Tail(script) \in ReturnTodo
           /\ Head(script) = "return" => script \in ReturnTodo /\ Tail(script) = EnterScript
           /\ Head(script) = "disable" => /\ script \in DisableTodo \ ReturnTodo
                                          /\ Tail(script) \in {<<"close">>, EnterScript}
           /\ Head(script) = "close" => script = <<"close">> /\ Tail(script) = << >>
<1>1. CASE script = <<"close">>
  BY <1>1
<1>2. CASE script = <<"disable", "close">>
  BY <1>2 DEF DisableTodo, ReturnTodo
<1>3. CASE script = <<"disable", "disable", "close">>
  BY <1>3 DEF DisableTodo, ReturnTodo, EnterScript
<1>4. CASE script = <<"return", "disable", "close">>
  BY <1>4 DEF ReturnTodo, EnterScript
<1>5. CASE script = <<"hold", "return", "disable", "close">>
  BY <1>5 DEF ReturnTodo
<1> QED BY <1>1, <1>2, <1>3, <1>4, <1>5 DEF Todos, DisableTodo, ReturnTodo

LEMMA TodosAreScripts == Todos \subseteq Seq(Ops)
<1>1. << >> \in Seq(Ops) /\ <<"close">> \in Seq(Ops) /\ <<"disable", "close">> \in Seq(Ops)
  BY DEF Ops
<1>2. <<"disable", "disable", "close">> \in Seq(Ops) /\ <<"return", "disable", "close">> \in Seq(Ops)
  BY DEF Ops
<1>3. <<"hold", "return", "disable", "close">> \in Seq(Ops)
  BY DEF Ops
<1> QED BY <1>1, <1>2, <1>3 DEF Todos, DisableTodo, ReturnTodo

\* A call works, or is one of the faults that may happen.
LEMMA FaultsCounted ==
    ASSUME TypeOK, Works \/ Fails
    PROVE  faults' \in 0 .. MaxFaults /\ (faults' = 0 => Works /\ faults = 0)
<1>1. faults \in 0 .. MaxFaults /\ MaxFaults \in Nat
  BY SessionConstants DEF TypeOK
<1>2. CASE Works
  BY <1>1, <1>2 DEF Works
<1>3. CASE Fails
  BY <1>1, <1>3 DEF Fails, CanFail
<1> QED BY <1>2, <1>3

\* What the invariant says of the moments before and in the loop.
LEMMA LoopFacts ==
    ASSUME IInv, pc \in Looping
    PROVE  /\ start # NoStart /\ start \in Int /\ pos \in Int /\ todo = << >> /\ steps = 0 /\ errors = {}
           /\ validCount \in Nat /\ chunkCount \in Nat
           /\ validCount <= chunkCount /\ chunkCount < ChunkLimit
           /\ Cap \in Nat /\ validCount < Cap /\ Cap <= ChunkLimit
           /\ Distance(pos, start) <= Delta * validCount
           /\ Distance(pos, start) <= Delta * Cap
           /\ ~NoMotion => torque /\ armed /\ start \in Inset /\ pos \in Inset
           /\ NoMotion => ~torque /\ ~armed /\ pos = start
<1>1. start \in Int /\ pos \in Int /\ validCount \in Nat /\ chunkCount \in Nat /\ ChunkLimit \in Nat \ {0}
  <2>1. Lower \in Int /\ Upper \in Int /\ ChunkLimit \in Nat \ {0}
    BY SessionConstants
  <2>2. start \in Lower .. Upper \cup {NoStart} /\ pos \in Int /\ validCount \in Nat /\ chunkCount \in Nat
    BY DEF IInv, Safe, TypeOK
  <2> QED BY <2>1, <2>2 DEF NoStart
<1>2. start # NoStart /\ todo = << >> /\ steps = 0 /\ errors = {}
  BY DEF IInv, Safe, Scripted, Placed, Looping
<1>3. /\ validCount <= chunkCount /\ chunkCount < ChunkLimit
      /\ mode.singleAction => validCount = 0
      /\ Distance(pos, start) <= Delta * validCount
      /\ Distance(pos, start) <= Delta * Cap
  BY <1>2 DEF IInv, Safe, Counting
<1>4. /\ ~NoMotion => torque /\ armed /\ start \in Inset /\ pos \in Inset
      /\ NoMotion => ~torque /\ ~armed /\ pos = start
  BY <1>2 DEF IInv, Safe, Powered, Placed
<1>5. Cap \in Nat /\ validCount < Cap /\ Cap <= ChunkLimit
  BY <1>1, <1>3 DEF Cap
<1> QED BY <1>1, <1>2, <1>3, <1>4, <1>5

\* The handlers around the loop take over: they return the joint, which is as far
\* away as the cap allows at most, and turn the torque off.
LEMMA LeaveLoop ==
    ASSUME IInv, pc \in Looping, NEW exception, Leave(exception, ExitScript),
           Works \/ Fails, UNCHANGED <<mode, start, torque, armed>>,
           IF NoMotion THEN pos' = pos ELSE pos' \in Inset,
           Distance(pos', start) <= Delta * Cap, pos' \in Int
    PROVE  Safe'
<1> USE LoopFacts DEF NoMotion
<1>1. /\ pc' = "cleanup" /\ todo' = ExitScript /\ steps' = 0 /\ errors' = {}
      /\ Cap' = Cap /\ Distance(pos, start)' <= Delta * Cap
  BY DEF Leave, Cap
<1>2. ChunkLimit \in Nat \ {0} /\ Delta \in Nat
  BY SessionConstants
<1>3. Scripted'
  BY <1>1, <1>2, Scripts DEF Scripted, Returning
<1>4. Powered'
  BY <1>1, Scripts DEF Powered, Preparing, Looping, Returning
<1>5. Placed'
  BY <1>1 DEF Placed, Preparing
<1>6. Counting'
  BY <1>1 DEF Counting, Preparing, Looping
<1>7. Returned'
  <2>1. CASE NoMotion
    BY <1>1, <1>2, <2>1, DistanceLaws DEF Returned
  <2>2. CASE ~NoMotion
    BY <1>1, <2>2, Scripts DEF Returned, Returning
  <2> QED BY <2>1, <2>2
<1>8. Fits'
  <2>1. Delta * Cap <= Delta * ChunkLimit
    BY <1>2, NoFewer
  <2>2. Delta * Cap \in Nat /\ Delta * ChunkLimit \in Nat /\ ChunkLimit - 0 = ChunkLimit
    BY <1>2, OneMore
  <2>3. Distance(pos, start)' \in Nat
    BY DistanceLaws
  <2> QED BY <1>1, <2>1, <2>2, <2>3 DEF Fits
<1>9. Reported'
  <2>1. CASE NoMotion
    BY <2>1 DEF Reported
  <2>2. CASE ~NoMotion
    BY <1>1, <2>2, Scripts DEF Reported
  <2> QED BY <2>1, <2>2
<1> QED BY <1>3, <1>4, <1>5, <1>6, <1>7, <1>8, <1>9 DEF Safe

\* The loop goes on.
LEMMA StayInLoop ==
    ASSUME IInv, pc \in Looping, NEW label \in Looping, Proceed(label),
           UNCHANGED <<mode, start, torque, armed>>,
           IF NoMotion THEN pos' = pos ELSE pos' \in Inset,
           validCount' <= chunkCount', chunkCount' < ChunkLimit,
           mode.singleAction => validCount' = 0,
           Distance(pos', start) <= Delta * validCount', Distance(pos', start) <= Delta * Cap
    PROVE  Safe'
<1> USE LoopFacts DEF NoMotion
<1>1. /\ pc' \in Looping /\ todo' = << >> /\ steps' = 0 /\ errors' = {}
      /\ Cap' = Cap /\ Distance(pos, start)' <= Delta * Cap
      /\ Distance(pos, start)' <= Delta * validCount'
  BY DEF Proceed, Cap, cleanup
<1>2. pc' \notin {"setup", "enter", "started", "cleanup", "done"} \cup Preparing
  BY <1>1 DEF Preparing, Looping
<1>3. ~Returning'
  BY <1>1, Scripts DEF Returning
<1>4. Scripted' /\ Powered' /\ Placed'
  <2>1. Scripted'
    BY <1>1, <1>2, <1>3, Scripts DEF Scripted
  <2>2. Powered'
    BY <1>1, <1>2, <1>3 DEF Powered, Looping
  <2>3. Placed'
    BY <1>1, <1>2 DEF Placed, Looping
  <2> QED BY <2>1, <2>2, <2>3
<1>5. Counting'
  BY <1>1, <1>2 DEF Counting
<1>6. Returned' /\ Fits' /\ Reported'
  BY <1>1, <1>2, <1>3 DEF Returned, Fits, Reported
<1> QED BY <1>4, <1>5, <1>6 DEF Safe

\* A write of the loop: a command of the envelope, or a hold.
LEMMA LoopWrite ==
    ASSUME IInv, pc \in Looping, ~NoMotion, NEW g \in Int, DriveTo(g),
           UNCHANGED <<mode, start>>, Distance(g, pos) <= Delta, g \in Inset
    PROVE  /\ UNCHANGED <<torque, armed>> /\ pos' \in Inset /\ pos' \in Int
           /\ Distance(pos', pos) <= Delta
           /\ Distance(pos', start) <= Delta * (validCount + 1)
           /\ Distance(pos', start) <= Delta * Cap
           /\ g = pos => pos' = pos
<1> USE LoopFacts
<1>1. /\ pos' \in Int /\ UNCHANGED <<torque, armed>> /\ pos' \in Inset
      /\ Distance(pos', pos) <= Distance(g, pos)
  BY Driven DEF IInv
<1>2. Delta \in Nat
  BY SessionConstants
<1>3. Distance(pos', pos) <= Delta /\ Distance(pos', pos) \in Nat /\ (g = pos => pos' = pos)
  <2>1. \A a, b \in Int: Distance(a, b) \in Nat /\ (Distance(a, b) = 0 <=> a = b)
    BY DistanceLaws
  <2>2. Distance(pos', pos) \in Nat /\ Distance(g, pos) \in Nat
    BY <1>1, <2>1
  <2>3. Distance(pos', pos) <= Delta
    BY <1>1, <1>2, <2>2
  <2>4. ASSUME g = pos PROVE pos' = pos
    <3>1. Distance(pos', pos) = 0
      BY <1>1, <2>1, <2>2, <2>4
    <3> QED BY <1>1, <2>1, <3>1
  <2> QED BY <2>2, <2>3, <2>4
<1>4. Distance(pos', start) <= Distance(pos', pos) + Distance(pos, start)
      /\ Distance(pos', start) \in Nat /\ Distance(pos, start) \in Nat
  BY <1>1, DistanceLaws
<1>5. Delta * (validCount + 1) = Delta * validCount + Delta /\ Delta * validCount \in Nat
  BY <1>2, OneMore
<1>6. Distance(pos', start) <= Delta * (validCount + 1)
  BY <1>2, <1>3, <1>4, <1>5
<1>7. Delta * (validCount + 1) <= Delta * Cap /\ Delta * Cap \in Nat
  BY <1>2, NoFewer, OneMore
<1> QED BY <1>1, <1>2, <1>3, <1>4, <1>5, <1>6, <1>7

LEMMA WriteFacts ==
    ASSUME IInv, pc \in Looping, UNCHANGED <<mode, start>>, NEW g \in Int,
           ~NoMotion => Distance(g, pos) <= Delta /\ g \in Inset,
           UNCHANGED servo \/ Write(g) \/ (~NoMotion /\ DriveTo(g))
    PROVE  /\ UNCHANGED <<torque, armed>> /\ pos' \in Int /\ goal' \in Int
           /\ IF NoMotion THEN pos' = pos ELSE pos' \in Inset
           /\ Distance(pos', pos) <= Delta
           /\ Distance(pos', start) <= Delta * (validCount + 1)
           /\ Distance(pos', start) <= Delta * Cap
           /\ g = pos => pos' = pos
<1> USE LoopFacts
<1>0. goal \in Int /\ Delta \in Nat
  BY SessionConstants DEF IInv, Safe, TypeOK
<1>1. CASE UNCHANGED servo
  <2>1. UNCHANGED <<torque, armed, pos, goal>> /\ Distance(pos', pos) = 0
    BY <1>1, DistanceLaws DEF servo
  <2>2. Delta * (validCount + 1) = Delta * validCount + Delta /\ Delta * validCount \in Nat
    BY <1>0, OneMore
  <2>3. Distance(pos, start) \in Nat
    BY DistanceLaws
  <2>4. Distance(pos', start) <= Delta * (validCount + 1)
    BY <1>0, <2>1, <2>2, <2>3
  <2> QED BY <1>0, <2>1, <2>4
<1>2. CASE ~NoMotion /\ DriveTo(g)
  <2>1. goal' = g
    BY <1>2 DEF DriveTo
  <2> QED BY <1>2, <2>1, LoopWrite
<1>3. CASE Write(g)
  BY <1>1, <1>2, <1>3 DEF Write
<1> QED BY <1>1, <1>2, <1>3

LEMMA TargetFacts ==
    ASSUME IInv, pc \in Looping
    PROVE  LET d == Evaluate(chunk, pos) IN
              /\ Target(d) \in Int
              /\ ~NoMotion => Distance(Target(d), pos) <= Delta /\ Target(d) \in Inset
              /\ d.hold => Target(d) = pos
<1> DEFINE d == Evaluate(chunk, pos)
<1>1. chunk \in Int \cup {Malformed} /\ pos \in Int /\ Delta \in Nat
  BY SessionConstants DEF IInv, Safe, TypeOK
<1>2. CASE d.hold
  <2>1. Target(d) = pos
    BY <1>2 DEF Target
  <2> QED BY <1>1, <1>2, <2>1, DistanceLaws, LoopFacts
<1>3. CASE ~d.hold
  <2>1. Target(d) = d.target
    BY <1>3 DEF Target
  <2> QED BY <1>1, <1>3, <2>1, CommandInReach, LoopFacts
<1> QED BY <1>2, <1>3
-----------------------------------------------------------------------------
\* The control loop, step by step.

LEMMA CheckLimitsKeeps == IInv /\ CheckLimits /\ UNCHANGED mode => IInv'
<1> SUFFICES ASSUME IInv, CheckLimits, UNCHANGED mode PROVE IInv'
  OBVIOUS
<1>1. /\ pc = "check" /\ pc \in Looping /\ "observe" \in Looping
      /\ UNCHANGED <<mode, start, torque, armed, pos, validCount, chunkCount>>
  BY DEF CheckLimits, servo, Looping
<1>2. TypeOK'
  BY FaultsCounted, Scripts, TodosAreScripts
     DEF IInv, TypeOK, CheckLimits, Works, Proceed, Stop, Leave, cleanup, servo
<1>3. CASE Proceed("observe")
  BY <1>1, <1>2, <1>3, LoopFacts, StayInLoop DEF IInv, Safe, Counting
<1>4. CASE Stop
  <2>1. Works
    BY DEF CheckLimits
  <2> QED BY <1>1, <1>2, <1>4, <2>1, LoopFacts, LeaveLoop DEF Stop, IInv
<1> QED BY <1>3, <1>4 DEF CheckLimits

LEMMA ObserveKeeps == IInv /\ Observe /\ UNCHANGED mode => IInv'
<1> SUFFICES ASSUME IInv, Observe, UNCHANGED mode PROVE IInv'
  OBVIOUS
<1>1. /\ pc = "observe" /\ pc \in Looping /\ "receive" \in Looping
      /\ UNCHANGED <<mode, start, torque, armed, pos, validCount, chunkCount>>
  BY DEF Observe, servo, counts, Looping
<1>2. TypeOK'
  <2>1. TypeOK /\ faults' \in 0 .. MaxFaults
    BY FaultsCounted DEF Observe, Raise, IInv
  <2> QED BY <2>1, Scripts, TodosAreScripts DEF TypeOK, Observe, Proceed, Raise, Leave, cleanup, servo, counts
<1>3. CASE Proceed("receive")
  BY <1>1, <1>2, <1>3, LoopFacts, StayInLoop DEF IInv, Safe, Counting
<1>4. CASE Raise(ExitScript)
  BY <1>1, <1>2, <1>4, LoopFacts, LeaveLoop DEF Raise, IInv
<1> QED BY <1>3, <1>4 DEF Observe

LEMMA ReceiveKeeps == IInv /\ Receive /\ UNCHANGED mode => IInv'
<1> SUFFICES ASSUME IInv, Receive, UNCHANGED mode PROVE IInv'
  OBVIOUS
<1>1. /\ pc = "receive" /\ pc \in Looping /\ "process" \in Looping /\ "timeout" \in Looping
      /\ UNCHANGED <<mode, start, torque, armed, pos, validCount, chunkCount>>
  BY DEF Receive, servo, counts, Looping
<1>2. TypeOK'
  <2>1. TypeOK /\ faults' \in 0 .. MaxFaults
    BY FaultsCounted DEF Receive, Raise, IInv
  <2> QED BY <2>1, Scripts, TodosAreScripts DEF TypeOK, Receive, Proceed, Raise, Leave, cleanup, servo, counts
<1>3. CASE Proceed("process") \/ Proceed("timeout")
  BY <1>1, <1>2, <1>3, LoopFacts, StayInLoop DEF IInv, Safe, Counting
<1>4. CASE Raise(ExitScript)
  BY <1>1, <1>2, <1>4, LoopFacts, LeaveLoop DEF Raise, IInv
<1> QED BY <1>3, <1>4 DEF Receive

LEMMA ProcessLateKeeps == IInv /\ ProcessLate /\ UNCHANGED mode => IInv'
<1> SUFFICES ASSUME IInv, ProcessLate, UNCHANGED mode PROVE IInv'
  OBVIOUS
<1>1. /\ pc = "process" /\ pc \in Looping /\ Works
      /\ UNCHANGED <<mode, start, torque, armed, pos, validCount, chunkCount>>
      /\ \E exception: Leave(exception, ExitScript)
  BY DEF ProcessLate, servo, counts, Looping, Stop
<1>2. TypeOK'
  BY FaultsCounted, Scripts, TodosAreScripts
     DEF IInv, TypeOK, ProcessLate, Works, Proceed, Stop, Leave, cleanup, servo, counts
<1> QED BY <1>1, <1>2, LoopFacts, LeaveLoop DEF IInv

LEMMA RecordTimeoutKeeps == IInv /\ RecordTimeout /\ UNCHANGED mode => IInv'
<1> SUFFICES ASSUME IInv, RecordTimeout, UNCHANGED mode PROVE IInv'
  OBVIOUS
<1>1. /\ pc = "timeout" /\ pc \in Looping /\ "check" \in Looping
      /\ UNCHANGED <<mode, start, chunk, expired, validCount, chunkCount>>
  BY DEF RecordTimeout, Looping
<1>2. /\ UNCHANGED servo \/ Write(pos) \/ (~NoMotion /\ DriveTo(pos))
      /\ Works \/ Fails
  BY DEF RecordTimeout, ReadFails, WriteFails, Raise
<1>3. ~NoMotion => Distance(pos, pos) <= Delta /\ pos \in Inset
  BY <1>1, LoopFacts, DistanceLaws, SessionConstants
<1>4. /\ UNCHANGED <<torque, armed>> /\ pos' = pos /\ goal' \in Int
      /\ IF NoMotion THEN pos' = pos ELSE pos' \in Inset
      /\ Distance(pos', start) <= Delta * Cap /\ pos \in Int
  BY <1>1, <1>2, <1>3, LoopFacts, WriteFacts
<1>5. \/ Proceed("check") /\ timeouts' = timeouts + 1 /\ stopReason' = stopReason
      \/ Stop /\ timeouts' = timeouts + 1 /\ stopReason' = "watchdog_timeout"
      \/ Raise(ExitScript) /\ UNCHANGED <<timeouts, stopReason>>
  BY DEF RecordTimeout, ReadFails, WriteFails
<1>6. TypeOK'
  <2>1. TypeOK /\ faults' \in 0 .. MaxFaults
    BY <1>2, FaultsCounted DEF IInv
  <2>2. /\ pc' \in {"check", "cleanup"} /\ todo' \in Todos /\ steps' = steps /\ errors' = errors /\ closed' = closed
        /\ raised' \in {raised, "none", "fault"}
    BY <1>1, <1>5, LoopFacts, Scripts DEF Proceed, Stop, Raise, Leave, cleanup
  <2>3. timeouts' \in Nat /\ stopReason' \in {stopReason, "watchdog_timeout"}
    <3>1. timeouts \in Nat
      BY <2>1 DEF TypeOK
    <3> QED BY <1>5, <3>1
  <2> QED BY <1>1, <1>4, <2>1, <2>2, <2>3, TodosAreScripts DEF TypeOK
<1>7. CASE Proceed("check")
  BY <1>1, <1>4, <1>6, <1>7, LoopFacts, StayInLoop DEF IInv, Safe, Counting
<1>8. CASE Stop \/ Raise(ExitScript)
  <2>1. \E exception: Leave(exception, ExitScript)
    BY <1>8 DEF Stop, Raise
  <2> QED BY <1>1, <1>2, <1>4, <1>6, <2>1, LeaveLoop DEF IInv
<1> QED BY <1>5, <1>7, <1>8

LEMMA ProcessChunkKeeps == IInv /\ ProcessChunk /\ UNCHANGED mode => IInv'
<1> SUFFICES ASSUME IInv, ProcessChunk, UNCHANGED mode PROVE IInv'
  OBVIOUS
<1> DEFINE d == Evaluate(chunk, pos)
           g == Target(d)
           done == IF NoMotion \/ d.hold THEN 0 ELSE 1
<1>1. /\ pc = "process" /\ pc \in Looping /\ "check" \in Looping
      /\ UNCHANGED <<mode, start, chunk, expired>>
  BY DEF ProcessChunk, Looping
<1>2. /\ UNCHANGED servo \/ Write(g) \/ (~NoMotion /\ DriveTo(g))
      /\ Works \/ Fails
  BY DEF ProcessChunk, ReadFails, WriteFails, Raise
<1>3. /\ UNCHANGED <<torque, armed>> /\ pos' \in Int /\ goal' \in Int
      /\ IF NoMotion THEN pos' = pos ELSE pos' \in Inset
      /\ Distance(pos', start) <= Delta * (validCount + 1)
      /\ Distance(pos', start) <= Delta * Cap
      /\ d.hold => pos' = pos
  <2>1. /\ g \in Int /\ (d.hold => g = pos)
        /\ ~NoMotion => Distance(g, pos) <= Delta /\ g \in Inset
    BY <1>1, TargetFacts
  <2> HIDE DEF g, d
  <2> QED BY <1>1, <1>2, <2>1, WriteFacts
<1>4. \/ /\ timeouts' = 0 /\ chunkCount' = chunkCount + Counted(d) /\ validCount' = validCount + done
         /\ stopReason' = ReasonAfter(validCount', chunkCount')
         /\ (Proceed("check") /\ stopReason' = "none") \/ Stop
      \/ Raise(ExitScript) /\ UNCHANGED counts
  BY DEF ProcessChunk, ReadFails, WriteFails
<1>5. Counted(d) = (IF NoMotion THEN 0 ELSE 1) /\ Counted(d) \in {0, 1} /\ done \in {0, 1}
  BY DEF Counted
<1> HIDE DEF d, g
<1>6. TypeOK'
  <2>1. stopReason' \in {"none", "duration_limit", "watchdog_timeout", "action_limit", "chunk_limit"}
    BY <1>4 DEF ReasonAfter, IInv, TypeOK, counts
  <2>2. chunkCount' \in Nat /\ validCount' \in Nat /\ timeouts' \in Nat
    <3>1. chunkCount \in Nat /\ validCount \in Nat /\ timeouts \in Nat
      BY DEF IInv, TypeOK
    <3> HIDE DEF done
    <3> QED BY <1>4, <1>5, <3>1 DEF counts
  <2> HIDE DEF done
  <2>3. /\ pc' \in {"check", "cleanup"} /\ todo' \in Todos /\ steps' = steps /\ errors' = errors /\ closed' = closed
        /\ raised' \in {raised, "none", "fault"}
    BY <1>1, <1>4, LoopFacts, Scripts DEF Proceed, Stop, Raise, Leave, cleanup
  <2>4. TypeOK /\ faults' \in 0 .. MaxFaults
    BY <1>2, FaultsCounted DEF IInv
  <2> QED BY <1>1, <1>3, <2>1, <2>2, <2>3, <2>4, TodosAreScripts DEF TypeOK
<1>7. CASE Proceed("check") /\ stopReason' = "none" /\ chunkCount' = chunkCount + Counted(d)
           /\ validCount' = validCount + done /\ stopReason' = ReasonAfter(validCount', chunkCount')
  <2>1. CASE NoMotion
    <3>1. pos' = pos /\ validCount' = validCount /\ chunkCount' = chunkCount
      BY <1>3, <1>5, <1>7, <2>1, LoopFacts, <1>1
    <3> QED BY <1>1, <1>3, <1>6, <1>7, <3>1, LoopFacts, StayInLoop DEF IInv, Safe, Counting
  <2>2. CASE ~NoMotion
    <3>1. chunkCount' = chunkCount + 1 /\ chunkCount' < ChunkLimit
      BY <1>1, <1>5, <1>7, <2>2, LoopFacts, SessionConstants DEF ReasonAfter
    <3>2. validCount' \in {validCount, validCount + 1} /\ (validCount' = validCount => d.hold)
      BY <1>1, <1>7, <2>2, LoopFacts
    <3>3. mode.singleAction => validCount' = 0
      BY <1>1, <1>7, <2>2, <3>2, LoopFacts DEF ReasonAfter
    <3>4. Distance(pos', start) <= Delta * validCount' /\ validCount' <= chunkCount'
      BY <1>1, <1>3, <3>1, <3>2, LoopFacts
    <3> QED BY <1>1, <1>3, <1>6, <1>7, <3>1, <3>3, <3>4, StayInLoop DEF IInv
  <2> QED BY <2>1, <2>2
<1>8. CASE Stop \/ Raise(ExitScript)
  <2>1. \E exception: Leave(exception, ExitScript)
    BY <1>8 DEF Stop, Raise
  <2> QED BY <1>1, <1>2, <1>3, <1>6, <2>1, LeaveLoop DEF IInv
<1> QED BY <1>4, <1>7, <1>8
-----------------------------------------------------------------------------
\* Setup, step by step.

\* Until the loop the joint is where it started.
LEMMA StartKnown ==
    ASSUME IInv
    PROVE  /\ Delta \in Nat /\ Delta * 0 = 0 /\ ChunkLimit \in Nat \ {0}
           /\ pc \in Preparing \cup {"started"} => pos = start /\ Distance(pos, start) = 0
<1>1. pos \in Int
  BY DEF IInv, TypeOK
<1>2. Delta \in Nat /\ ChunkLimit \in Nat \ {0}
  BY SessionConstants
<1>3. pc \in Preparing \cup {"started"} => pos = start
  BY DEF IInv, Safe, Placed
<1> QED BY <1>1, <1>2, <1>3, DistanceLaws

LEMMA TransportStartKeeps == IInv /\ TransportStart /\ UNCHANGED mode => IInv'
<1> SUFFICES ASSUME IInv, TransportStart, UNCHANGED mode PROVE IInv'
  OBVIOUS
<1> USE Scripts DEF TransportStart, Works, Proceed, Raise, Leave, servo, counts, cleanup, IInv, Safe
<1>1. TypeOK'
  BY FaultsCounted, TodosAreScripts DEF TypeOK
<1>2. Scripted' /\ Powered' /\ Placed'
  BY DEF Scripted, Powered, Placed, Returning, Preparing, Looping, NoMotion
<1>3. Counting'
  BY StartKnown DEF Counting, Placed, Preparing, Looping, Cap
<1>4. Returned' /\ Fits' /\ Reported'
  BY FaultsCounted, StartKnown DEF Returned, Fits, Reported, Scripted, Powered, Placed, Returning, Preparing, Looping, NoMotion
<1> QED BY <1>1, <1>2, <1>3, <1>4

LEMMA EnterReadFailsKeeps == IInv /\ EnterReadFails /\ UNCHANGED mode => IInv'
<1> SUFFICES ASSUME IInv, EnterReadFails, UNCHANGED mode PROVE IInv'
  OBVIOUS
<1> USE Scripts DEF EnterReadFails, Raise, Leave, servo, counts, IInv, Safe
<1>1. TypeOK'
  BY FaultsCounted, TodosAreScripts DEF TypeOK
<1>2. Scripted' /\ Powered' /\ Placed'
  BY DEF Scripted, Powered, Placed, Returning, Preparing, Looping, NoMotion
<1>3. Counting'
  BY StartKnown DEF Counting, Placed, Preparing, Looping, Cap
<1>4. Returned' /\ Fits' /\ Reported'
  BY FaultsCounted, StartKnown DEF Returned, Fits, Reported, Scripted, Powered, Placed, Returning, Preparing, Looping, NoMotion
<1> QED BY <1>1, <1>2, <1>3, <1>4

LEMMA PreloadRefusedKeeps == IInv /\ PreloadRefused /\ UNCHANGED mode => IInv'
<1> SUFFICES ASSUME IInv, PreloadRefused, UNCHANGED mode PROVE IInv'
  OBVIOUS
<1> USE Scripts DEF PreloadRefused, Raise, Leave, servo, counts, IInv, Safe
<1>1. TypeOK'
  BY FaultsCounted, TodosAreScripts DEF TypeOK
<1>2. Scripted' /\ Powered' /\ Placed'
  BY DEF Scripted, Powered, Placed, Returning, Preparing, Looping, NoMotion
<1>3. Counting'
  BY StartKnown DEF Counting, Placed, Preparing, Looping, Cap
<1>4. Returned' /\ Fits' /\ Reported'
  BY FaultsCounted, StartKnown DEF Returned, Fits, Reported, Scripted, Powered, Placed, Returning, Preparing, Looping, NoMotion
<1> QED BY <1>1, <1>2, <1>3, <1>4

LEMMA PreloadKeeps == IInv /\ Preload /\ UNCHANGED mode => IInv'
<1> SUFFICES ASSUME IInv, Preload, UNCHANGED mode PROVE IInv'
  OBVIOUS
<1> USE Scripts DEF Preload, Works, Proceed, Raise, Leave, servo, counts, cleanup, IInv, Safe
<1>1. TypeOK'
  BY FaultsCounted, TodosAreScripts DEF TypeOK
<1>2. Scripted' /\ Powered' /\ Placed'
  BY DEF Scripted, Powered, Placed, Returning, Preparing, Looping, NoMotion
<1>3. Counting'
  BY StartKnown DEF Counting, Placed, Preparing, Looping, Cap
<1>4. Returned' /\ Fits' /\ Reported'
  BY FaultsCounted, StartKnown DEF Returned, Fits, Reported, Scripted, Powered, Placed, Returning, Preparing, Looping, NoMotion
<1> QED BY <1>1, <1>2, <1>3, <1>4

LEMMA VerifyPreloadKeeps == IInv /\ VerifyPreload /\ UNCHANGED mode => IInv'
<1> SUFFICES ASSUME IInv, VerifyPreload, UNCHANGED mode PROVE IInv'
  OBVIOUS
<1> USE Scripts DEF VerifyPreload, Works, Proceed, Raise, Leave, servo, counts, cleanup, IInv, Safe
<1>1. TypeOK'
  <2>1. faults' \in 0 .. MaxFaults
    BY FaultsCounted
  <2> QED BY <2>1, TodosAreScripts DEF TypeOK
<1>2. Scripted' /\ Powered' /\ Placed'
  BY DEF Scripted, Powered, Placed, Returning, Preparing, Looping, NoMotion
<1>3. Counting'
  BY StartKnown DEF Counting, Placed, Preparing, Looping, Cap
<1>4. Returned' /\ Fits' /\ Reported'
  BY FaultsCounted, StartKnown DEF Returned, Fits, Reported, Scripted, Powered, Placed, Returning, Preparing, Looping, NoMotion
<1> QED BY <1>1, <1>2, <1>3, <1>4

LEMMA ArmKeeps == IInv /\ Arm /\ UNCHANGED mode => IInv'
<1> SUFFICES ASSUME IInv, Arm, UNCHANGED mode PROVE IInv'
  OBVIOUS
<1>1. pos' = pos
  <2>1. pos \in Int /\ goal = pos
    BY DEF IInv, Safe, TypeOK, Arm, Placed
  <2>2. Reach(pos, goal) = {pos}
    BY <2>1 DEF Reach
  <2> QED BY <2>2 DEF Arm
<1>2. /\ pc = "arm" /\ UNCHANGED <<goal, start, chunk, expired, counts>>
      /\ \/ torque' = TRUE /\ armed' = TRUE /\ Works /\ Proceed("started")
         \/ torque' \in {torque, TRUE} /\ UNCHANGED armed /\ Raise(PrepareScript)
  BY DEF Arm
<1> USE <1>1, <1>2, Scripts DEF Proceed, Raise, Leave, counts, cleanup, IInv, Safe
<1>3. TypeOK'
  <2>1. TypeOK /\ faults' \in 0 .. MaxFaults
    BY FaultsCounted
  <2> QED BY <2>1, TodosAreScripts DEF TypeOK
<1>4. Scripted' /\ Powered' /\ Placed'
  BY DEF Scripted, Powered, Placed, Returning, Preparing, Looping, NoMotion
<1>5. Counting'
  BY StartKnown DEF Counting, Placed, Preparing, Looping, Cap
<1>6. Distance(pos, start)' = 0 /\ errors = {}
  BY StartKnown DEF Preparing, Scripted
<1>7. Returned' /\ Fits' /\ Reported'
  <2>1. Returned'
    BY <1>6, StartKnown DEF Returned
  <2>2. Fits'
    BY <1>6, FaultsCounted DEF Fits, Returning
  <2>3. Reported'
    BY DEF Reported
  <2> QED BY <2>1, <2>2, <2>3
<1> QED BY <1>3, <1>4, <1>5, <1>7

LEMMA StartedKeeps == IInv /\ Started /\ UNCHANGED mode => IInv'
<1> SUFFICES ASSUME IInv, Started, UNCHANGED mode PROVE IInv'
  OBVIOUS
<1> USE Scripts DEF Started, Works, Proceed, Raise, Leave, servo, counts, cleanup, IInv, Safe
<1>1. TypeOK'
  BY FaultsCounted, TodosAreScripts DEF TypeOK
<1>2. Scripted' /\ Powered' /\ Placed'
  BY DEF Scripted, Powered, Placed, Returning, Preparing, Looping, NoMotion
<1>3. Counting'
  BY StartKnown DEF Counting, Placed, Preparing, Looping, Cap
<1>4. Returned' /\ Fits' /\ Reported'
  BY FaultsCounted, StartKnown DEF Returned, Fits, Reported, Scripted, Powered, Placed, Returning, Preparing, Looping, NoMotion
<1> QED BY <1>1, <1>2, <1>3, <1>4

LEMMA EnterKeeps == IInv /\ Enter /\ UNCHANGED mode => IInv'
<1> SUFFICES ASSUME IInv, Enter, UNCHANGED mode PROVE IInv'
  OBVIOUS
<1> DEFINE d == Evaluate(pos, pos)
<1>1. /\ pc = "enter" /\ Works /\ UNCHANGED <<torque, goal, pos, armed, chunk, expired, stopReason, chunkCount,
                                             validCount, timeouts>>
      /\ \/ Leave("start pose", <<"close">>) /\ UNCHANGED start
         \/ /\ ~d.hold /\ (NoMotion \/ ~d.clipped) /\ start' = pos
            /\ Proceed(IF NoMotion THEN "started" ELSE "preload")
  BY DEF Enter, servo, counts
<1>2. /\ pos \in Int /\ Lower \in Int /\ Upper \in Int /\ Margin \in Nat /\ Delta \in Nat \ {0}
      /\ 2 * Margin <= Upper - Lower
  BY SessionConstants DEF IInv, TypeOK
<1>3. ~d.hold => pos \in Lower .. Upper /\ pos # NoStart
  BY <1>2 DEF Evaluate, Held, NoStart
<1>4. ~d.hold /\ ~d.clipped => pos \in Inset
  <2>1. ~d.hold /\ ~d.clipped => Clip(pos, Lower + Margin, Upper - Margin) = pos
    BY DEF Evaluate, Held
  <2>2. Clip(pos, Lower + Margin, Upper - Margin) = pos => pos \in Inset
    BY <1>2 DEF Clip, Inset
  <2> QED BY <2>1, <2>2
<1> HIDE DEF d
<1>5. /\ chunkCount' = 0 /\ validCount' = 0 /\ start = NoStart /\ pc' \notin Looping
      /\ pc' \in {"started"} \cup Preparing => start' # NoStart
      /\ start' # NoStart => start' = pos /\ pos' = pos
  <2>1. chunkCount = 0 /\ validCount = 0 /\ start = NoStart
    BY <1>1 DEF IInv, Safe, Counting, Placed
  <2> QED BY <1>1, <1>3, <2>1 DEF Leave, Proceed, Preparing, Looping
<1>6. Counting'
  <2>1. Cap \in Nat /\ Cap' = Cap /\ ChunkLimit \in Nat \ {0} /\ Delta * 0 = 0
    BY StartKnown DEF Cap
  <2>2. Delta * Cap \in Nat
    BY <1>2, <2>1, OneMore
  <2>3. start' # NoStart => Distance(pos, start)' = 0
    BY <1>2, <1>5, DistanceLaws
  <2> QED BY <1>5, <2>1, <2>2, <2>3 DEF Counting
<1> USE <1>1, Scripts DEF Works, Proceed, Leave, cleanup, IInv, Safe
<1>7. TypeOK'
  BY <1>3, TodosAreScripts DEF TypeOK
<1>8. Scripted' /\ Powered' /\ Placed'
  BY <1>3, <1>4 DEF Scripted, Powered, Placed, Returning, Preparing, Looping, NoMotion
<1>9. Returned' /\ Fits' /\ Reported'
  BY StartKnown DEF Returned, Fits, Reported, Scripted, Powered, Placed, Returning
<1> QED BY <1>6, <1>7, <1>8, <1>9

-----------------------------------------------------------------------------
\* Cleanup, attempt by attempt.

LEMMA CleanupFacts ==
    ASSUME IInv, NEW op, Attempting(op)
    PROVE  /\ todo \in Todos /\ todo # << >> /\ Head(todo) = op /\ pc = "cleanup"
           /\ todo \in ReturnTodo =>
                /\ torque /\ armed /\ ~NoMotion /\ start # NoStart /\ steps < ChunkLimit
                /\ start \in Inset /\ pos \in Inset
           /\ pos \in Int /\ start \in Int /\ errors \subseteq Ops
<1>1. /\ todo \in Todos /\ todo # << >> /\ Head(todo) = op /\ pc = "cleanup"
      /\ todo \in ReturnTodo =>
                /\ torque /\ armed /\ ~NoMotion /\ start # NoStart /\ steps < ChunkLimit
                /\ start \in Inset /\ pos \in Inset
  BY DEF IInv, Safe, Attempting, Scripted, Powered, Placed, Returning
<1>2. pos \in Int /\ errors \subseteq Ops /\ start \in Lower .. Upper \cup {NoStart} /\ Lower \in Int /\ Upper \in Int
  BY SessionConstants DEF IInv, TypeOK
<1> QED BY <1>1, <1>2 DEF NoStart

LEMMA CleanupDisableKeeps ==
    IInv /\ CleanupDisable /\ UNCHANGED <<mode, pc, start, chunk, expired, counts, raised>> => IInv'
<1> SUFFICES ASSUME IInv, CleanupDisable, UNCHANGED <<mode, pc, start, chunk, expired, counts, raised>>
             PROVE  IInv'
  OBVIOUS
<1>1. Attempting("disable") /\ UNCHANGED <<pos, goal, steps, closed>> /\ (Works \/ Fails)
  BY DEF CleanupDisable, DisableWorks, DisableFails
<1>2. /\ todo \in DisableTodo /\ ~Returning /\ pc = "cleanup"
      /\ todo' \in Todos /\ ~Returning'
      /\ \/ errors' = errors /\ torque' = FALSE /\ armed' = FALSE
         \/ errors' = errors \cup {"disable"} /\ torque' \in {torque, FALSE} /\ armed' \in {armed, FALSE}
  <2>1. /\ todo \in DisableTodo \ ReturnTodo /\ pc = "cleanup" /\ todo' = Tail(todo)
        /\ Tail(todo) \in {<<"close">>, EnterScript}
    BY <1>1, CleanupFacts, Attempts DEF CleanupDisable, Attempted
  <2>2. \/ errors' = errors /\ torque' = FALSE /\ armed' = FALSE
        \/ errors' = errors \cup {"disable"} /\ torque' \in {torque, FALSE} /\ armed' \in {armed, FALSE}
    BY DEF CleanupDisable, DisableWorks, DisableFails, Attempted
  <2> QED BY <2>1, <2>2, Scripts DEF Returning
<1>7. (torque' => torque) /\ (armed' => armed)
  <2>1. torque \in BOOLEAN /\ armed \in BOOLEAN
    BY DEF IInv, TypeOK
  <2>2. CASE torque' = FALSE /\ armed' = FALSE
    BY <2>2
  <2>3. CASE torque' \in {torque, FALSE} /\ armed' \in {armed, FALSE}
    <3>1. torque' => torque
      BY <2>1, <2>3
    <3>2. armed' => armed
      BY <2>1, <2>3
    <3> QED BY <3>1, <3>2
  <2> QED BY <1>2, <2>2, <2>3
<1> USE <1>1, <1>2 DEF counts, IInv, Safe
<1>3. TypeOK'
  <2>1. TypeOK /\ faults' \in 0 .. MaxFaults
    BY FaultsCounted
  <2>2. errors' \subseteq Ops /\ torque' \in BOOLEAN /\ armed' \in BOOLEAN
    BY DEF TypeOK, Ops
  <2> QED BY <2>1, <2>2, TodosAreScripts DEF TypeOK
<1>4. Scripted' /\ Powered' /\ Placed'
  <2>1. Scripted'
    BY DEF Scripted
  <2>2. Powered'
    BY <1>7 DEF Powered, Preparing, Looping, NoMotion
  <2>3. Placed'
    BY DEF Placed, Preparing, NoMotion
  <2> QED BY <2>1, <2>2, <2>3
<1>5. Counting'
  BY DEF Counting, Preparing, Looping, Cap
<1>6. Returned' /\ Fits' /\ Reported'
  BY FaultsCounted DEF Returned, Fits, Reported
<1> QED BY <1>3, <1>4, <1>5, <1>6

LEMMA CleanupCloseKeeps ==
    IInv /\ CleanupClose /\ UNCHANGED <<mode, pc, start, chunk, expired, counts, raised>> => IInv'
<1> SUFFICES ASSUME IInv, CleanupClose, UNCHANGED <<mode, pc, start, chunk, expired, counts, raised>>
             PROVE  IInv'
  OBVIOUS
<1>1. Attempting("close") /\ UNCHANGED <<pos, goal, steps>> /\ closed' = TRUE /\ (Works \/ Fails)
  BY DEF CleanupClose, DisableWorks, DisableFails, servo
<1>2. /\ todo \notin DisableTodo /\ pc = "cleanup"
      /\ todo' \in Todos /\ todo' \notin DisableTodo /\ ~Returning'
      /\ errors' \in {errors, errors \cup {"close"}}
      /\ torque' \in {torque, FALSE} /\ armed' \in {armed, FALSE}
  <2>1. todo = <<"close">> /\ pc = "cleanup" /\ todo' = << >>
    BY <1>1, CleanupFacts, Attempts DEF CleanupClose, Attempted
  <2>2. errors' \in {errors, errors \cup {"close"}}
    BY DEF CleanupClose, Attempted
  <2>3. torque' \in {torque, FALSE} /\ armed' \in {armed, FALSE}
    BY DEF CleanupClose, DisableWorks, DisableFails, servo
  <2> QED BY <2>1, <2>2, <2>3, Scripts DEF Returning
<1>7. (torque' => torque) /\ (armed' => armed)
  BY DEF CleanupClose, DisableWorks, DisableFails, servo
<1> USE <1>1, <1>2 DEF counts, IInv, Safe
<1>3. TypeOK'
  <2>1. TypeOK /\ faults' \in 0 .. MaxFaults
    BY FaultsCounted
  <2> QED BY <2>1, TodosAreScripts DEF TypeOK, Ops
<1>4. Scripted' /\ Powered' /\ Placed'
  <2>1. Scripted'
    BY DEF Scripted
  <2>2. Powered'
    BY <1>7 DEF Powered, Preparing, Looping, NoMotion
  <2>3. Placed'
    BY DEF Placed, Preparing, NoMotion
  <2> QED BY <2>1, <2>2, <2>3
<1>5. Counting'
  BY DEF Counting, Preparing, Looping, Cap
<1>6. Returned' /\ Fits' /\ Reported'
  <2>1. Returned'
    BY DEF Returned, Returning, DisableTodo
  <2>2. Fits'
    BY FaultsCounted DEF Fits
  <2>3. Reported'
    BY DEF Reported
  <2> QED BY <2>1, <2>2, <2>3
<1> QED BY <1>3, <1>4, <1>5, <1>6

\* A hold writes the position it reads back: the joint stays.
LEMMA CleanupHoldKeeps ==
    IInv /\ CleanupHold /\ UNCHANGED <<mode, pc, start, chunk, expired, counts, raised>> => IInv'
<1> SUFFICES ASSUME IInv, CleanupHold, UNCHANGED <<mode, pc, start, chunk, expired, counts, raised>>
             PROVE  IInv'
  OBVIOUS
<1>1. Attempting("hold") /\ UNCHANGED <<steps, closed>> /\ (Works \/ Fails)
  BY DEF CleanupHold
<1>2. /\ todo \in ReturnTodo /\ todo' \in ReturnTodo /\ errors' \in {errors, errors \cup {"hold"}}
      /\ pc = "cleanup"
  <2>1. todo \in ReturnTodo /\ Tail(todo) \in ReturnTodo /\ pc = "cleanup"
    BY <1>1, CleanupFacts, Attempts
  <2>2. todo' = Tail(todo) /\ errors' \in {errors, errors \cup {"hold"}}
    BY DEF CleanupHold, Attempted
  <2> QED BY <2>1, <2>2
<1>3. /\ torque /\ armed /\ ~NoMotion /\ start # NoStart /\ steps < ChunkLimit
      /\ start \in Inset /\ pos \in Inset /\ pos \in Int
  BY <1>1, <1>2, CleanupFacts
<1>4. /\ pos' = pos /\ torque' = torque /\ armed' = armed /\ goal' = pos
  <2>1. DriveTo(pos)
    BY <1>3 DEF CleanupHold
  <2>2. /\ pos' \in Int /\ goal' = pos /\ UNCHANGED <<torque, armed>>
        /\ Distance(pos', pos) <= Distance(pos, pos)
    BY <1>3, <2>1, Driven DEF IInv
  <2>3. Distance(pos', pos) \in Nat /\ Distance(pos, pos) = 0
    BY <1>3, <2>2, DistanceLaws
  <2>4. Distance(pos', pos) = 0
    BY <2>2, <2>3
  <2> QED BY <1>3, <2>2, <2>4, DistanceLaws
<1>5. todo' \in Todos /\ todo' \in DisableTodo /\ Returning /\ Returning'
  BY <1>2, Scripts DEF Returning, Todos, DisableTodo
<1> USE <1>2, <1>3, <1>4, <1>5 DEF counts, IInv, Safe
<1>6. TypeOK'
  <2>1. TypeOK /\ faults' \in 0 .. MaxFaults
    BY <1>1, FaultsCounted
  <2> QED BY <1>1, <2>1, TodosAreScripts DEF TypeOK, Ops
<1>7. Scripted' /\ Powered' /\ Placed'
  BY <1>1 DEF Scripted, Powered, Placed, Preparing, Looping, NoMotion
<1>8. Counting'
  BY DEF Counting, Preparing, Looping, Cap
<1>9. Returned' /\ Fits' /\ Reported'
  BY <1>1, FaultsCounted DEF Returned, Fits, Reported
<1> QED BY <1>6, <1>7, <1>8, <1>9

\* A step of the return takes the joint towards the start, a full step if it is
\* not the last; from within the inset none is refused.
LEMMA ReturnStep ==
    ASSUME IInv, Attempting("return"), UNCHANGED <<mode, start>>,
           DriveTo(Evaluate(start, pos).target) \/ UNCHANGED servo
    PROVE  /\ UNCHANGED <<torque, armed>> /\ pos' \in Inset /\ pos' \in Int /\ goal' \in Int
           /\ Distance(pos', pos) <= Delta
           /\ Distance(pos', start) <= Distance(pos, start)
           /\ DriveTo(Evaluate(start, pos).target) =>
                 IF Evaluate(start, pos).limited
                 THEN mode.exact => Distance(pos', start) = Distance(pos, start) - Delta
                 ELSE Distance(pos', start) <= (IF mode.exact THEN 0 ELSE Delta)
           /\ Distance(pos, start) <= Delta => ~Evaluate(start, pos).limited
<1> DEFINE d == Evaluate(start, pos)
           g == d.target
<1>1. /\ torque /\ start \in Inset /\ pos \in Inset /\ pos \in Int /\ start \in Int /\ todo \in ReturnTodo
  <2>1. todo \in ReturnTodo
    BY CleanupFacts, Attempts
  <2> QED BY <2>1, CleanupFacts
<1>2. Delta \in Nat \ {0} /\ Lower + Margin \in Int /\ Upper - Margin \in Int /\ goal \in Int
  <2>1. Delta \in Nat \ {0} /\ Lower \in Int /\ Upper \in Int /\ Margin \in Nat
    BY SessionConstants
  <2>2. goal \in Int
    BY DEF IInv, TypeOK
  <2>3. Lower + Margin \in Int /\ Upper - Margin \in Int
    BY <2>1
  <2> QED BY <2>1, <2>2, <2>3
<1>3. /\ g \in Inset /\ d.limited \in BOOLEAN
      /\ d.limited => Distance(pos, start) > Delta /\ Distance(g, start) = Distance(pos, start) - Delta
      /\ ~d.limited => g = start /\ Distance(pos, start) <= Delta
  BY <1>1, WayBack
<1> HIDE DEF d
<1>4. g \in Int /\ Distance(g, start) \in Nat /\ Distance(pos, start) \in Nat /\ Distance(pos, pos) = 0
      /\ Distance(start, start) = 0
  <2>1. g \in Int
    BY <1>2, <1>3 DEF Inset
  <2> QED BY <1>1, <2>1, DistanceLaws
<1>5. Distance(g, start) <= Distance(pos, start) /\ Distance(g, pos) <= Delta
  <2>1. Distance(g, start) <= Distance(pos, start)
    BY <1>2, <1>3, <1>4
  <2>2. Distance(g, pos) <= Delta
    <3>1. start \in Int \cup {Malformed} /\ ~Evaluate(start, pos).hold
      BY <1>1, WayBack
    <3> QED BY <1>1, <3>1, CommandInReach DEF d
  <2> QED BY <2>1, <2>2
<1>6. CASE UNCHANGED servo /\ ~DriveTo(g)
  <2>1. UNCHANGED <<torque, armed, pos, goal>>
    BY <1>6 DEF servo
  <2> QED BY <1>1, <1>2, <1>3, <1>4, <1>6, <2>1 DEF d
<1>7. CASE DriveTo(g)
  <2>1. /\ pos' \in Int /\ goal' = g /\ UNCHANGED <<torque, armed>>
        /\ Distance(pos', pos) <= Distance(g, pos)
        /\ pos' \in Inset
        /\ Distance(pos', start) <= Distance(pos, start) \/ Distance(pos', start) <= Distance(g, start)
        /\ \/ mode.exact /\ pos' = g
           \/ ~mode.exact /\ Distance(pos', g) <= Distance(pos, g)
    BY <1>1, <1>3, <1>4, <1>7, Driven DEF IInv
  <2>2. Distance(pos', start) \in Nat /\ Distance(pos', pos) \in Nat /\ Distance(g, pos) \in Nat
    BY <1>1, <1>4, <2>1, DistanceLaws
  <2>3. Distance(pos', pos) <= Delta
    BY <1>2, <1>5, <2>1, <2>2
  <2>4. Distance(pos', start) <= Distance(pos, start)
    BY <1>4, <1>5, <2>1, <2>2
  <2>5. IF d.limited THEN mode.exact => Distance(pos', start) = Distance(pos, start) - Delta
                     ELSE Distance(pos', start) <= (IF mode.exact THEN 0 ELSE Delta)
    <3>1. CASE d.limited
      BY <1>3, <2>1, <3>1
    <3>2. CASE ~d.limited
      BY <1>2, <1>3, <1>4, <2>1, <2>2, <3>2
    <3> QED BY <3>1, <3>2
  <2> QED BY <1>2, <1>3, <1>4, <2>1, <2>3, <2>4, <2>5 DEF d
<1> QED BY <1>6, <1>7 DEF d

LEMMA CleanupReturnKeeps ==
    IInv /\ CleanupReturn /\ UNCHANGED <<mode, pc, start, chunk, expired, counts, raised>> => IInv'
<1> SUFFICES ASSUME IInv, CleanupReturn, UNCHANGED <<mode, pc, start, chunk, expired, counts, raised>>
             PROVE  IInv'
  OBVIOUS
<1> DEFINE d == Evaluate(start, pos)
<1>1. /\ Attempting("return") /\ UNCHANGED <<closed, mode, start, pc>>
      /\ todo \in ReturnTodo /\ Tail(todo) = EnterScript /\ pc = "cleanup"
  BY CleanupFacts, Attempts DEF CleanupReturn
<1>2. /\ torque /\ armed /\ ~NoMotion /\ start # NoStart /\ steps < ChunkLimit
      /\ start \in Inset /\ pos \in Inset /\ pos \in Int /\ start \in Int
  BY <1>1, CleanupFacts
<1>3. ~d.hold /\ ~d.clipped /\ d.limited \in BOOLEAN
      /\ (d.limited => Distance(pos, start) > Delta)
  BY <1>2, WayBack
<1>4. /\ DriveTo(d.target) \/ UNCHANGED servo
      /\ \/ /\ Works /\ DriveTo(d.target) /\ steps' = steps + 1
            /\ d.limited /\ steps' < ChunkLimit /\ todo' = todo /\ errors' = errors
         \/ /\ Works /\ DriveTo(d.target) /\ steps' = steps + 1
            /\ ~(d.limited /\ steps' < ChunkLimit) /\ todo' = EnterScript
            /\ errors' = errors \cup (IF d.limited THEN {"return"} ELSE {})
         \/ /\ Fails /\ steps' = steps /\ todo' = EnterScript
            /\ errors' = errors \cup {"return"}
  <2> HIDE DEF d
  <2>1. \/ /\ Works /\ DriveTo(d.target) /\ steps' = steps + 1
           /\ IF ReturnGoesOn(d, steps') THEN UNCHANGED <<todo, errors>>
              ELSE Attempted("return", ReturnFailed(d))
        \/ /\ Fails /\ Attempted("return", TRUE) /\ UNCHANGED steps
           /\ UNCHANGED servo \/ DriveTo(d.target)
    BY <1>2, <1>3 DEF CleanupReturn, d
  <2> QED BY <1>1, <2>1 DEF ReturnGoesOn, ReturnFailed, Attempted
<1>5. /\ UNCHANGED <<torque, armed>> /\ pos' \in Inset /\ pos' \in Int /\ goal' \in Int
      /\ Distance(pos', start) <= Distance(pos, start)
      /\ DriveTo(d.target) =>
            IF d.limited
            THEN mode.exact => Distance(pos', start) = Distance(pos, start) - Delta
            ELSE Distance(pos', start) <= (IF mode.exact THEN 0 ELSE Delta)
  BY <1>1, <1>4, ReturnStep
<1> HIDE DEF d
<1>6. Delta \in Nat \ {0} /\ ChunkLimit \in Nat \ {0} /\ steps \in 0 .. ChunkLimit
  BY SessionConstants DEF IInv, TypeOK
<1>7. Distance(pos', start) \in Nat /\ Distance(pos, start) \in Nat
  BY <1>2, <1>5, DistanceLaws
<1>8. /\ (Works \/ Fails) /\ steps' \in 0 .. ChunkLimit
      /\ todo' \in Todos /\ todo' \in DisableTodo /\ errors' \in {errors, errors \cup {"return"}}
      /\ Returning' => steps' < ChunkLimit
  <2>1. Works \/ Fails
    BY <1>4
  <2>2. steps' \in 0 .. ChunkLimit
    <3>1. steps' \in {steps, steps + 1}
      BY <1>4
    <3> QED BY <1>2, <1>6, <3>1
  <2>3. todo \in Todos /\ todo \in DisableTodo /\ EnterScript \notin ReturnTodo
    BY <1>1, Scripts DEF Todos, DisableTodo
  <2>4. todo' \in Todos /\ todo' \in DisableTodo /\ errors' \in {errors, errors \cup {"return"}}
    BY <1>4, <2>3, Scripts
  <2>5. Returning' => steps' < ChunkLimit
    BY <1>4, <2>3 DEF Returning
  <2> QED BY <2>1, <2>2, <2>4, <2>5
<1> USE DEF counts, IInv, Safe
<1>9. TypeOK'
  <2>1. TypeOK /\ faults' \in 0 .. MaxFaults
    BY <1>4, FaultsCounted
  <2>2. UNCHANGED <<pc, chunk, expired, stopReason, chunkCount, validCount, timeouts, raised, mode, start>>
    OBVIOUS
  <2>3. todo' \in Seq(Ops) /\ errors' \subseteq Ops
    BY <1>8, <2>1, TodosAreScripts DEF Ops, TypeOK
  <2> QED BY <1>1, <1>5, <1>8, <2>1, <2>2, <2>3 DEF TypeOK
<1>10. Scripted' /\ Powered' /\ Placed'
  <2>1. UNCHANGED <<mode, pc, start, torque, armed, NoMotion>> /\ pc = "cleanup"
    BY <1>1, <1>5 DEF NoMotion
  <2>2. Scripted'
    BY <1>2, <1>8, <2>1 DEF Scripted
  <2>3. Powered'
    BY <1>2, <2>1 DEF Powered, Preparing, Looping
  <2>4. Placed'
    BY <1>2, <1>5, <2>1 DEF Placed, Preparing
  <2> QED BY <2>2, <2>3, <2>4
<1>11. Counting'
  <2>1. Distance(pos, start) <= Delta * Cap /\ Cap' = Cap /\ Delta * Cap \in Nat
    <3>1. Distance(pos, start) <= Delta * Cap
      BY <1>2 DEF Counting
    <3>2. Cap \in Nat
      BY <1>6 DEF Cap
    <3> QED BY <1>1, <1>6, <3>1, <3>2, OneMore DEF Cap
  <2>2. Distance(pos', start') <= Delta * Cap'
    BY <1>1, <1>5, <1>7, <2>1
  <2>3. pc' = "cleanup"
    BY <1>1
  <2> QED BY <2>2, <2>3 DEF Counting, Preparing, Looping
<1>12. Returned'
  <2>1. CASE Returning' \/ "return" \in errors'
    BY <2>1 DEF Returned
  <2>2. CASE ~Returning' /\ "return" \notin errors'
    <3>1. DriveTo(d.target) /\ ~d.limited
      BY <1>1, <1>3, <1>4, <2>2 DEF Returning
    <3>2. Distance(pos', start') <= (IF mode'.exact THEN 0 ELSE Delta)
      BY <1>1, <1>5, <3>1
    <3> QED BY <3>2 DEF Returned
  <2> QED BY <2>1, <2>2
<1>13. Fits'
  <2> SUFFICES ASSUME mode'.exact, faults' = 0
               PROVE  /\ "return" \notin errors'
                      /\ Returning' => Distance(pos', start') <= Delta * (ChunkLimit - steps')
    BY DEF Fits
  <2>1. Works /\ faults = 0 /\ mode.exact
    BY <1>1, <1>8, FaultsCounted
  <2>2. "return" \notin errors /\ Distance(pos, start) <= Delta * (ChunkLimit - steps)
    BY <1>1, <2>1 DEF Fits, Returning
  <2>3. ~Fails
    BY <2>1, <1>6 DEF Works, Fails
  <2> DEFINE n == ChunkLimit - steps - 1
  <2>4. n \in Nat /\ ChunkLimit - steps = n + 1
    BY <1>2, <1>6
  <2> HIDE DEF n
  <2>5. Distance(pos, start) <= Delta * n + Delta /\ Delta * n \in Nat
    <3>1. Delta * (n + 1) = Delta * n + Delta /\ Delta * n \in Nat
      BY <1>6, <2>4, OneMore
    <3> QED BY <2>2, <2>4, <3>1
  <2>6. CASE d.limited /\ steps' < ChunkLimit
    <3>1. /\ errors' = errors /\ DriveTo(d.target) /\ steps' = steps + 1
      BY <1>4, <2>3, <2>6
    <3>2. Distance(pos', start) = Distance(pos, start) - Delta
      BY <1>5, <2>1, <2>6, <3>1
    <3>3. Distance(pos', start) <= Delta * n
      BY <1>6, <1>7, <2>5, <3>2
    <3>4. ChunkLimit - steps' = n
      BY <1>6, <3>1 DEF n
    <3> QED BY <1>1, <2>2, <3>1, <3>3, <3>4
  <2>7. CASE ~(d.limited /\ steps' < ChunkLimit)
    <3>1. steps' = steps + 1 /\ todo' = EnterScript
          /\ errors' = errors \cup (IF d.limited THEN {"return"} ELSE {})
      BY <1>4, <2>3, <2>7
    <3>2. ~d.limited
      <4> SUFFICES ASSUME d.limited PROVE FALSE
        BY <1>3
      <4>1. n = 0
        BY <1>6, <2>4, <2>7, <3>1 DEF n
      <4>2. Delta * n = 0
        BY <1>6, <4>1, StartKnown
      <4>3. Distance(pos, start) <= Delta
        BY <1>6, <1>7, <2>5, <4>2
      <4> QED BY <1>3, <1>6, <1>7, <4>3
    <3>3. ~Returning'
      BY <3>1, Scripts DEF Returning
    <3> QED BY <2>2, <3>1, <3>2, <3>3
  <2> QED BY <2>6, <2>7
<1>14. Reported'
  BY <1>8 DEF Reported
<1> QED BY <1>9, <1>10, <1>11, <1>12, <1>13, <1>14

LEMMA CleanupKeeps == IInv /\ Cleanup /\ UNCHANGED mode => IInv'
BY CleanupHoldKeeps, CleanupReturnKeeps, CleanupDisableKeeps, CleanupCloseKeeps DEF Cleanup

LEMMA FinishKeeps == IInv /\ Finish /\ UNCHANGED mode => IInv'
<1> SUFFICES ASSUME IInv, Finish, UNCHANGED mode PROVE IInv'
  OBVIOUS
<1> USE Scripts DEF Finish, servo, counts, cleanup, IInv, Safe
<1>1. TypeOK'
  BY DEF TypeOK
<1>2. Scripted' /\ Powered' /\ Placed'
  BY DEF Scripted, Powered, Placed, Returning, Preparing, Looping, NoMotion
<1>3. Counting'
  BY DEF Counting, Preparing, Looping, Cap
<1>4. Returned' /\ Fits' /\ Reported'
  BY DEF Returned, Fits, Reported, Returning
<1> QED BY <1>1, <1>2, <1>3, <1>4

-----------------------------------------------------------------------------
\* The clock and the interrupts.

LEMMA ExpireKeeps == IInv /\ Expire /\ UNCHANGED mode => IInv'
<1> SUFFICES ASSUME IInv, Expire, UNCHANGED mode PROVE IInv'
  OBVIOUS
<1> USE DEF Expire, servo, counts, cleanup, IInv, Safe
<1>1. TypeOK'
  BY DEF TypeOK
<1>2. Scripted' /\ Powered' /\ Placed'
  BY DEF Scripted, Powered, Placed, Returning, Preparing, Looping, NoMotion
<1>3. Counting'
  BY DEF Counting, Preparing, Looping, Cap
<1>4. Returned' /\ Fits' /\ Reported'
  BY DEF Returned, Fits, Reported, Returning
<1> QED BY <1>1, <1>2, <1>3, <1>4

\* An interrupt at a statement no handler encloses leaves the motors as they are.
LEMMA InterruptKeeps == IInv /\ Interrupt /\ UNCHANGED mode => IInv'
<1> SUFFICES ASSUME IInv, Interrupt, UNCHANGED mode PROVE IInv'
  OBVIOUS
<1>1. /\ Fails /\ Leave("interrupt", InterruptScript) /\ pc \in InterruptPoints
      /\ UNCHANGED <<mode, servo, start, chunk, expired, counts>>
      /\ UNCHANGED <<torque, armed, pos, goal, stopReason, chunkCount, validCount, timeouts>>
      /\ pc' = "cleanup" /\ raised' = "interrupt" /\ todo' = InterruptScript
      /\ UNCHANGED <<steps, errors, closed>>
  BY DEF Interrupt, servo, counts, Leave
<1>2. TypeOK /\ faults' \in 0 .. MaxFaults /\ faults' # 0
  <2>1. TypeOK /\ faults' \in 0 .. MaxFaults
    BY <1>1, FaultsCounted DEF IInv
  <2>2. faults \in Nat /\ faults' = faults + 1
    <3>1. faults \in 0 .. MaxFaults
      BY <2>1 DEF TypeOK
    <3> QED BY <1>1, <3>1, SessionConstants DEF Fails
  <2>3. faults' # 0
    BY <2>2
  <2> QED BY <2>1, <2>3
<1>3. /\ pc = "setup" => InterruptScript = <<"close">>
      /\ pc = "preload" => InterruptScript = EnterScript
      /\ pc \in {"verify", "arm"} => InterruptScript = PrepareScript
      /\ pc \in Looping => InterruptScript = ExitScript
      /\ pc \in {"enter", "started", "cleanup", "done"} => InterruptScript = << >>
  BY DEF InterruptScript, Looping
<1>4. pc \in {"setup", "enter", "started", "cleanup", "done"} \cup Preparing \cup Looping
  BY <1>2 DEF TypeOK, Preparing, Looping
<1>5. InterruptScript \in Todos
  <2>1. ExitScript \in Todos
    BY Scripts
  <2> QED BY <1>3, <1>4, <2>1, Scripts DEF Preparing
<1>6. TypeOK'
  <2>1. InterruptScript \in Seq(Ops)
    BY <1>5, TodosAreScripts
  <2> QED BY <1>1, <1>2, <2>1 DEF TypeOK
<1>7. CASE pc \in Looping
  <2>1. /\ IF NoMotion THEN pos' = pos ELSE pos' \in Inset
        /\ Distance(pos', start) <= Delta * Cap /\ pos' \in Int
    BY <1>1, <1>7, LoopFacts
  <2> QED BY <1>1, <1>3, <1>6, <1>7, <2>1, LeaveLoop DEF IInv
<1>8. CASE pc \notin Looping
  <2>1. InterruptScript \notin ReturnTodo
    BY <1>3, <1>4, <1>8, Scripts DEF Preparing
  <2>2. ~Returning'
    BY <1>1, <2>1 DEF Returning
  <2>3. NoMotion' = NoMotion /\ Cap' = Cap
    BY <1>1 DEF NoMotion, Cap
  <2> USE <1>1, <2>2, <2>3 DEF IInv, Safe
  <2>4. Scripted'
    BY <1>5 DEF Scripted
  <2>5. Powered'
    BY DEF Powered, Preparing, Looping
  <2>6. Placed'
    BY DEF Placed, Preparing
  <2>7. Counting'
    BY DEF Counting, Preparing, Looping
  <2>8. Returned'
    <3>1. CASE pc \in {"setup", "enter"}
      BY <3>1 DEF Returned, Placed
    <3>2. CASE pc \in Preparing \cup {"started"}
      BY <3>2, StartKnown DEF Returned
    <3>3. CASE pc = "cleanup"
      BY <3>3 DEF Returned
    <3>4. CASE pc = "done"
      BY <3>4, Scripts DEF Returned, Returning, Scripted
    <3> QED BY <1>4, <1>8, <3>1, <3>2, <3>3, <3>4
  <2>9. Fits'
    BY <1>2 DEF Fits
  <2>10. Reported'
    <3>1. CASE pc \in {"started", "cleanup"}
      BY <3>1 DEF Reported
    <3>2. CASE pc \in Preparing
      BY <1>3, <3>2, Scripts DEF Reported, Preparing
    <3>3. CASE pc \in {"setup", "enter"}
      BY <3>3 DEF Reported, Powered, Placed
    <3>4. CASE pc = "done"
      <4>1. todo = << >>
        BY <3>4 DEF Scripted
      <4> QED BY <3>4, <4>1, Scripts DEF Reported
    <3> QED BY <1>4, <1>8, <3>1, <3>2, <3>3, <3>4
  <2> QED BY <1>6, <2>4, <2>5, <2>6, <2>7, <2>8, <2>9, <2>10
<1> QED BY <1>7, <1>8

-----------------------------------------------------------------------------
\* The invariant holds in every session.

LEMMA InitOK == Init => IInv
<1> SUFFICES ASSUME Init PROVE IInv
  OBVIOUS
<1>1. /\ mode \in Modes /\ pc = "setup" /\ torque = FALSE /\ armed = FALSE
      /\ start = NoStart /\ chunk = Malformed /\ expired = FALSE /\ stopReason = "none"
      /\ chunkCount = 0 /\ validCount = 0 /\ timeouts = 0
      /\ todo = << >> /\ steps = 0 /\ errors = {} /\ closed = FALSE
      /\ raised = "none" /\ faults = 0
  BY DEF Init
<1>2. pos \in Int /\ goal \in Int /\ ChunkLimit \in Nat \ {0} /\ MaxFaults \in Nat
  BY SessionConstants DEF Init
<1>3. ~Returning
  BY <1>1, Scripts DEF Returning
<1>4. TypeOK
  <2>1. todo \in Seq(Ops)
    BY <1>1, TodosAreScripts, Scripts
  <2>2. start \in Lower .. Upper \cup {NoStart} /\ chunk \in Actions \cup {Malformed}
    BY <1>1
  <2>3. steps \in 0 .. ChunkLimit /\ faults \in 0 .. MaxFaults
    BY <1>1, <1>2
  <2> QED BY <1>1, <1>2, <2>1, <2>2, <2>3 DEF TypeOK
<1>5. Scripted /\ Powered /\ Placed
  BY <1>1, <1>3, Scripts DEF Scripted, Powered, Placed, Preparing, Looping
<1>6. Counting /\ Returned /\ Fits /\ Reported
  BY <1>1, <1>3 DEF Counting, Returned, Fits, Reported, Preparing, Looping
<1> QED BY <1>4, <1>5, <1>6 DEF IInv, Safe

LEMMA StutterKeeps == IInv /\ UNCHANGED vars => IInv'
<1> SUFFICES ASSUME IInv, UNCHANGED vars PROVE IInv'
  OBVIOUS
<1>1. /\ UNCHANGED <<mode, pc, torque, armed, goal, pos, start, chunk, expired, stopReason>>
      /\ UNCHANGED <<chunkCount, validCount, timeouts, todo, steps, raised, errors, closed, faults>>
  BY DEF vars, servo, counts, cleanup
<1>2. TypeOK'
  <2>1. /\ mode' \in Modes /\ torque' \in BOOLEAN /\ armed' \in BOOLEAN /\ goal' \in Int /\ pos' \in Int
        /\ start' \in Lower .. Upper \cup {NoStart} /\ chunk' \in Actions \cup {Malformed}
        /\ expired' \in BOOLEAN /\ closed' \in BOOLEAN /\ faults' \in 0 .. MaxFaults
    BY <1>1 DEF IInv, TypeOK
  <2>2. /\ chunkCount' \in Nat /\ validCount' \in Nat /\ timeouts' \in Nat
        /\ todo' \in Seq(Ops) /\ steps' \in 0 .. ChunkLimit /\ errors' \subseteq Ops
    BY <1>1 DEF IInv, TypeOK
  <2> QED BY <1>1, <2>1, <2>2 DEF IInv, TypeOK
<1>3. Scripted' /\ Powered' /\ Placed'
  BY <1>1 DEF IInv, Safe, Scripted, Powered, Placed, Returning, NoMotion
<1>4. Counting'
  BY <1>1 DEF IInv, Safe, Counting, Cap
<1>5. Returned' /\ Fits' /\ Reported'
  BY <1>1 DEF IInv, Safe, Returned, Fits, Reported, Returning
<1> QED BY <1>2, <1>3, <1>4, <1>5 DEF IInv, Safe

LEMMA StepKeeps == IInv /\ [Next]_vars => IInv'
<1> SUFFICES ASSUME IInv, Next PROVE IInv'
  BY StutterKeeps
<1>1. UNCHANGED mode
  BY DEF Next
<1>2. CASE Setup
  BY <1>1, <1>2, TransportStartKeeps, EnterReadFailsKeeps, EnterKeeps, PreloadRefusedKeeps,
     PreloadKeeps, VerifyPreloadKeeps, ArmKeeps, StartedKeeps DEF Setup
<1>3. CASE Loop
  BY <1>1, <1>3, CheckLimitsKeeps, ObserveKeeps, ReceiveKeeps, RecordTimeoutKeeps,
     ProcessLateKeeps, ProcessChunkKeeps DEF Loop
<1>4. CASE Cleanup \/ Finish
  BY <1>1, <1>4, CleanupKeeps, FinishKeeps
<1>5. CASE Expire \/ Interrupt
  BY <1>1, <1>5, ExpireKeeps, InterruptKeeps
<1> QED BY <1>2, <1>3, <1>4, <1>5 DEF Next, Client

LEMMA Invariant == Spec => []IInv
<1>1. Init => IInv
  BY InitOK
<1>2. IInv /\ [Next]_vars => IInv'
  BY StepKeeps
<1> QED BY <1>1, <1>2, PTL DEF Spec

\* The state of a session is always of its type: the loop never counts past its
\* caps, the return never steps past chunk_limit, cleanup only runs its scripts.
THEOREM TypeCorrect == Spec => []TypeOK
<1>1. IInv => TypeOK
  BY DEF IInv
<1> QED BY <1>1, Invariant, PTL

\* Whatever fails, and wherever an interrupt lands that the code encloses with
\* handlers: a session that ends with a motor energized has reported a failed
\* torque-off (the finally blocks of hardware_safety.py and hiwonder_client.py).
THEOREM TorqueReported ==
    ASSUME InterruptPoints \cap {"started", "cleanup"} = {}
    PROVE  Spec => []TorqueOffOrReported
<1>1. IInv => TorqueOffOrReported
  <2> SUFFICES ASSUME IInv, pc = "done", torque, errors \cap {"disable", "close"} = {} PROVE FALSE
    BY DEF TorqueOffOrReported
  <2>1. todo \in DisableTodo
    BY DEF IInv, Safe, Reported
  <2>2. todo = << >>
    BY DEF IInv, Safe, Scripted
  <2> QED BY <2>1, <2>2, Scripts
<1> QED BY <1>1, Invariant, PTL

\* A cleanup no interrupt cuts short, and that reports nothing, has put the joint
\* back where it started (return_to_start_gradually): within one step, exactly
\* if the joint follows its goals.
THEOREM ReturnsToStart ==
    ASSUME "cleanup" \notin InterruptPoints
    PROVE  Spec => []CleanExitAtStart
<1>1. IInv => CleanExitAtStart
  <2> SUFFICES ASSUME IInv, pc = "done", errors = {}, start # NoStart
               PROVE  Distance(pos, start) <= (IF mode.exact THEN 0 ELSE Delta)
    BY DEF CleanExitAtStart
  <2>1. ~Returning
    BY DEF IInv, Safe, Scripted
  <2> QED BY <2>1 DEF IInv, Safe, Returned
<1> QED BY <1>1, Invariant, PTL

\* The cap of chunk_limit steps never cuts the return of a session short.
THEOREM ReturnIsLongEnough == Spec => []ReturnFits
<1>1. IInv => ReturnFits
  BY DEF IInv, Safe, Fits, ReturnFits
<1> QED BY <1>1, Invariant, PTL

\* An energized joint stays in the inset calibration, and as far from the start
\* as its caps allow.
THEOREM TravelIsBounded == Spec => []TravelBounded
<1>1. IInv => TravelBounded
  <2> SUFFICES ASSUME IInv, torque PROVE pos \in Inset /\ Distance(pos, start) <= Delta * Cap
    BY DEF TravelBounded, Cap
  <2>1. ~NoMotion /\ start # NoStart
    BY DEF IInv, Safe, Powered
  <2> QED BY <2>1 DEF IInv, Safe, Placed, Counting
<1> QED BY <1>1, Invariant, PTL

-----------------------------------------------------------------------------
\* No step drives the joint further than the rate limit.

LEMMA Stays == IInv /\ pos' = pos => Distance(pos', pos) <= Delta
<1> SUFFICES ASSUME IInv, pos' = pos PROVE Distance(pos', pos) <= Delta
  OBVIOUS
<1>1. pos \in Int
  BY DEF IInv, TypeOK
<1>2. Distance(pos, pos) = 0
  BY <1>1, DistanceLaws
<1> QED BY <1>2, SessionConstants

LEMMA SetupNoJump == IInv /\ Setup => Distance(pos', pos) <= Delta
<1> SUFFICES ASSUME IInv, Setup PROVE Distance(pos', pos) <= Delta
  OBVIOUS
<1>1. CASE Arm
  <2>1. pos \in Int /\ goal = pos
    BY <1>1 DEF Arm, IInv, TypeOK, Safe, Placed
  <2>2. Reach(pos, goal) = {pos}
    BY <2>1 DEF Reach
  <2>3. pos' = pos
    BY <1>1, <2>2 DEF Arm
  <2> QED BY <2>3, Stays
<1>2. CASE ~Arm
  BY <1>2, Stays DEF Setup, TransportStart, EnterReadFails, Enter, PreloadRefused, Preload,
     VerifyPreload, Started, servo
<1> QED BY <1>1, <1>2

LEMMA LoopNoJump == IInv /\ Loop /\ UNCHANGED mode => Distance(pos', pos) <= Delta
<1> SUFFICES ASSUME IInv, Loop, UNCHANGED mode PROVE Distance(pos', pos) <= Delta
  OBVIOUS
<1>1. CASE CheckLimits \/ Observe \/ Receive \/ ProcessLate
  BY <1>1, Stays DEF CheckLimits, Observe, Receive, ProcessLate, servo
<1>2. CASE RecordTimeout
  <2>1. pc \in Looping /\ UNCHANGED start
    BY <1>2 DEF RecordTimeout, Looping
  <2>2. UNCHANGED servo \/ Write(pos) \/ (~NoMotion /\ DriveTo(pos))
    BY <1>2 DEF RecordTimeout, ReadFails, WriteFails
  <2>3. pos \in Int /\ (~NoMotion => Distance(pos, pos) <= Delta /\ pos \in Inset)
    BY <2>1, LoopFacts, DistanceLaws, SessionConstants
  <2> QED BY <2>1, <2>2, <2>3, WriteFacts
<1>3. CASE ProcessChunk
  <2> DEFINE g == Target(Evaluate(chunk, pos))
  <2>1. pc \in Looping /\ UNCHANGED start
    BY <1>3 DEF ProcessChunk, Looping
  <2>2. UNCHANGED servo \/ Write(g) \/ (~NoMotion /\ DriveTo(g))
    BY <1>3 DEF ProcessChunk, ReadFails, WriteFails
  <2>3. g \in Int /\ (~NoMotion => Distance(g, pos) <= Delta /\ g \in Inset)
    BY <2>1, TargetFacts
  <2> HIDE DEF g
  <2> QED BY <2>1, <2>2, <2>3, WriteFacts
<1> QED BY <1>1, <1>2, <1>3 DEF Loop

LEMMA CleanupNoJump == IInv /\ Cleanup /\ UNCHANGED mode => Distance(pos', pos) <= Delta
<1> SUFFICES ASSUME IInv, Cleanup, UNCHANGED mode PROVE Distance(pos', pos) <= Delta
  OBVIOUS
<1>1. CASE CleanupDisable \/ CleanupClose
  BY <1>1, Stays DEF CleanupDisable, CleanupClose, DisableWorks, DisableFails, servo
<1>2. CASE CleanupHold
  <2>1. UNCHANGED servo \/ DriveTo(pos)
    BY <1>2 DEF CleanupHold
  <2>2. pos \in Int
    BY DEF IInv, TypeOK
  <2>3. CASE DriveTo(pos)
    <3>1. pos' \in Int /\ Distance(pos', pos) <= Distance(pos, pos)
      BY <2>2, <2>3, Driven DEF IInv
    <3>2. Distance(pos', pos) \in Nat /\ Distance(pos, pos) = 0 /\ Delta \in Nat
      BY <2>2, <3>1, DistanceLaws, SessionConstants
    <3> QED BY <3>1, <3>2
  <2> QED BY <2>1, <2>3, Stays DEF servo
<1>3. CASE CleanupReturn
  <2>1. Attempting("return") /\ UNCHANGED <<mode, start>>
    BY <1>3 DEF CleanupReturn, Cleanup
  <2>2. DriveTo(Evaluate(start, pos).target) \/ UNCHANGED servo
    BY <1>3 DEF CleanupReturn
  <2> QED BY <2>1, <2>2, ReturnStep
<1> QED BY <1>1, <1>2, <1>3 DEF Cleanup

\* No command, and no enabling of torque over a goal register an earlier session
\* left, drives the joint further than one step.
THEOREM NeverJumps == Spec => NoJump
<1>1. IInv /\ [Next]_vars => [Distance(pos', pos) <= Delta]_vars
  <2> SUFFICES ASSUME IInv, Next PROVE Distance(pos', pos) <= Delta
    OBVIOUS
  <2>1. CASE Setup
    BY <2>1, SetupNoJump
  <2>2. CASE Loop
    BY <2>2, LoopNoJump DEF Next
  <2>3. CASE Cleanup
    BY <2>3, CleanupNoJump DEF Next
  <2>4. CASE Finish \/ Expire \/ Interrupt
    BY <2>4, Stays DEF Finish, Expire, Interrupt, servo
  <2> QED BY <2>1, <2>2, <2>3, <2>4 DEF Next, Client
<1> QED BY <1>1, Invariant, PTL DEF Spec, NoJump
=============================================================================

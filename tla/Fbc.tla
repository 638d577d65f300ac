-------------------------------- MODULE Fbc --------------------------------
(***************************************************************************)
(* Feedback controllers (fbc.c) and two tasks of equal priority: one that  *)
(* runs them, one controller to completion or all of them for ever, and    *)
(* one that sets goals, resets, and asks how things are.  Either can be    *)
(* preempted between any two actions: an action is a statement on shared   *)
(* state, except that CountStill takes the test of output and the count    *)
(* with the reading before them.                                           *)
(*                                                                         *)
(* What compute returns is any of Output: that is what the PID and every   *)
(* other controller come to here.  The robot moves as it likes.  Time is   *)
(* in periods of FBC_LOOP_INTERVAL.                                        *)
(***************************************************************************)
EXTENDS Integers

CONSTANTS
    Controllers,            \* number of controllers
    MaxPosition,            \* what the sensors return: 0 to MaxPosition
    Output,                 \* what compute may return
    NegDeadband, PosDeadband,
    AcceptableTolerance,
    AcceptableConfidence,
    MaxTimeout,             \* the longest timeout, in periods
    Calls                   \* what the tasks call

Controller == 1 .. Controllers
Position == 0 .. MaxPosition

ASSUME FbcAssumption ==
    /\ Controllers \in Nat \ {0}
    /\ MaxPosition \in Nat
    /\ Output \subseteq Int /\ Output # {}
    /\ NegDeadband \in Int /\ NegDeadband <= 0
    /\ PosDeadband \in Int /\ PosDeadband >= 0
    /\ AcceptableTolerance \in Nat
    /\ AcceptableConfidence \in Nat
    /\ MaxTimeout \in Nat
    /\ Calls \subseteq {"fbcRunCompletion", "fbcRunContinuous", "fbcSetGoal",
                       "fbcReset", "fbcIsConfident"}

FBC_STALL == -1

Task == {"runner", "caller"}

VARIABLES
    goal, output,   \* of each fbc_t
    confidence,     \* fbc_t._confidence, up to AcceptableConfidence: the code
                    \* compares it with that only
    position,       \* what sense returns
    prev, count,    \* _prev and _count of the stall detection
    at,             \* where each task is
    on,             \* its argument fbc
    sure,           \* its local variable out in fbcIsConfident
    seen,           \* the confidence that fbcGenerateOutput has read
    run,            \* fbcRunCompletion: timeout, periods since it began, what
                    \* fbcRunContinuous returned last, and the result
    history         \* for the properties only: see below

fbc == <<goal, output, confidence>>
detector == <<prev, count>>
tasks == <<at, on, sure, seen, run>>
vars == <<fbc, position, detector, tasks, history>>

Distance(a, b) == IF a < b THEN b - a ELSE a - b

AtMost(limit, n) == IF n > limit THEN limit ELSE n

\* The smallest outputs that move the robot.
Deadbanded(out) ==
    CASE 0 < out /\ out < PosDeadband -> PosDeadband
      [] NegDeadband < out /\ out < 0 -> NegDeadband
      [] OTHER -> out

\* fbcInit has run for each controller; output is not initialised.
Init ==
    /\ goal = [c \in Controller |-> 0]
    /\ output \in [Controller -> {Deadbanded(out) : out \in Output}]
    /\ confidence = [c \in Controller |-> 0]
    /\ position \in [Controller -> Position]
    /\ prev = 0 /\ count = 0
    /\ at = [t \in Task |-> "idle"]
    /\ on = [t \in Task |-> 1]
    /\ sure = [t \in Task |-> FALSE]
    /\ seen = 0
    /\ run = [mode |-> "none", timeout |-> 0, elapsed |-> 0, last |-> 0,
              result |-> "none"]
    /\ history = [ streak |-> [c \in Controller |-> 0],
                   raced |-> [c \in Controller |-> FALSE],
                   still |-> [c \in Controller |-> 0],
                   sensed |-> position,
                   disturbed |-> [c \in Controller |-> FALSE] ]

Goes(t, place) == at' = [at EXCEPT ![t] = place]

-----------------------------------------------------------------------------
(* What the properties need to know of each controller: how many           *)
(* iterations in a row were on target for its present goal (streak);       *)
(* whether a call changed the goal or the confidence while an iteration    *)
(* was using them (raced); in how many iterations in a row it was driven   *)
(* but did not move (still), since which reading (sensed); and whether     *)
(* another task or controller has used the stall detection since that or   *)
(* the count of the code was 0 (disturbed).                                *)

InIteration(c) == at["runner"] \in {"load", "store", "clear"} /\ on["runner"] = c

InCall(c) == at["caller"] \in {"forget", "resense", "regoal"} /\ on["caller"] = c

\* Confidence is lost: the past no longer matters.
Forgotten(c, races) == [history EXCEPT !.raced[c] = races]

\* The stall detection is used by t for c; c was driven without moving, n times.
Watched(t, c, n) ==
    [history EXCEPT
        !.still = IF t = "runner" THEN [@ EXCEPT ![c] = n] ELSE @,
        !.disturbed = [d \in Controller |->
            IF t = "runner" /\ d = c THEN @[d] /\ ~(n = 0 /\ count' = 0)
                                     ELSE TRUE]]

\* The same, and the sensor was read for the next time.
Noted(t, c, n) ==
    [Watched(t, c, n) EXCEPT
        !.sensed = IF t = "runner" THEN [@ EXCEPT ![c] = position[c]] ELSE @]

-----------------------------------------------------------------------------
(* fbcIsConfident, called by either task.                                  *)

\* HAS_TIMED_OUT: the start and now are read from the clock once, and now
\* grows by a period with every delay.
HasTime(timeout, elapsed) == timeout = 0 \/ elapsed <= timeout

\* fbcRunCompletion with what fbcRunContinuous returned.
CompletionGoesOn(answer) ==
    LET left == HasTime(run.timeout, run.elapsed)
        ends == answer # 0 \/ ~left
    IN  /\ run' = [run EXCEPT !.last = answer,
                              !.result = CASE ~ends -> @
                                           [] ends /\ left -> "true"
                                           [] ends /\ ~left -> "false"]
        /\ Goes("runner", IF ends THEN "idle" ELSE "delay")
        /\ UNCHANGED on

\* A task that runs all controllers goes on to the next.
LoopGoesOn ==
    /\ UNCHANGED run
    /\ IF on["runner"] < Controllers
       THEN on' = [on EXCEPT !["runner"] = @ + 1] /\ Goes("runner", "generate")
       ELSE on' = [on EXCEPT !["runner"] = 1] /\ Goes("runner", "delay")

Returns(t, answer) ==
    /\ sure' = [sure EXCEPT ![t] = FALSE]
    /\ \/ t = "caller" /\ Goes(t, "idle") /\ UNCHANGED <<on, run>>
       \/ t = "runner" /\ run.mode = "completion" /\ CompletionGoesOn(answer)
       \/ t = "runner" /\ run.mode = "loop" /\ LoopGoesOn

AskConfidence(t) ==
    /\ at[t] = "ask"
    /\ sure' = [sure EXCEPT ![t] = confidence[on[t]] >= AcceptableConfidence]
    /\ Goes(t, "sense")
    /\ UNCHANGED <<fbc, position, detector, on, seen, run, history>>

Answer(t) == IF sure[t] THEN 1 ELSE 0

MinStuck == IF AcceptableTolerance \div 8 < 1 THEN 1
                                              ELSE AcceptableTolerance \div 8

\* An output that cannot stall.
AtRest(out) == out \in {NegDeadband, PosDeadband, 0}

\* Faulty variant: the count goes on where it was.
DoNotCountYet(t) ==
    /\ at[t] = "sense"
    /\ AtRest(output[on[t]])
    /\ count' = count
    /\ Returns(t, Answer(t))
    /\ history' = Noted(t, on[t], 0)
    /\ UNCHANGED <<fbc, position, prev, seen>>

DoNotCount(t) ==
    LET c == on[t]
    IN  /\ at[t] = "sense"
        /\ AtRest(output[c])
        /\ count' = 0
        /\ Returns(t, Answer(t))
        /\ history' = Noted(t, c, 0)
        /\ UNCHANGED <<fbc, position, prev, seen>>

CountStill(t) ==
    LET c == on[t]
        still(before, n) ==
            IF Distance(position[c], before) < MinStuck THEN n + 1 ELSE 0
    IN  /\ at[t] = "sense"
        /\ ~AtRest(output[c])
        /\ count' = still(prev, count)
        /\ Goes(t, "note")
        /\ history' = Watched(t, c, AtMost(AcceptableConfidence + 3,
                                  still(history.sensed[c], history.still[c])))
        /\ UNCHANGED <<fbc, position, prev, on, sure, seen, run>>

\* Faulty variant: the reading is taken over after a stall only.
NoteStallOnly(t) ==
    LET c == on[t]
        stall == count > AcceptableConfidence
    IN  /\ at[t] = "note"
        /\ prev' = IF stall THEN position[c] ELSE prev
        /\ count' = IF stall THEN 0 ELSE count
        /\ Returns(t, IF stall THEN FBC_STALL ELSE Answer(t))
        /\ history' = Noted(t, c, IF stall THEN 0 ELSE history.still[c])
        /\ UNCHANGED <<fbc, position, seen>>

\* The sensor is read once more; it may have moved since.
NoteStill(t) ==
    LET c == on[t]
        stall == count > AcceptableConfidence
    IN  /\ at[t] = "note"
        /\ prev' = IF stall THEN 0 ELSE position[c]
        /\ count' = IF stall THEN 0 ELSE count
        /\ Returns(t, IF stall THEN FBC_STALL ELSE Answer(t))
        /\ history' = Noted(t, c, IF stall THEN 0 ELSE history.still[c])
        /\ UNCHANGED <<fbc, position, seen>>

-----------------------------------------------------------------------------
(* The task that runs controllers.                                         *)

Starts(call, c, mode, timeout) ==
    /\ call \in Calls
    /\ at["runner"] = "idle"
    /\ on' = [on EXCEPT !["runner"] = c]
    /\ run' = [mode |-> mode, timeout |-> timeout, elapsed |-> 0, last |-> 0,
               result |-> "none"]
    /\ Goes("runner", "generate")
    /\ UNCHANGED <<fbc, position, detector, sure, seen, history>>

RunCompletion(c, timeout) ==
    Starts("fbcRunCompletion", c, "completion", timeout)

\* _fbcTask, or a loop of the application over several controllers.
RunAll == Starts("fbcRunContinuous", 1, "loop", 0)

\* fbcGenerateOutput reads goal and sensor.
Generate ==
    LET c == on["runner"]
    IN  /\ at["runner"] = "generate"
        /\ Goes("runner",
                IF Distance(goal[c], position[c]) < AcceptableTolerance
                THEN "load" ELSE "clear")
        /\ UNCHANGED <<fbc, position, detector, on, sure, seen, run, history>>

\* The increment is a load and a store.
LoadConfidence ==
    /\ at["runner"] = "load"
    /\ seen' = confidence[on["runner"]]
    /\ Goes("runner", "store")
    /\ UNCHANGED <<fbc, position, detector, on, sure, run, history>>

\* Faulty variant: the confidence does not grow.
StoreOne ==
    LET c == on["runner"]
    IN  /\ at["runner"] = "store"
        /\ confidence' = [confidence EXCEPT ![c] = 1]
        /\ seen' = 0
        /\ Goes("runner", "move")
        /\ UNCHANGED <<goal, output, position, detector, on, sure, run, history>>

StoreConfidence ==
    LET c == on["runner"]
    IN  /\ at["runner"] = "store"
        /\ confidence' =
              [confidence EXCEPT ![c] = AtMost(AcceptableConfidence, seen + 1)]
        /\ seen' = 0
        /\ Goes("runner", "move")
        /\ history' = [history EXCEPT
                          !.streak[c] = AtMost(AcceptableConfidence, @ + 1),
                          !.raced[c] = @ \/ InCall(c)]
        /\ UNCHANGED <<goal, output, position, detector, on, sure, run>>

ClearConfidence ==
    LET c == on["runner"]
    IN  /\ at["runner"] = "clear"
        /\ confidence' = [confidence EXCEPT ![c] = 0]
        /\ Goes("runner", "move")
        /\ history' = [history EXCEPT !.streak[c] = 0, !.raced[c] = FALSE]
        /\ UNCHANGED <<goal, output, position, detector, on, sure, seen, run>>

\* output is assigned and the motor set.  out is local to the task, so it may be
\* chosen as late as here.
MoveOutput ==
    /\ at["runner"] = "move"
    /\ \E out \in Output :
          output' = [output EXCEPT ![on["runner"]] = Deadbanded(out)]
    /\ Goes("runner", "ask")
    /\ UNCHANGED <<goal, confidence, position, detector, on, sure, seen, run, history>>

\* Faulty variant: now is not advanced.
DelayOnly ==
    /\ at["runner"] = "delay"
    /\ Goes("runner", "generate")
    /\ UNCHANGED <<fbc, position, detector, on, sure, seen, run, history>>

\* taskDelayUntil.
Delay ==
    /\ at["runner"] = "delay"
    /\ run' = [run EXCEPT !.elapsed = IF run.timeout = 0 THEN 0 ELSE @ + 1]
    /\ Goes("runner", "generate")
    /\ UNCHANGED <<fbc, position, detector, on, sure, seen, history>>

Iterate ==
    \/ Generate \/ LoadConfidence \/ StoreConfidence \/ ClearConfidence
    \/ MoveOutput \/ Delay
    \/ AskConfidence("runner") \/ DoNotCount("runner")
    \/ CountStill("runner") \/ NoteStill("runner")

-----------------------------------------------------------------------------
(* The other task.                                                         *)

Begins(call, c, place) ==
    /\ call \in Calls
    /\ at["caller"] = "idle"
    /\ on' = [on EXCEPT !["caller"] = c]
    /\ Goes("caller", place)
    /\ UNCHANGED <<output, position, detector, sure, seen, run>>

\* fbcSetGoal: nothing is done if the goal is the same.
SetGoal(c, new_goal) ==
    /\ Begins("fbcSetGoal", c, "forget")
    /\ goal[c] # new_goal
    /\ goal' = [goal EXCEPT ![c] = new_goal]
    /\ history' = [history EXCEPT !.streak[c] = 0, !.raced[c] = @ \/ InIteration(c)]
    /\ UNCHANGED confidence

\* Faulty variant: the confidence in the last goal is kept.
ForgetNothing ==
    /\ at["caller"] = "forget"
    /\ Goes("caller", "idle")
    /\ UNCHANGED <<fbc, position, detector, on, sure, seen, run, history>>

ForgetConfidence ==
    LET c == on["caller"]
    IN  /\ at["caller"] = "forget"
        /\ confidence' = [confidence EXCEPT ![c] = 0]
        /\ Goes("caller", "idle")
        /\ history' = Forgotten(c, InIteration(c))
        /\ UNCHANGED <<goal, output, position, detector, on, sure, seen, run>>

\* fbcReset forgets before it changes the goal.
Reset(c) ==
    /\ Begins("fbcReset", c, "resense")
    /\ confidence' = [confidence EXCEPT ![c] = 0]
    /\ history' = Forgotten(c, InIteration(c))
    /\ UNCHANGED goal

\* resetSense is optional.
ResetSense ==
    /\ at["caller"] = "resense"
    /\ \E to \in {0, position[on["caller"]]} :
          position' = [position EXCEPT ![on["caller"]] = to]
    /\ Goes("caller", "regoal")
    /\ UNCHANGED <<fbc, detector, on, sure, seen, run, history>>

ResetGoal ==
    LET c == on["caller"]
    IN  /\ at["caller"] = "regoal"
        /\ goal' = [goal EXCEPT ![c] = 0]
        /\ Goes("caller", "idle")
        /\ history' = [history EXCEPT !.streak[c] = 0,
                                      !.raced[c] = @ \/ InIteration(c)]
        /\ UNCHANGED <<output, confidence, position, detector, on, sure, seen, run>>

Ask(c) ==
    /\ Begins("fbcIsConfident", c, "ask")
    /\ UNCHANGED <<goal, confidence, history>>

Call ==
    \/ \E c \in Controller :
          \/ \E new_goal \in Position : SetGoal(c, new_goal)
          \/ Reset(c)
          \/ Ask(c)
    \/ ForgetConfidence \/ ResetSense \/ ResetGoal
    \/ AskConfidence("caller") \/ DoNotCount("caller")
    \/ CountStill("caller") \/ NoteStill("caller")

-----------------------------------------------------------------------------

\* The robot moves.
Drift(c, to) ==
    /\ Distance(position[c], to) = 1
    /\ position' = [position EXCEPT ![c] = to]
    /\ UNCHANGED <<fbc, detector, tasks, history>>

Next ==
    \/ \E c \in Controller, timeout \in 0 .. MaxTimeout : RunCompletion(c, timeout)
    \/ RunAll
    \/ Iterate
    \/ Call
    \/ \E c \in Controller, to \in Position : Drift(c, to)

Spec == Init /\ [][Next]_vars

\* The task that runs controllers gets the processor.
FairSpec == Spec /\ WF_vars(Iterate)

-----------------------------------------------------------------------------
\* Where the tasks can be.
Common == {"idle", "ask", "sense", "note"}
OfRunner == {"generate", "load", "store", "clear", "move", "delay"}
OfCaller == {"forget", "resense", "regoal"}

TypeOK ==
    /\ goal \in [Controller -> Position]
    /\ output \in [Controller -> {Deadbanded(out) : out \in Output}]
    /\ confidence \in [Controller -> 0 .. AcceptableConfidence]
    /\ position \in [Controller -> Position]
    /\ prev \in Position /\ count \in 0 .. AcceptableConfidence + 2
    /\ at \in [Task -> Common \cup OfRunner \cup OfCaller]
    /\ at["runner"] \notin OfCaller /\ at["caller"] \notin OfRunner
    /\ on \in [Task -> Controller]
    /\ sure \in [Task -> BOOLEAN]
    /\ seen \in 0 .. AcceptableConfidence
    /\ run \in [mode : {"none", "completion", "loop"}, timeout : 0 .. MaxTimeout,
                elapsed : 0 .. MaxTimeout + 1, last : {FBC_STALL, 0, 1},
                result : {"none", "true", "false"}]

\* A controller is confident of the goal it has only after as many iterations
\* in a row on target: goals and resets between them take away what was earned
\* for another, unless they came in the middle of an iteration.
ConfidenceEarned ==
    \A c \in Controller :
        confidence[c] <= history.streak[c] \/ history.raced[c] \/ InCall(c)

\* fbc.h:150 says of fbcRunCompletion "@returns true if the movement timed out,
\* false otherwise".
ResultTellsTimeout ==
    run.result # "none" =>
        (run.result = "true" <=> run.timeout # 0 /\ run.elapsed > run.timeout)

\* The code returns whether time is left: true only after confidence or a stall,
\* false only at the first iteration past the timeout.
ResultTellsTime ==
    /\ run.result = "true" => run.last # 0
    /\ run.result = "false" => run.elapsed = run.timeout + 1

\* A stall is reported to the task that runs a controller only if that did not
\* move in as many iterations, all driven, unless the detection was used for
\* something else meanwhile.
StallIsReal ==
    LET c == on["runner"]
    IN  at["runner"] = "note" /\ count > AcceptableConfidence
            => history.still[c] >= AcceptableConfidence \/ history.disturbed[c]

\* A controller that is driven and does not move is reported two iterations
\* later than that at the latest, if it has the detection to itself.
LoneStallIsNoticed ==
    \A c \in Controller :
        history.still[c] <= AcceptableConfidence + 2 \/ history.disturbed[c]

Completing(c) ==
    run.mode = "completion" /\ at["runner"] # "idle" /\ on["runner"] = c

\* fbcRunCompletion with a timeout returns, whatever the robot and the other
\* task do.
CompletionReturns ==
    \A c \in Controller : []<>~(Completing(c) /\ run.timeout # 0)

\* With or without one it returns if the controller stays on target and nobody
\* interferes.
ReturnsOnTarget ==
    \A c \in Controller :
        []<>~(/\ Completing(c)
              /\ Distance(goal[c], position[c]) < AcceptableTolerance
              /\ ~InCall(c))
=============================================================================

---------------------------- MODULE MotorManager ----------------------------
(***************************************************************************)
(* One motor under the motor manager (mtrmgr.c): a task of high priority   *)
(* that moves the output towards the command, a little every period, and   *)
(* the tasks that call blrsMotorSet.  The other motors are handled alike   *)
(* and share no state with it.                                             *)
(*                                                                         *)
(* There is one processor.  The manager preempts every caller whenever its *)
(* period begins, and goes on at once when the mutex it waits for is given:*)
(* between its reads and its next wait nobody else runs, so each round is  *)
(* one action.  A caller can be preempted between any two statements.      *)
(*                                                                         *)
(* Speeds are units of which 127 make MaxSpeed; a slew rate is the most    *)
(* units per period of SLEW_DELTA_T, and elapsed time is in periods.       *)
(***************************************************************************)
EXTENDS Integers

CONSTANTS
    Task,           \* the tasks that call blrsMotorSet
    MaxSpeed,       \* 127
    Slew,           \* slewrate of the motor once it is configured
    Sign,           \* inverted: 1 or -1
    Recalculations, \* what it may be configured with: functions on speeds
    MaxElapsed,     \* bound: periods that are told apart
    MaxCalls,       \* bound: calls of blrsMotorSet
    MayImmediate,   \* whether calls may be immediate
    MaxForeign      \* bound: motorSet by tasks that bypass the manager

Speed == -MaxSpeed .. MaxSpeed

ASSUME MotorAssumption ==
    /\ "manager" \notin Task /\ "nobody" \notin Task
    /\ MaxSpeed \in Nat \ {0}
    /\ Slew \in Nat \ {0}
    /\ Sign \in {1, -1}
    /\ Recalculations \subseteq [Speed -> Speed]
    /\ MaxElapsed \in Nat \ {0}
    /\ MaxCalls \in Nat
    /\ MayImmediate \in BOOLEAN
    /\ MaxForeign \in Nat

\* _defaultRecalculate.
defaultRecalculate == [speed \in Speed |-> speed]

VARIABLES
    output,     \* what motorSet was last given: motorGet returns it
    cmd,        \* motor.cmd
    prev,       \* motor._prev
    slewrate,   \* motor.slewrate: 0 until blrsMotorInit
    inverted,   \* motor.inverted: 0 until blrsMotorInit
    recalculate,\* motor.recalculate
    elapsed,    \* periods from motor._lastUpdate to the next round
    mutex,      \* who holds it
    manager,    \* where the manager task is
    pending,    \* its local variable out while it waits for the mutex
    at,         \* where each caller is in blrsMotorSet
    commanded,  \* its local variable commanded
    immediate,  \* its argument
    calls,
    foreign,
    bypassed    \* whether anything but the manager has set the motor: for the
                \* properties only

vars == <<output, cmd, prev, slewrate, inverted, recalculate, elapsed, mutex,
          manager, pending, at, commanded, immediate, calls, foreign, bypassed>>

managerVars == <<manager, pending, elapsed>>
callVars == <<at, commanded, immediate, calls, foreign, bypassed>>
configVars == <<slewrate, inverted, recalculate>>

Init ==
    /\ output = 0 /\ cmd = 0 /\ prev = 0
    /\ slewrate = 0 /\ inverted = 0
    /\ recalculate = defaultRecalculate
    /\ elapsed = 1
    /\ mutex = "nobody"
    /\ manager = "asleep" /\ pending = 0
    /\ at = [t \in Task |-> "outside"]
    /\ commanded = [t \in Task |-> 0]
    /\ immediate = [t \in Task |-> FALSE]
    /\ calls = 0 /\ foreign = 0
    /\ bypassed = FALSE

-----------------------------------------------------------------------------
(* The manager task.                                                       *)

Later(periods) == IF periods < MaxElapsed THEN periods + 1 ELSE periods

\* Faulty variant: the command is not a limit.
SlewedTooFar(current, target) ==
    IF target > current THEN current + slewrate * elapsed
                        ELSE current - slewrate * elapsed

\* The largest change allowed since the last update, but not beyond target.
Slewed(current, target) ==
    IF target > current
    THEN LET out == current + slewrate * elapsed
         IN  IF out > target THEN target ELSE out
    ELSE LET out == current - slewrate * elapsed
         IN  IF out < target THEN target ELSE out

\* Faulty variant: the time of the update is not kept.
RoundNothingKeepsTime ==
    /\ manager = "asleep"
    /\ output = cmd
    /\ elapsed' = Later(elapsed)
    /\ UNCHANGED <<output, cmd, prev, mutex, manager, pending, configVars,
                   callVars>>

\* The motor is where it should be.
RoundNothing ==
    /\ manager = "asleep"
    /\ output = cmd
    /\ elapsed' = 1
    /\ UNCHANGED <<output, cmd, prev, mutex, manager, pending, configVars,
                   callVars>>

\* A slew rate of zero prevents output.
RoundPrevented ==
    /\ manager = "asleep"
    /\ output # cmd /\ slewrate = 0
    /\ elapsed' = Later(elapsed)
    /\ UNCHANGED <<output, cmd, prev, mutex, manager, pending, configVars,
                   callVars>>

\* What the round writes to the motor: zero if nothing is left to slew.
RoundOutput == IF cmd = prev THEN 0 ELSE recalculate[Slewed(prev, cmd)]

\* Faulty variant: the previous output is not remembered.
AdvanceForgetful ==
    /\ manager = "asleep"
    /\ output # cmd /\ slewrate # 0
    /\ prev' = prev

\* Faulty variant: the motor is not asked what it was set to.
AdvanceBlindly ==
    /\ manager = "asleep"
    /\ prev # cmd /\ slewrate # 0
    /\ prev' = Slewed(prev, cmd)

\* The previous output advances before the mutex is tried.
Advance ==
    /\ manager = "asleep"
    /\ output # cmd /\ slewrate # 0
    /\ prev' = IF cmd = prev THEN prev ELSE Slewed(prev, cmd)

RoundSet ==
    /\ Advance
    /\ mutex = "nobody"
    /\ output' = RoundOutput
    /\ elapsed' = 1
    /\ UNCHANGED <<cmd, mutex, manager, pending, configVars, callVars>>

RoundWait ==
    /\ Advance
    /\ mutex # "nobody"
    /\ manager' = "waiting"
    /\ pending' = RoundOutput
    /\ UNCHANGED <<output, cmd, mutex, elapsed, configVars, callVars>>

\* The mutex was given: what was computed before is written.
WaitEnds ==
    /\ manager = "waiting" /\ mutex = "nobody"
    /\ output' = pending
    /\ elapsed' = 1
    /\ manager' = "asleep"
    /\ UNCHANGED <<cmd, prev, mutex, pending, configVars, callVars>>

\* mutexTake returns false after 5 ms: the update is skipped.
WaitTimesOut ==
    /\ manager = "waiting" /\ mutex # "nobody"
    /\ elapsed' = Later(elapsed)
    /\ manager' = "asleep"
    /\ UNCHANGED <<output, cmd, prev, mutex, pending, configVars, callVars>>

Manager ==
    RoundNothing \/ RoundPrevented \/ RoundSet \/ RoundWait
        \/ WaitEnds \/ WaitTimesOut

-----------------------------------------------------------------------------
(* The other tasks: they run when the manager sleeps or waits for a mutex  *)
(* that is taken.                                                          *)

OthersRun == manager = "waiting" => mutex # "nobody"

Clamped(speed) ==
    IF speed > MaxSpeed THEN MaxSpeed
    ELSE IF speed < -MaxSpeed THEN -MaxSpeed ELSE speed

\* blrsMotorInit, once, during start-up: no other call is under way.
BlrsMotorInit ==
    /\ OthersRun
    /\ slewrate = 0
    /\ \A t \in Task : at[t] = "outside"
    /\ slewrate' = Slew /\ inverted' = Sign
    /\ recalculate' \in Recalculations \cup {defaultRecalculate}
    /\ prev' = 0
    /\ UNCHANGED <<output, cmd, mutex, managerVars, callVars>>

\* motorManagerStop.
MotorManagerStop ==
    /\ OthersRun
    /\ manager' = "deleted"
    /\ UNCHANGED <<output, cmd, prev, mutex, pending, elapsed, configVars,
                   callVars>>

\* motorSet by a task that knows nothing of the manager (rpc.c, opcontrol.c).
ForeignSet(speed) ==
    /\ OthersRun
    /\ foreign < MaxForeign
    /\ foreign' = foreign + 1
    /\ output' = speed
    /\ bypassed' = TRUE
    /\ UNCHANGED <<cmd, prev, mutex, managerVars, configVars, at, commanded,
                   immediate, calls>>

\* blrsMotorSet begins.
Call(t, speed, now) ==
    /\ OthersRun
    /\ at[t] = "outside" /\ calls < MaxCalls
    /\ calls' = calls + 1
    /\ commanded' = [commanded EXCEPT ![t] = Clamped(speed)]
    /\ immediate' = [immediate EXCEPT ![t] = now]
    /\ at' = [at EXCEPT ![t] = IF now THEN "taking" ELSE "commanding"]
    /\ bypassed' = (bypassed \/ now)
    /\ UNCHANGED <<output, cmd, prev, mutex, managerVars, configVars, foreign>>

Goes(t, from, to) ==
    /\ OthersRun
    /\ at[t] = from
    /\ at' = [at EXCEPT ![t] = to]
    /\ UNCHANGED <<commanded, immediate, calls, foreign, bypassed, managerVars,
                   configVars>>

Take(t) ==
    /\ Goes(t, "taking", "setting")
    /\ mutex = "nobody" /\ mutex' = t
    /\ UNCHANGED <<output, cmd, prev>>

\* mutexTake returns false after 100 ms, and so does blrsMotorSet.
TakeTimesOut(t) ==
    /\ Goes(t, "taking", "outside")
    /\ mutex # "nobody"
    /\ UNCHANGED <<output, cmd, prev, mutex>>

SetMotor(t) ==
    /\ Goes(t, "setting", "noting")
    /\ output' = commanded[t] * inverted
    /\ UNCHANGED <<cmd, prev, mutex>>

NotePrevious(t) ==
    /\ Goes(t, "noting", "giving")
    /\ prev' = commanded[t] * inverted
    /\ UNCHANGED <<output, cmd, mutex>>

Give(t) ==
    /\ Goes(t, "giving", "commanding")
    /\ mutex' = "nobody"
    /\ UNCHANGED <<output, cmd, prev>>

\* The command is written without the mutex, and blrsMotorSet returns true.
Command(t) ==
    /\ Goes(t, "commanding", "outside")
    /\ cmd' = commanded[t] * inverted
    /\ UNCHANGED <<output, prev, mutex>>

Continue(t) ==
    Take(t) \/ TakeTimesOut(t) \/ SetMotor(t) \/ NotePrevious(t) \/ Give(t)
        \/ Command(t)

Next ==
    \/ Manager
    \/ BlrsMotorInit
    \/ MotorManagerStop
    \/ \E speed \in Speed : ForeignSet(speed)
    \/ \E t \in Task :
          \/ \E speed \in Speed \cup {-MaxSpeed - 1, MaxSpeed + 1},
                now \in BOOLEAN : (now => MayImmediate) /\ Call(t, speed, now)
          \/ Continue(t)

Spec == Init /\ [][Next]_vars

\* The manager's period comes round for ever, and a call that has begun goes
\* on.
FairSpec ==
    /\ Spec
    /\ WF_vars(Manager)
    /\ \A t \in Task : WF_vars(Continue(t))

-----------------------------------------------------------------------------
TypeOK ==
    /\ output \in Speed /\ cmd \in Speed /\ prev \in Speed
    /\ slewrate \in {0, Slew} /\ inverted \in {0, Sign}
    /\ recalculate \in [Speed -> Speed]
    /\ elapsed \in 1 .. MaxElapsed
    /\ mutex \in Task \cup {"nobody"}
    /\ manager \in {"asleep", "waiting", "deleted"}
    /\ pending \in Speed
    /\ at \in [Task -> {"outside", "taking", "setting", "noting", "giving",
                       "commanding"}]
    /\ commanded \in [Task -> Speed]
    /\ immediate \in [Task -> BOOLEAN]
    /\ calls \in 0 .. MaxCalls
    /\ foreign \in 0 .. MaxForeign
    /\ bypassed \in BOOLEAN

Distance(a, b) == IF a > b THEN a - b ELSE b - a

\* All goes through the manager, and the output is not scaled.
Plain == ~bypassed /\ recalculate = defaultRecalculate

\* Where all goes through the manager, the output never changes by more than
\* the slew rate in a period, whatever calls come in between.
SlewLimited == [][Plain' => Distance(output, output') <= Slew]_vars

\* Where all goes through the manager, every change of the output brings it
\* nearer to the command of the moment.
TowardsCommand ==
    [][Plain' /\ output' # output
          => Distance(output', cmd) < Distance(output, cmd)]_vars

\* When the calls end, the motor gets to the command and stays there, scaled
\* by the recalculation function (mtrmgr.h:36: "used to scale the motor
\* output for trueSpeed or other scalings").
Settles ==
    <>[](output = recalculate[cmd] \/ manager = "deleted" \/ foreign > 0)

\* Where all goes through the manager, it does.
SettlesIfPlain == <>[](output = cmd \/ manager = "deleted" \/ ~Plain)

\* Whatever immediate sets and other tasks do, and however they cross with
\* the manager, the motor ends at the command or stands still: it is never
\* left running at another speed.
ComesToRest ==
    <>[](output \in {cmd, 0} \/ manager = "deleted" \/ slewrate = 0)

=============================================================================

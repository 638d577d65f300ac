------------------------ MODULE MotorManager_proofs ------------------------
(***************************************************************************)
(* Proofs about the motor manager, for every range of speeds, slew rate,   *)
(* set of recalculation functions and set of tasks: type correctness, and  *)
(* that, until something bypasses the manager, the output follows the      *)
(* command within the slew rate.                                           *)
(***************************************************************************)
EXTENDS MotorManager, TLAPS

\* The sizes as facts.
LEMMA Sizes ==
    /\ MaxSpeed \in Nat \ {0}
    /\ Slew \in Nat \ {0}
    /\ Sign \in {1, -1}
    /\ Recalculations \subseteq [Speed -> Speed]
    /\ MaxElapsed \in Nat \ {0}
    /\ MaxCalls \in Nat /\ MaxForeign \in Nat
    /\ "nobody" \notin Task
BY MotorAssumption

\* Slewing between two speeds gives a speed.
LEMMA SlewedIsSpeed ==
    ASSUME NEW current \in Speed, NEW target \in Speed,
           slewrate \in {0, Slew}, elapsed \in 1 .. MaxElapsed
    PROVE  Slewed(current, target) \in Speed
<1>1. PICK change \in Nat : change = slewrate * elapsed
  BY Sizes
<1>. QED
  BY <1>1, Sizes DEF Slewed, Speed

\* What a caller or the manager writes is a speed.
LEMMA SignedIsSpeed ==
    ASSUME NEW speed \in Speed, inverted \in {0, Sign}
    PROVE  speed * inverted \in Speed
<1>1. CASE inverted = 0
  BY <1>1, Sizes DEF Speed
<1>2. CASE inverted = 1
  BY <1>2, Sizes DEF Speed
<1>3. CASE inverted = -1
  BY <1>3, Sizes DEF Speed
<1>. QED
  BY <1>1, <1>2, <1>3, Sizes

\* blrsMotorSet clamps to a speed.
LEMMA ClampedIsSpeed == \A speed \in Int : Clamped(speed) \in Speed
BY Sizes DEF Clamped, Speed

\* What a round writes is a speed.
LEMMA RoundOutputIsSpeed ==
    ASSUME TypeOK
    PROVE  RoundOutput \in Speed
<1>1. Slewed(prev, cmd) \in Speed
  BY SlewedIsSpeed DEF TypeOK
<1>2. 0 \in Speed
  BY Sizes DEF Speed
<1>. QED
  BY <1>1, <1>2 DEF RoundOutput, TypeOK

\* The motor starts well typed.
LEMMA TypeInit == Init => TypeOK
<1>1. 0 \in Speed /\ 1 \in 1 .. MaxElapsed
  BY Sizes DEF Speed
<1>2. defaultRecalculate \in [Speed -> Speed]
  BY DEF defaultRecalculate
<1>. SUFFICES ASSUME Init
              PROVE  TypeOK
  OBVIOUS
<1>3. output \in Speed /\ cmd \in Speed /\ prev \in Speed /\ pending \in Speed
        /\ commanded \in [Task -> Speed] /\ recalculate \in [Speed -> Speed]
        /\ elapsed \in 1 .. MaxElapsed
  BY <1>1, <1>2 DEF Init
<1>4. calls \in 0 .. MaxCalls /\ foreign \in 0 .. MaxForeign
  BY Sizes DEF Init
<1>. QED
  BY <1>3, <1>4 DEF Init, TypeOK

\* The periods since the last update stay within their bound.
LEMMA LaterIsPeriod ==
    elapsed \in 1 .. MaxElapsed =>
        Later(elapsed) \in 1 .. MaxElapsed /\ 1 \in 1 .. MaxElapsed
BY Sizes DEF Later

-----------------------------------------------------------------------------
(* Type correctness.                                                       *)

\* The manager task preserves the types.
LEMMA TypeManager == TypeOK /\ Manager => TypeOK'
<1>. SUFFICES ASSUME TypeOK, Manager
              PROVE  TypeOK'
  OBVIOUS
<1>1. elapsed \in 1 .. MaxElapsed /\ Later(elapsed) \in 1 .. MaxElapsed
        /\ 1 \in 1 .. MaxElapsed
  BY LaterIsPeriod DEF TypeOK
<1>2. CASE RoundNothing
  BY <1>1, <1>2 DEF RoundNothing, TypeOK, configVars, callVars
<1>3. CASE RoundPrevented
  BY <1>1, <1>3 DEF RoundPrevented, TypeOK, configVars, callVars
<1>4. ASSUME Advance
      PROVE  prev' \in Speed /\ RoundOutput \in Speed
  <2>1. Slewed(prev, cmd) \in Speed
    BY SlewedIsSpeed DEF TypeOK
  <2>. QED
    BY <1>4, <2>1, RoundOutputIsSpeed DEF Advance, TypeOK
<1>5. CASE RoundSet
  BY <1>1, <1>4, <1>5 DEF RoundSet, TypeOK, configVars, callVars
<1>6. CASE RoundWait
  BY <1>1, <1>4, <1>6 DEF RoundWait, TypeOK, configVars, callVars
<1>7. CASE WaitEnds
  BY <1>1, <1>7 DEF WaitEnds, TypeOK, configVars, callVars
<1>8. CASE WaitTimesOut
  BY <1>1, <1>8 DEF WaitTimesOut, TypeOK, configVars, callVars
<1>. QED
  BY <1>2, <1>3, <1>5, <1>6, <1>7, <1>8 DEF Manager

\* So does the beginning of blrsMotorSet,
LEMMA TypeCall ==
    ASSUME TypeOK, NEW t \in Task, NEW speed \in Int, NEW now \in BOOLEAN,
           Call(t, speed, now)
    PROVE  TypeOK'
<1>1. Clamped(speed) \in Speed
  BY ClampedIsSpeed
<1>2. calls + 1 \in 0 .. MaxCalls
  BY Sizes DEF TypeOK, Call
<1>. QED
  BY <1>1, <1>2 DEF Call, TypeOK, managerVars, configVars

\* and so does the rest of it.
LEMMA TypeContinue ==
    ASSUME TypeOK, NEW t \in Task, Continue(t)
    PROVE  TypeOK'
<1>1. commanded[t] * inverted \in Speed
  BY SignedIsSpeed DEF TypeOK
<1>2. CASE Take(t)
  BY <1>2 DEF Take, Goes, TypeOK, managerVars, configVars
<1>3. CASE TakeTimesOut(t)
  BY <1>3 DEF TakeTimesOut, Goes, TypeOK, managerVars, configVars
<1>4. CASE SetMotor(t)
  BY <1>1, <1>4 DEF SetMotor, Goes, TypeOK, managerVars, configVars
<1>5. CASE NotePrevious(t)
  BY <1>1, <1>5 DEF NotePrevious, Goes, TypeOK, managerVars, configVars
<1>6. CASE Give(t)
  BY <1>6 DEF Give, Goes, TypeOK, managerVars, configVars
<1>7. CASE Command(t)
  BY <1>1, <1>7 DEF Command, Goes, TypeOK, managerVars, configVars
<1>. QED
  BY <1>2, <1>3, <1>4, <1>5, <1>6, <1>7 DEF Continue

\* Every request is an integer.
LEMMA RequestsAreInt == Speed \cup {-MaxSpeed - 1, MaxSpeed + 1} \subseteq Int
BY Sizes DEF Speed

\* Every step preserves the types.
LEMMA TypeStep == TypeOK /\ [Next]_vars => TypeOK'
<1>. SUFFICES ASSUME TypeOK, [Next]_vars
              PROVE  TypeOK'
  OBVIOUS
<1>1. CASE Manager
  BY <1>1, TypeManager
<1>2. CASE BlrsMotorInit
  <2>1. 0 \in Speed
    BY Sizes DEF Speed
  <2>. QED
    BY <1>2, <2>1, Sizes
       DEF BlrsMotorInit, TypeOK, managerVars, callVars, Speed,
           defaultRecalculate
<1>3. CASE MotorManagerStop
  BY <1>3 DEF MotorManagerStop, TypeOK, configVars, callVars
<1>4. ASSUME NEW speed \in Speed, ForeignSet(speed)
      PROVE  TypeOK'
  <2>1. foreign + 1 \in 0 .. MaxForeign
    BY <1>4, Sizes DEF ForeignSet, TypeOK
  <2>. QED
    BY <1>4, <2>1 DEF ForeignSet, TypeOK, managerVars, configVars, callVars
<1>5. ASSUME NEW t \in Task, Continue(t)
      PROVE  TypeOK'
  BY <1>5, TypeContinue
<1>6. ASSUME NEW t \in Task,
             NEW speed \in Speed \cup {-MaxSpeed - 1, MaxSpeed + 1},
             NEW now \in BOOLEAN, Call(t, speed, now)
      PROVE  TypeOK'
  BY <1>6, RequestsAreInt, TypeCall
<1>7. CASE UNCHANGED vars
  BY <1>7 DEF vars, TypeOK
<1>. QED
  BY <1>1, <1>2, <1>3, <1>4, <1>5, <1>6, <1>7 DEF Next

\* The output, the command and what the manager remembers are always within
\* the range of the motor, whatever recalculation, slew rate and callers do.
THEOREM TypeCorrect == Spec => []TypeOK
BY TypeInit, TypeStep, PTL DEF Spec

-----------------------------------------------------------------------------
(* Where all goes through the manager.                                     *)

\* The manager remembers the output, and was never late.
Follows ==
    /\ prev = output
    /\ elapsed = 1
    /\ mutex = "nobody"
    /\ manager # "waiting"
    /\ \A t \in Task : at[t] \in {"outside", "commanding"}

\* Nothing is commanded before the motor is configured.
Unconfigured ==
    /\ inverted = 0
    /\ cmd = 0 /\ prev = 0
    /\ recalculate = defaultRecalculate

Inv ==
    /\ TypeOK
    /\ slewrate = 0 => Unconfigured
    /\ Plain => Follows

\* A step of slewing gets nearer, by no more than the slew rate.
LEMMA SlewedIsNearer ==
    ASSUME NEW current \in Speed, NEW target \in Speed, current # target,
           slewrate = Slew, elapsed = 1
    PROVE  /\ Slewed(current, target) \in Speed
           /\ Distance(current, Slewed(current, target)) <= Slew
           /\ Distance(Slewed(current, target), target)
                 < Distance(current, target)
<1>1. slewrate * elapsed = Slew
  BY Sizes
<1>2. CASE target > current
  BY <1>1, <1>2, Sizes DEF Slewed, Distance, Speed
<1>3. CASE ~(target > current)
  BY <1>1, <1>3, Sizes DEF Slewed, Distance, Speed
<1>. QED
  BY <1>2, <1>3

\* A speed is at distance zero from itself.
LEMMA StaysPut == ASSUME NEW speed \in Speed PROVE Distance(speed, speed) = 0
BY Sizes DEF Speed, Distance

\* What a step does to the output while all goes through the manager.
Obedient ==
    /\ Distance(output, output') <= Slew
    /\ output' # output => Distance(output', cmd) < Distance(output, cmd)

\* A step that does not touch the output obeys.
LEMMA StayingObeys == ASSUME Inv, output' = output PROVE Obedient
BY StaysPut, Sizes DEF Inv, TypeOK, Obedient

\* The manager keeps the invariant and obeys.
LEMMA InvManager ==
    ASSUME Inv, Manager
    PROVE  Inv' /\ (Plain' => Obedient)
<1>1. TypeOK'
  BY TypeManager DEF Inv
<1>2. output \in Speed /\ cmd \in Speed /\ prev \in Speed
  BY DEF Inv, TypeOK
<1>3. UNCHANGED <<cmd, mutex, configVars, callVars>>
  BY DEF Manager, RoundNothing, RoundPrevented, RoundSet, RoundWait, WaitEnds,
         WaitTimesOut
<1>4. slewrate' = 0 => Unconfigured'
  <2>1. CASE Advance
    BY <1>3, <2>1 DEF Advance, configVars
  <2>2. CASE UNCHANGED prev
    BY <1>3, <2>2 DEF Inv, Unconfigured, configVars
  <2>. QED
    BY <2>1, <2>2 DEF Manager, RoundNothing, RoundPrevented, RoundSet,
                      RoundWait, WaitEnds, WaitTimesOut
<1>5. SUFFICES ASSUME Plain'
               PROVE  Follows' /\ Obedient
  BY <1>1, <1>4 DEF Inv
<1>6. Plain /\ Follows
  BY <1>3, <1>5 DEF Inv, Plain, configVars, callVars
<1>7. CASE RoundNothing
  <2>1. Obedient
    BY <1>7, StayingObeys DEF RoundNothing
  <2>2. Follows'
    BY <1>6, <1>7 DEF RoundNothing, Follows, callVars
  <2>. QED
    BY <2>1, <2>2
<1>8. CASE RoundPrevented
  BY <1>2, <1>6, <1>8 DEF RoundPrevented, Inv, Unconfigured, Follows
<1>9. CASE RoundSet
  <2>1. slewrate = Slew /\ output # cmd /\ prev = output /\ elapsed = 1
    BY <1>6, <1>9 DEF RoundSet, Advance, Follows, Inv, TypeOK
  <2>2. /\ Slewed(output, cmd) \in Speed
        /\ Distance(output, Slewed(output, cmd)) <= Slew
        /\ Distance(Slewed(output, cmd), cmd) < Distance(output, cmd)
    BY <1>2, <2>1, SlewedIsNearer
  <2>3. recalculate[Slewed(output, cmd)] = Slewed(output, cmd)
    BY <1>6, <2>2 DEF Plain, defaultRecalculate
  <2>4. output' = Slewed(output, cmd) /\ prev' = Slewed(output, cmd)
    BY <1>9, <2>1, <2>3 DEF RoundSet, Advance, RoundOutput
  <2>5. Follows'
    BY <1>6, <1>9, <2>4 DEF RoundSet, Follows, callVars
  <2>. QED
    BY <2>2, <2>4, <2>5 DEF Obedient
<1>10. CASE RoundWait \/ WaitEnds \/ WaitTimesOut
  BY <1>6, <1>10 DEF RoundWait, WaitEnds, WaitTimesOut, Follows
<1>. QED
  BY <1>7, <1>8, <1>9, <1>10 DEF Manager

\* Configuring the motor keeps the invariant.
LEMMA InvBlrsMotorInit ==
    ASSUME Inv, BlrsMotorInit
    PROVE  Inv' /\ output' = output
<1>1. TypeOK'
  BY TypeStep DEF Inv, Next
<1>2. slewrate' # 0
  BY Sizes DEF BlrsMotorInit
<1>3. Plain' => Follows'
  BY DEF BlrsMotorInit, Inv, Unconfigured, Plain, Follows, managerVars, callVars
<1>. QED
  BY <1>1, <1>2, <1>3 DEF BlrsMotorInit, Inv

\* What a caller writes is zero before the motor is configured.
LEMMA UnconfiguredWritesZero ==
    ASSUME Inv, slewrate = 0, NEW t \in Task
    PROVE  commanded[t] * inverted = 0
BY Sizes DEF Inv, Unconfigured, TypeOK, Speed

\* So does a call, and it does not touch the output while all goes through
\* the manager.
LEMMA InvContinue ==
    ASSUME Inv, NEW t \in Task, Continue(t)
    PROVE  Inv' /\ (Plain' => output' = output)
<1>1. TypeOK'
  BY TypeContinue DEF Inv
<1>2. UNCHANGED <<configVars, managerVars, bypassed>>
  BY DEF Continue, Take, TakeTimesOut, SetMotor, NotePrevious, Give, Command,
         Goes
<1>3. slewrate' = 0 => Unconfigured'
  <2>. SUFFICES ASSUME slewrate = 0
                PROVE  Unconfigured'
    BY <1>2 DEF configVars
  <2>1. Unconfigured /\ commanded[t] * inverted = 0
    BY UnconfiguredWritesZero DEF Inv
  <2>. QED
    BY <1>2, <2>1 DEF Unconfigured, Continue, Take, TakeTimesOut, SetMotor,
                      NotePrevious, Give, Command, configVars
<1>4. SUFFICES ASSUME Plain'
               PROVE  Follows' /\ output' = output
  BY <1>1, <1>3 DEF Inv
<1>5. Follows
  BY <1>2, <1>4 DEF Inv, Plain, configVars
<1>6. Command(t)
  BY <1>5 DEF Continue, Take, TakeTimesOut, SetMotor, NotePrevious, Give,
              Goes, Follows
<1>7. Follows'
  BY <1>2, <1>5, <1>6 DEF Command, Goes, Follows, Inv, TypeOK, managerVars
<1>. QED
  BY <1>6, <1>7 DEF Command

\* The beginning of a call as well.
LEMMA InvCall ==
    ASSUME Inv, NEW t \in Task, NEW speed \in Int, NEW now \in BOOLEAN,
           Call(t, speed, now)
    PROVE  Inv' /\ output' = output
<1>1. TypeOK'
  BY TypeCall DEF Inv
<1>2. slewrate' = 0 => Unconfigured'
  BY DEF Call, Inv, Unconfigured, configVars
<1>3. ASSUME Plain'
      PROVE  Follows'
  <2>1. ~now /\ Follows
    BY <1>3 DEF Call, Inv, Plain, configVars
  <2>. QED
    BY <2>1 DEF Call, Follows, Inv, TypeOK, managerVars
<1>. QED
  BY <1>1, <1>2, <1>3 DEF Inv, Call

\* At first nothing moves.
LEMMA InvInit == Init => Inv
BY TypeInit DEF Init, Inv, Unconfigured, Follows

\* Every step keeps the invariant and obeys.
LEMMA InvStep ==
    ASSUME Inv, [Next]_vars
    PROVE  Inv' /\ (Plain' => Obedient)
<1>1. CASE Manager
  BY <1>1, InvManager
<1>2. CASE BlrsMotorInit
  BY <1>2, InvBlrsMotorInit, StayingObeys
<1>3. CASE MotorManagerStop
  <2>1. TypeOK'
    BY TypeStep DEF Inv
  <2>2. Inv' /\ output' = output
    BY <1>3, <2>1 DEF MotorManagerStop, Inv, Unconfigured, Plain, Follows,
                      configVars, callVars
  <2>. QED
    BY <2>2, StayingObeys
<1>4. ASSUME NEW speed \in Speed, ForeignSet(speed)
      PROVE  Inv' /\ ~Plain'
  <2>1. TypeOK'
    BY TypeStep DEF Inv
  <2>. QED
    BY <1>4, <2>1 DEF ForeignSet, Inv, Unconfigured, Plain, configVars
<1>5. ASSUME NEW t \in Task, Continue(t)
      PROVE  Inv' /\ (Plain' => Obedient)
  BY <1>5, InvContinue, StayingObeys
<1>6. ASSUME NEW t \in Task,
             NEW speed \in Speed \cup {-MaxSpeed - 1, MaxSpeed + 1},
             NEW now \in BOOLEAN, Call(t, speed, now)
      PROVE  Inv' /\ (Plain' => Obedient)
  BY <1>6, RequestsAreInt, InvCall, StayingObeys
<1>7. CASE UNCHANGED vars
  <2>1. TypeOK'
    BY TypeStep DEF Inv
  <2>2. Inv' /\ output' = output
    BY <1>7, <2>1 DEF vars, Inv, Unconfigured, Plain, Follows
  <2>. QED
    BY <2>2, StayingObeys
<1>. QED
  BY <1>1, <1>2, <1>3, <1>4, <1>5, <1>6, <1>7 DEF Next

\* Where all goes through the manager, the motor's speed never changes by
\* more than the slew rate in a period.
THEOREM SlewRespected == Spec => SlewLimited
<1>1. Inv /\ [Next]_vars =>
         Inv' /\ (Plain' => Distance(output, output') <= Slew)
  BY InvStep DEF Obedient
<1>. QED
  BY <1>1, InvInit, PTL DEF Spec, SlewLimited

\* Where all goes through the manager, the motor's speed changes only towards
\* the command, and never beyond it.
THEOREM NeverAstray == Spec => TowardsCommand
<1>1. Inv /\ [Next]_vars =>
         /\ Inv'
         /\ Plain' /\ output' # output
               => Distance(output', cmd) < Distance(output, cmd)
  BY InvStep DEF Obedient
<1>. QED
  BY <1>1, InvInit, PTL DEF Spec, TowardsCommand
=============================================================================

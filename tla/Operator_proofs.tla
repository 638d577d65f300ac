-------------------------- MODULE Operator_proofs ---------------------------
(***************************************************************************)
(* Operator control and the buttons: what replay does to the motors,       *)
(* wherever it is stopped, and what a task is told of a button, whichever  *)
(* of the 27 it polls.                                                     *)
(***************************************************************************)
EXTENDS Operator, TLAPS

-----------------------------------------------------------------------------
(* The motors.                                                             *)

\* What is set by one call is what the motor is set to.
LEMMA SetOnce ==
    ASSUME NEW calls, NEW c \in DOMAIN motors, NEW speed,
           <<c, speed>> \in calls,
           \A call \in calls : call[1] = c => call[2] = speed
    PROVE  Set(calls)[c] = speed
<1>. DEFINE chosen == CHOOSE call \in calls : call[1] = c
<1>1. chosen \in calls /\ chosen[1] = c
  OBVIOUS
<1>2. chosen[2] = speed
  BY <1>1
<1>. QED
  BY <1>2 DEF Set

\* What is not set stays.
LEMMA SetElsewhere ==
    ASSUME NEW calls, NEW c \in DOMAIN motors,
           \A call \in calls : call[1] # c
    PROVE  Set(calls)[c] = motors[c]
  BY DEF Set

\* The batches after the first turn with motors 1 and 9, lift with 2 and 10, or
\* do both.
Turn(a) == {<<1, a>>, <<9, a>>}
Lift(b) == {<<2, b>>, <<10, -b>>}
TurnAndLift(a, b) == {<<1, a>>, <<2, b>>, <<9, a>>, <<10, -b>>}

LEMMA Batches ==
    /\ Len(Recorded) = 24
    /\ Recorded[1] = {<<c, 0>> : c \in Channel}
    /\ \A k \in 2 .. 24 : \E a, b \in Int :
          Recorded[k] \in {Turn(a), Lift(b), TurnAndLift(a, b)}
<1>1. /\ Len(Recorded) = 24
      /\ Recorded[1] = {<<c, 0>> : c \in Channel}
  BY DEF Recorded
<1>2. /\ Recorded[2] = Turn(25)
      /\ Recorded[3] = TurnAndLift(-89, 127)
      /\ Recorded[4] = Turn(-90)
      /\ Recorded[5] = Turn(-127)
      /\ Recorded[6] = TurnAndLift(0, 0)
      /\ Recorded[7] = Turn(-21)
      /\ Recorded[8] = TurnAndLift(-67, -127)
      /\ Recorded[9] = Turn(-65)
  BY DEF Recorded, Turn, TurnAndLift
<1>3. /\ Recorded[10] = Turn(-84)
      /\ Recorded[11] = Turn(-88)
      /\ Recorded[12] = Turn(-89)
      /\ Recorded[13] = TurnAndLift(0, 0)
      /\ Recorded[14] = Lift(-25)
      /\ Recorded[15] = TurnAndLift(90, -127)
      /\ Recorded[16] = Turn(89)
      /\ Recorded[17] = Turn(90)
  BY DEF Recorded, Turn, Lift, TurnAndLift
<1>4. /\ Recorded[18] = Turn(127)
      /\ Recorded[19] = Lift(-90)
      /\ Recorded[20] = TurnAndLift(0, 0)
      /\ Recorded[21] = TurnAndLift(21, 30)
      /\ Recorded[22] = TurnAndLift(127, 90)
      /\ Recorded[23] = Lift(127)
      /\ Recorded[24] = TurnAndLift(0, 0)
  BY DEF Recorded, Lift, Turn, TurnAndLift
<1>5. ASSUME NEW k \in 2 .. 24
      PROVE  \E a, b \in Int :
                Recorded[k] \in {Turn(a), Lift(b), TurnAndLift(a, b)}
  <2>1. k \in 2 .. 9 \/ k \in 10 .. 17 \/ k \in 18 .. 24
    OBVIOUS
  <2>2. CASE k \in 2 .. 9
    BY <1>2, <2>2
  <2>3. CASE k \in 10 .. 17
    BY <1>3, <2>3
  <2>4. CASE k \in 18 .. 24
    BY <1>4, <2>4
  <2>. QED
    BY <2>1, <2>2, <2>3, <2>4
<1>. QED
  BY <1>1, <1>5

\* What each kind of batch does to the motors.
LEMMA TurnSets ==
    ASSUME DOMAIN motors = Channel, NEW a
    PROVE  /\ Set(Turn(a))[1] = a /\ Set(Turn(a))[9] = a
           /\ \A c \in Channel \ {1, 9} : Set(Turn(a))[c] = motors[c]
<1>1. /\ <<1, a>> \in Turn(a) /\ <<9, a>> \in Turn(a)
      /\ \A call \in Turn(a) : call[2] = a
  BY DEF Turn
<1>2. {1, 9} \subseteq DOMAIN motors
  BY DEF Channel
<1>3. Set(Turn(a))[1] = a
  BY <1>1, <1>2, SetOnce
<1>4. Set(Turn(a))[9] = a
  BY <1>1, <1>2, SetOnce
<1>5. ASSUME NEW c \in Channel \ {1, 9} PROVE Set(Turn(a))[c] = motors[c]
  <2>1. \A call \in Turn(a) : call[1] # c
    BY DEF Turn
  <2>. QED
    BY <2>1, SetElsewhere
<1>. QED
  BY <1>3, <1>4, <1>5

LEMMA LiftSets ==
    ASSUME DOMAIN motors = Channel, NEW b
    PROVE  /\ Set(Lift(b))[2] = b /\ Set(Lift(b))[10] = -b
           /\ \A c \in Channel \ {2, 10} : Set(Lift(b))[c] = motors[c]
<1>1. /\ <<2, b>> \in Lift(b) /\ <<10, -b>> \in Lift(b)
      /\ \A call \in Lift(b) : call[1] = 2 => call[2] = b
      /\ \A call \in Lift(b) : call[1] = 10 => call[2] = -b
  BY DEF Lift
<1>2. {2, 10} \subseteq DOMAIN motors
  BY DEF Channel
<1>3. Set(Lift(b))[2] = b
  BY <1>1, <1>2, SetOnce
<1>4. Set(Lift(b))[10] = -b
  BY <1>1, <1>2, SetOnce
<1>5. ASSUME NEW c \in Channel \ {2, 10} PROVE Set(Lift(b))[c] = motors[c]
  <2>1. \A call \in Lift(b) : call[1] # c
    BY DEF Lift
  <2>. QED
    BY <2>1, SetElsewhere
<1>. QED
  BY <1>3, <1>4, <1>5

LEMMA BothSet ==
    ASSUME DOMAIN motors = Channel, NEW a, NEW b
    PROVE  /\ Set(TurnAndLift(a, b))[1] = a /\ Set(TurnAndLift(a, b))[9] = a
           /\ Set(TurnAndLift(a, b))[2] = b /\ Set(TurnAndLift(a, b))[10] = -b
           /\ \A c \in 3 .. 8 : Set(TurnAndLift(a, b))[c] = motors[c]
<1>. DEFINE calls == TurnAndLift(a, b)
<1>1. /\ {<<1, a>>, <<9, a>>, <<2, b>>, <<10, -b>>} \subseteq calls
      /\ \A call \in calls : call[1] = 1 => call[2] = a
      /\ \A call \in calls : call[1] = 9 => call[2] = a
      /\ \A call \in calls : call[1] = 2 => call[2] = b
      /\ \A call \in calls : call[1] = 10 => call[2] = -b
  BY DEF TurnAndLift
<1>2. 1 .. 10 = DOMAIN motors
  BY DEF Channel
<1>. HIDE DEF calls
<1>3. Set(calls)[1] = a /\ Set(calls)[9] = a
  BY <1>1, <1>2, SetOnce
<1>4. Set(calls)[2] = b /\ Set(calls)[10] = -b
  BY <1>1, <1>2, SetOnce
<1>5. ASSUME NEW c \in 3 .. 8 PROVE Set(calls)[c] = motors[c]
  <2>1. \A call \in calls : call[1] # c
    BY DEF calls, TurnAndLift
  <2>. QED
    BY <1>2, <2>1, SetElsewhere
<1>. QED
  BY <1>3, <1>4, <1>5 DEF calls
\* Both sides alike, and nothing else.
Alike ==
    /\ motors[1] = motors[9] /\ motors[2] = -motors[10]
    /\ \A c \in 3 .. 8 : motors[c] = 0

MotorsInv ==
    /\ motors = [c \in Channel |-> motors[c]]
    /\ touched \in BOOLEAN
    /\ mode = "enabled" \/ pc = "none"
    /\ pc = "replay" => batch \in 1 .. 25
    /\ ~touched => Alike /\ (pc # "replay" => motors = Still)

LEMMA StillAlike ==
    /\ Still[1] = Still[9] /\ Still[2] = -Still[10]
    /\ \A c \in 3 .. 8 : Still[c] = 0
<1>1. /\ Still[1] = 0 /\ Still[9] = 0 /\ Still[2] = 0 /\ Still[10] = 0
      /\ \A c \in 3 .. 8 : Still[c] = 0
  BY DEF Still, Channel
<1>2. 0 = -0
  <2>1. \A z \in Int : z + (-z) = 0 /\ -z \in Int
    OBVIOUS
  <2>2. 0 + (-0) = 0 /\ -0 \in Int
    BY <2>1
  <2>3. \A z \in Int : 0 + z = 0 => z = 0
    OBVIOUS
  <2>. QED
    BY <2>2, <2>3
<1>. QED
  BY <1>1, <1>2

LEMMA SetKeepsChannels ==
    ASSUME motors = [c \in Channel |-> motors[c]], NEW calls
    PROVE  Set(calls) = [c \in Channel |-> Set(calls)[c]]
<1>1. DOMAIN motors = Channel
  OBVIOUS
<1>. QED
  BY <1>1 DEF Set

\* A batch leaves both sides alike if it finds them so; the first leaves all
\* motors at rest, however it finds them.
LEMMA BatchStep ==
    ASSUME MotorsInv, PlayBatch
    PROVE  MotorsInv'
<1>1. /\ motors' = Set(Recorded[batch])
      /\ touched' = (touched /\ batch > 1)
      /\ batch' = batch + 1 /\ pc = "replay" /\ pc' = pc /\ mode' = mode
      /\ batch \in 1 .. 24
      /\ DOMAIN motors = Channel
  BY Batches DEF PlayBatch, MotorsInv
<1>2. motors' = [c \in Channel |-> motors'[c]]
  BY <1>1, SetKeepsChannels DEF MotorsInv
<1>3. touched' \in BOOLEAN /\ batch' \in 1 .. 25
  BY <1>1
<1>4. ASSUME ~touched' PROVE Alike'
  <2>1. CASE batch = 1
    <3>1. ASSUME NEW c \in Channel PROVE motors'[c] = 0
      <4>1. <<c, 0>> \in Recorded[1]
        BY Batches
      <4>2. \A call \in Recorded[1] : call[2] = 0
        BY Batches
      <4>. QED
        BY <1>1, <2>1, <4>1, <4>2, SetOnce
    <3>. QED
      BY <3>1 DEF Alike, Channel
  <2>2. CASE batch # 1
    <3>. batch \in 2 .. 24
      BY <1>1, <2>2
    <3>1. PICK a \in Int, b \in Int :
              Recorded[batch] \in {Turn(a), Lift(b), TurnAndLift(a, b)}
      BY Batches
    <3>2. Alike
      BY <1>1, <1>4, <2>2 DEF MotorsInv
    <3>3. CASE Recorded[batch] = Turn(a)
      BY <1>1, <3>2, <3>3, TurnSets DEF Alike, Channel
    <3>4. CASE Recorded[batch] = Lift(b)
      BY <1>1, <3>2, <3>4, LiftSets DEF Alike, Channel
    <3>5. CASE Recorded[batch] = TurnAndLift(a, b)
      BY <1>1, <3>2, <3>5, BothSet DEF Alike
    <3>. QED
      BY <3>1, <3>3, <3>4, <3>5
  <2>. QED
    BY <2>1, <2>2
<1>. QED
  BY <1>1, <1>2, <1>3, <1>4 DEF MotorsInv

\* What operator control does outside of replay leaves the motors alone.
LEMMA MotorsKept ==
    ASSUME MotorsInv, UNCHANGED <<motors, touched>>,
           mode' = "enabled" \/ pc' = "none",
           pc' = "replay" => batch' \in 1 .. 25,
           pc = "replay" => pc' = "replay"
    PROVE  MotorsInv'
  BY DEF MotorsInv, Alike

LEMMA MotorsInit == Init => MotorsInv
  BY StillAlike DEF Init, MotorsInv, Alike, Still

LEMMA MotorsStep ==
    ASSUME MotorsInv, [Next]_vars
    PROVE  MotorsInv'
<1>1. ASSUME Initialize \/ Enable \/ Clear \/ ShowState \/ ShowAddress
                \/ ReadButtons \/ Loop
      PROVE  MotorsInv'
  <2>1. /\ UNCHANGED <<motors, touched>>
        /\ pc' = "replay" => batch' = 1 \/ UNCHANGED <<pc, batch>>
        /\ mode' = "enabled" \/ pc' = "none"
        /\ pc = "replay" => pc' = "replay"
    BY <1>1 DEF MotorsInv, Initialize, Enable, Clear, ShowState, ShowAddress,
                ReadButtons, Loop
  <2>. QED
    BY <2>1, MotorsKept DEF MotorsInv
<1>2. CASE PlayBatch
  BY <1>2, BatchStep
<1>3. CASE ReplayEnds
  <2>1. /\ motors' = Still /\ touched' = FALSE /\ pc' = "delay"
        /\ mode' = "enabled"
    BY <1>3 DEF ReplayEnds, MotorsInv
  <2>2. Still = [c \in Channel |-> Still[c]]
    BY DEF Still
  <2>3. Alike'
    BY <2>1, StillAlike DEF Alike
  <2>. QED
    BY <2>1, <2>2, <2>3 DEF MotorsInv
<1>4. CASE Disable
  <2>1. /\ mode' = "disabled" /\ pc' = "none"
        /\ touched' = (touched \/ pc = "replay")
    BY <1>4 DEF Disable
  <2>2. CASE pc = "replay"
    <3>1. motors' = [c \in Channel |-> motors'[c]]
      <4>1. ASSUME NEW calls, motors' = Set(calls)
            PROVE  motors' = [c \in Channel |-> motors'[c]]
        BY <4>1, SetKeepsChannels DEF MotorsInv
      <4>2. motors' = Still \/ motors' = motors
                \/ \E calls : motors' = Set(calls)
        BY <1>4 DEF Disable
      <4>. QED
        BY <4>1, <4>2 DEF MotorsInv, Still
    <3>. QED
      BY <2>1, <2>2, <3>1 DEF MotorsInv
  <2>3. CASE pc # "replay"
    <3>1. motors' = motors \/ motors' = Still
      BY <1>4, <2>3 DEF Disable
    <3>2. motors' = [c \in Channel |-> motors'[c]]
      BY <3>1 DEF MotorsInv, Still
    <3>3. ASSUME ~touched' PROVE motors' = Still
      BY <2>1, <3>1, <3>3, <2>3 DEF MotorsInv
    <3>4. motors' = Still => Alike'
      BY StillAlike DEF Alike
    <3>. QED
      BY <2>1, <2>3, <3>2, <3>3, <3>4 DEF MotorsInv
  <2>. QED
    BY <2>2, <2>3
<1>5. CASE ServerSetsMotor
  BY <1>5 DEF ServerSetsMotor, MotorsInv
<1>6. ASSUME ServerConnects \/ ServerIsTold \/ ServerResets
                \/ ServerForgets \/ Buttons \/ UNCHANGED vars
      PROVE  MotorsInv'
  <2>1. UNCHANGED <<mode, pc, batch, motors, touched>>
    BY <1>6 DEF ServerConnects, ServerIsTold, ServerResets, ServerForgets,
                Buttons, buttonIsNewPress, Press, Release, operator, vars
  <2>. QED
    BY <2>1 DEF MotorsInv, Alike
<1>. QED
  BY <1>1, <1>2, <1>3, <1>4, <1>5, <1>6
     DEF Next, OperatorControl, Server

\* Replay, stopped wherever it may be and begun again, drives both sides alike
\* and nothing else, and all motors are at rest when it is over (replay,
\* opcontrol.c:64).
THEOREM ReplayAsRecorded == Spec => []OnlyAsRecorded
<1>1. MotorsInv => OnlyAsRecorded
  BY DEF MotorsInv, OnlyAsRecorded, Alike
<1>. QED
  BY <1>1, MotorsInit, MotorsStep, PTL DEF Spec
-----------------------------------------------------------------------------
(* The buttons.                                                            *)

\* The switch of buttonGetState finds the key that the button is named for.
LEMMA ContactNamed == \A b \in 0 .. 23 : Contact(b) = Named(b)
<1>1. ASSUME NEW b \in 0 .. 3 PROVE Contact(b) = Named(b)
  <2>1. CASE b \in 0 .. 1
    BY <2>1 DEF Contact, Named, LCD_LEFT
  <2>2. CASE b \in 2 .. 3
    BY <2>2 DEF Contact, Named, LCD_LEFT
  <2>. QED
    BY <2>1, <2>2
<1>2. ASSUME NEW b \in 4 .. 7 PROVE Contact(b) = Named(b)
  BY DEF Contact, Named, LCD_LEFT
<1>3. ASSUME NEW b \in 8 .. 11 PROVE Contact(b) = Named(b)
  BY DEF Contact, Named, LCD_LEFT
<1>4. ASSUME NEW b \in 12 .. 15 PROVE Contact(b) = Named(b)
  BY DEF Contact, Named, LCD_LEFT
<1>5. ASSUME NEW b \in 16 .. 19 PROVE Contact(b) = Named(b)
  BY DEF Contact, Named, LCD_LEFT
<1>6. ASSUME NEW b \in 20 .. 23 PROVE Contact(b) = Named(b)
  BY DEF Contact, Named, LCD_LEFT
<1>. QED
  BY <1>1, <1>2, <1>3, <1>4, <1>5, <1>6

\* A button is never found pressed that is not, and is found if it is, unless
\* it belongs to a chord.
LEMMA Reading ==
    ASSUME NEW b \in 0 .. 26
    PROVE  /\ buttonGetState(b) => Named(b) \in down
           /\ Named(b) \in down /\ ~(b >= LCD_LEFT /\ Chord(down))
                => buttonGetState(b)
<1>1. CASE b < LCD_LEFT
  <2>1. b \in 0 .. 23
    BY <1>1 DEF LCD_LEFT
  <2>2. buttonGetState(b) <=> Contact(b) \in down
    BY <1>1 DEF buttonGetState
  <2>3. Contact(b) = Named(b)
    BY <2>1, ContactNamed
  <2>. QED
    BY <1>1, <2>2, <2>3
<1>2. CASE b >= LCD_LEFT
  <2>. DEFINE left == LcdKey(1) \in down
              cent == LcdKey(2) \in down
              right == LcdKey(4) \in down
  <2>1. /\ Chord(down) <=> (left /\ cent) \/ (left /\ right)
                                \/ (cent /\ right)
    <3>1. /\ LcdKeys = {LcdKey(1), LcdKey(2), LcdKey(4)}
          /\ LcdKey(1) # LcdKey(2) /\ LcdKey(1) # LcdKey(4)
          /\ LcdKey(2) # LcdKey(4)
      BY DEF LcdKeys, LcdKey, LCD_BTN_LEFT, LCD_BTN_CENTER, LCD_BTN_RIGHT
    <3>. QED
      BY <3>1 DEF Chord
  <2>2. lcdReadButtons = (IF left THEN 1 ELSE 0) + (IF cent THEN 2 ELSE 0)
                            + (IF right THEN 4 ELSE 0)
    BY DEF lcdReadButtons, LCD_BTN_LEFT, LCD_BTN_CENTER, LCD_BTN_RIGHT
  <2>3. buttonGetState(b) <=> lcdReadButtons = LcdMask(b)
    BY <1>2 DEF buttonGetState, LCD_LEFT
  <2>4. Named(b) = LcdKey(LcdMask(b))
    BY <1>2 DEF Named
  <2>5. CASE b = 24
    <3>1. LcdMask(b) = 1
      BY <2>5 DEF LcdMask, LCD_LEFT, LCD_CENT, LCD_RIGHT, LCD_BTN_LEFT
    <3>2. Named(b) \in down <=> left
      BY <2>4, <3>1
    <3>. QED
      BY <1>2, <2>1, <2>2, <2>3, <3>1, <3>2
  <2>6. CASE b = 25
    <3>1. LcdMask(b) = 2
      BY <2>6 DEF LcdMask, LCD_LEFT, LCD_CENT, LCD_RIGHT, LCD_BTN_CENTER
    <3>2. Named(b) \in down <=> cent
      BY <2>4, <3>1
    <3>. QED
      BY <1>2, <2>1, <2>2, <2>3, <3>1, <3>2
  <2>7. CASE b = 26
    <3>1. LcdMask(b) = 4
      BY <2>7 DEF LcdMask, LCD_LEFT, LCD_CENT, LCD_RIGHT,
                  LCD_BTN_RIGHT
    <3>2. Named(b) \in down <=> right
      BY <2>4, <3>1
    <3>. QED
      BY <1>2, <2>1, <2>2, <2>3, <3>1, <3>2
  <2>. QED
    BY <1>2, <2>5, <2>6, <2>7 DEF LCD_LEFT
<1>. QED
  BY <1>1, <1>2 DEF LCD_LEFT

PressRecord ==
    [asked : BOOLEAN, reports : 0 .. 2, chorded : BOOLEAN, blurred : BOOLEAN,
     settled : BOOLEAN]

\* What holds of a button between two polls: of its last press p, whether it
\* was found pressed by the last poll, and whether it is pressed.
PressSound(b, p, found, isDown, chord) ==
    /\ b >= LCD_LEFT /\ chord => p.chorded
    /\ p.settled => ~isDown /\ ~found
    /\ isDown /\ ~p.asked => p.reports = 0 /\ (~p.blurred => ~found)
    /\ ~p.chorded => /\ p.reports <= 1
                     /\ p.asked /\ ~p.blurred => p.reports = 1
                     /\ isDown /\ p.asked => found

Sound(b) ==
    PressSound(b, press[b], buttonPressed[b], Named(b) \in down, Chord(down))

ButtonsInv ==
    /\ Polled \subseteq 0 .. 26
    /\ press \in [Polled -> PressRecord]
    /\ buttonPressed \in [Polled -> BOOLEAN]
    /\ \A b \in Polled : Sound(b)

LEMMA ButtonsInit == Init => ButtonsInv
<1>. SUFFICES ASSUME Init PROVE ButtonsInv
  OBVIOUS
<1>1. PICK polled \in Callers : /\ buttonPressed = [b \in polled |-> FALSE]
                               /\ press = [b \in polled |-> NoPress]
  BY DEF Init
<1>2. Polled = polled /\ polled \subseteq 0 .. 26
  BY <1>1, OperatorAssumption DEF Polled
<1>3. NoPress \in PressRecord
  BY DEF NoPress, PressRecord
<1>4. ~Chord(down)
  BY DEF Init, Chord
<1>5. \A b \in Polled : Named(b) \notin down
  BY DEF Init
<1>6. ASSUME NEW b \in Polled PROVE Sound(b)
  BY <1>1, <1>2, <1>4, <1>5 DEF Sound, PressSound, NoPress
<1>. QED
  BY <1>1, <1>2, <1>3, <1>6 DEF ButtonsInv

\* A poll.
LEMMA PollStep ==
    ASSUME ButtonsInv, NEW a \in Polled, buttonIsNewPress(a)
    PROVE  ButtonsInv'
<1>. DEFINE current == buttonGetState(a)
            new == current /\ ~buttonPressed[a]
            p == press[a]
<1>1. /\ a \in 0 .. 26 /\ p \in PressRecord /\ buttonPressed[a] \in BOOLEAN
      /\ Sound(a)
  BY DEF ButtonsInv
<1>2. /\ current => Named(a) \in down
      /\ Named(a) \in down /\ ~(a >= LCD_LEFT /\ Chord(down)) => current
  BY <1>1, Reading
<1>. current \in BOOLEAN
  <2>1. CASE a < LCD_LEFT
    BY <2>1 DEF buttonGetState
  <2>2. CASE ~(a < LCD_LEFT)
    BY <2>2 DEF buttonGetState
  <2>. QED
    BY <2>1, <2>2
<1>. HIDE DEF current
<1>3. buttonPressed' = [buttonPressed EXCEPT ![a] = current] /\ down' = down
  BY DEF buttonIsNewPress, current
<1>4. CASE Named(a) \in down
  <2>. DEFINE n == IF new /\ p.reports < 2 THEN p.reports + 1 ELSE p.reports
              q == [p EXCEPT !.asked = TRUE, !.reports = n]
  <2>1. press' = [press EXCEPT ![a] = q]
    BY <1>4 DEF buttonIsNewPress, current
  <2>2. q \in PressRecord
    <3>1. n \in 0 .. 2
      BY <1>1 DEF PressRecord
    <3>. HIDE DEF n
    <3>. QED
      BY <1>1, <3>1 DEF PressRecord
  <2>3. PressSound(a, q, current, Named(a) \in down, Chord(down))
    BY <1>1, <1>2, <1>4 DEF Sound, PressSound, PressRecord
  <2>. HIDE DEF q
  <2>. QED
    BY <1>1, <1>2, <1>3, <1>4, <2>1, <2>2, <2>3 DEF ButtonsInv, Sound, Polled
<1>5. CASE Named(a) \notin down
  <2>. DEFINE q == [p EXCEPT !.settled = TRUE]
  <2>1. press' = [press EXCEPT ![a] = q]
    BY <1>5 DEF buttonIsNewPress
  <2>2. q \in PressRecord
    BY <1>1 DEF PressRecord
  <2>3. PressSound(a, q, current, Named(a) \in down, Chord(down))
    BY <1>1, <1>2, <1>5 DEF Sound, PressSound, PressRecord
  <2>. HIDE DEF q
  <2>. QED
    BY <1>1, <1>2, <1>3, <1>5, <2>1, <2>2, <2>3 DEF ButtonsInv, Sound, Polled
<1>. QED
  BY <1>4, <1>5

\* The record of a press that begins.
Fresh(chorded, blurred) ==
    [NoPress EXCEPT !.chorded = chorded, !.blurred = blurred, !.settled = FALSE]

LEMMA FreshPress ==
    ASSUME NEW chorded \in BOOLEAN, NEW blurred \in BOOLEAN
    PROVE  LET p == Fresh(chorded, blurred)
           IN  /\ p \in PressRecord
               /\ p.asked = FALSE /\ p.settled = FALSE /\ p.reports = 0
               /\ p.chorded = chorded /\ p.blurred = blurred
<1>1. ASSUME NEW p \in PressRecord
      PROVE  [p EXCEPT !.chorded = chorded, !.blurred = blurred,
                       !.settled = FALSE] \in PressRecord
  BY DEF PressRecord
<1>2. NoPress \in PressRecord
  BY DEF NoPress, PressRecord
<1>3. Fresh(chorded, blurred) \in PressRecord
  BY <1>1, <1>2 DEF Fresh
<1>. QED
  BY <1>3 DEF Fresh, NoPress

LEMMA PressStep ==
    ASSUME ButtonsInv, NEW key, Press(key)
    PROVE  ButtonsInv'
<1>. DEFINE chorded(b) == b >= LCD_LEFT /\ Chord(down')
            blurred(b) == ~press[b].settled
            fresh(b) == Fresh(chorded(b), blurred(b))
            other(b) == [press[b] EXCEPT !.chorded = @ \/ chorded(b)]
<1>1. /\ key \notin down /\ down' = down \cup {key}
      /\ press' = [b \in Polled |-> IF Named(b) = key THEN fresh(b)
                                                      ELSE other(b)]
      /\ buttonPressed' = buttonPressed
  BY DEF Press, Fresh
<1>2. Polled' = Polled
  BY <1>1 DEF Polled
<1>3. ASSUME NEW b \in Polled
      PROVE  press'[b] \in PressRecord /\ Sound(b)'
  <2>1. /\ press[b] \in PressRecord /\ buttonPressed[b] \in BOOLEAN
        /\ Sound(b)
    BY DEF ButtonsInv
  <2>2. chorded(b) \in BOOLEAN /\ blurred(b) \in BOOLEAN
    BY DEF Chord
  <2>. HIDE DEF chorded, blurred
  <2>3. CASE Named(b) = key
    <3>1. press'[b] = fresh(b)
      BY <1>1, <2>3
    <3>2. /\ fresh(b) \in PressRecord
          /\ fresh(b).asked = FALSE /\ fresh(b).settled = FALSE
          /\ fresh(b).reports = 0
          /\ fresh(b).chorded = chorded(b) /\ fresh(b).blurred = blurred(b)
      BY <2>2, FreshPress
    <3>3. PressSound(b, fresh(b), buttonPressed[b], Named(b) \in down',
                     Chord(down'))
      BY <1>1, <2>1, <2>3, <3>2 DEF Sound, PressSound, PressRecord, chorded,
                                   blurred
    <3>. QED
      BY <1>1, <3>1, <3>2, <3>3 DEF Sound
  <2>4. CASE Named(b) # key
    <3>1. press'[b] = other(b)
      BY <1>1, <2>4
    <3>2. other(b) \in PressRecord
      BY <2>1, <2>2 DEF PressRecord
    <3>3. PressSound(b, other(b), buttonPressed[b], Named(b) \in down',
                     Chord(down'))
      BY <1>1, <2>1, <2>2, <2>4 DEF Sound, PressSound, PressRecord, chorded
    <3>. QED
      BY <1>1, <3>1, <3>2, <3>3 DEF Sound
  <2>. QED
    BY <2>3, <2>4
<1>. QED
  BY <1>1, <1>2, <1>3 DEF ButtonsInv

LEMMA ReleaseStep ==
    ASSUME ButtonsInv, NEW key, Release(key)
    PROVE  ButtonsInv'
<1>1. /\ down' = down \ {key}
      /\ UNCHANGED <<press, buttonPressed>>
  BY DEF Release
<1>2. Chord(down') => Chord(down)
  BY <1>1 DEF Chord
<1>3. ASSUME NEW b \in Polled PROVE Sound(b)'
  <2>1. /\ press[b] \in PressRecord /\ buttonPressed[b] \in BOOLEAN
        /\ Sound(b)
    BY DEF ButtonsInv
  <2>2. Named(b) \in down' => Named(b) \in down
    BY <1>1
  <2>. QED
    BY <1>1, <1>2, <2>1, <2>2 DEF Sound, PressSound, PressRecord
<1>. QED
  BY <1>1, <1>3 DEF ButtonsInv, Polled

LEMMA ButtonsStep ==
    ASSUME ButtonsInv, [Next]_vars
    PROVE  ButtonsInv'
<1>1. CASE UNCHANGED buttons
  <2>1. UNCHANGED <<down, buttonPressed, press>>
    BY <1>1 DEF buttons
  <2>. QED
    BY <2>1 DEF ButtonsInv, Sound, Polled
<1>2. ASSUME Initialize \/ Enable \/ Disable \/ OperatorControl \/ Server
      PROVE  UNCHANGED buttons
  BY <1>2 DEF Initialize, Enable, Disable, OperatorControl, Clear, ShowState,
              ShowAddress, ReadButtons, Loop, PlayBatch, ReplayEnds, Server,
              ServerConnects, ServerIsTold, ServerResets, ServerForgets,
              ServerSetsMotor, buttons
<1>3. CASE Buttons
  BY <1>3, PollStep, PressStep, ReleaseStep DEF Buttons
<1>. QED
  BY <1>1, <1>2, <1>3 DEF Next, vars

\* Whichever buttons a task polls, and whenever, a press of one is reported
\* once, unless it is part of a chord on the LCD or follows too closely on
\* another (buttonIsNewPress, buttons.c:134).
THEOREM ReportedOnce == Spec => []PressReportedOnce
<1>1. ButtonsInv => PressReportedOnce
  BY DEF ButtonsInv, PressReportedOnce, Sound, PressSound
<1>. QED
  BY <1>1, ButtonsInit, ButtonsStep, PTL DEF Spec
=============================================================================

------------------------------ MODULE Operator ------------------------------
(***************************************************************************)
(* Operator control (opcontrol.c): the task that shows the server's state  *)
(* on the LCD and, when its left button is pressed, replays a recording;   *)
(* and the buttons (buttons.c), for a task that polls some of them.        *)
(*                                                                         *)
(* The kernel starts and stops the task of operator control.  The server   *)
(* has a lower priority: it runs only while operator control waits.  Of    *)
(* the server only what operator control reads is kept.                    *)
(***************************************************************************)
EXTENDS Integers, Sequences

CONSTANTS
    Callers,        \* what a task may ask for: sets of button_t
    Address,        \* addresses of the host
    HostWrites,     \* pairs of channel and speed
    Cuts            \* bound: where replay is stopped, batch and channel

NoAddress == "0.0.0.0"

ASSUME OperatorAssumption ==
    /\ \A polled \in Callers : polled \subseteq 0 .. 26
    /\ NoAddress \notin Address

JOY_DOWN  == 1
JOY_LEFT  == 2
JOY_UP    == 4
JOY_RIGHT == 8

LCD_BTN_LEFT   == 1
LCD_BTN_CENTER == 2
LCD_BTN_RIGHT  == 4

LCD_LEFT  == 24
LCD_CENT  == 25
LCD_RIGHT == 26

\* A key has a device (a joystick, or 0 for the LCD), a group and a location.
LcdKey(mask) == <<0, 0, mask>>
LcdKeys == {LcdKey(mask) : mask \in {LCD_BTN_LEFT, LCD_BTN_CENTER,
                                     LCD_BTN_RIGHT}}

LcdMask(button) ==
    CASE button = LCD_LEFT -> LCD_BTN_LEFT
      [] button = LCD_CENT -> LCD_BTN_CENTER
      [] button = LCD_RIGHT -> LCD_BTN_RIGHT

\* The keys as they are named in button_t: JOY1_5D, JOY1_5U, ...
Named(button) ==
    LET joystick == << <<5, JOY_DOWN>>, <<5, JOY_UP>>,
                       <<6, JOY_DOWN>>, <<6, JOY_UP>>,
                       <<7, JOY_UP>>, <<7, JOY_LEFT>>,
                       <<7, JOY_RIGHT>>, <<7, JOY_DOWN>>,
                       <<8, JOY_UP>>, <<8, JOY_LEFT>>,
                       <<8, JOY_RIGHT>>, <<8, JOY_DOWN>> >>
        k == joystick[(button % 12) + 1]
    IN  IF button >= LCD_LEFT THEN LcdKey(LcdMask(button))
        ELSE <<button \div 12 + 1, k[1], k[2]>>

Channel == 1 .. 10
Still == [c \in Channel |-> 0]

VARIABLES
    mode,       \* what the kernel does: "off", "disabled" or "enabled"
    pc, batch,  \* operatorControl, and how far it is in replay
    screen,     \* the lines of the LCD
    server,     \* what operatorControl reads of server_t, and whether
                \* serverReset is under way
    motors,
    touched,    \* since replay last stopped all motors, another task has set
                \* one, or replay has been left before its end
    down,       \* keys that are pressed
    buttonPressed,
    press       \* of each button, its last press and the polls during it

operator == <<mode, pc, batch, screen, motors, touched>>
buttons == <<down, buttonPressed, press>>
vars == <<operator, server, buttons>>

Polled == DOMAIN press

\* reports counts to 2.  settled: it has been polled since it was released.
NoPress == [asked |-> FALSE, reports |-> 0, chorded |-> FALSE,
            blurred |-> FALSE, settled |-> TRUE]

Init ==
    /\ mode = "off" /\ pc = "none" /\ batch = 0
    /\ screen = [state |-> "", address |-> ""]
    /\ server = [connected |-> FALSE, ipv4 |-> NoAddress, resetting |-> FALSE]
    /\ motors = Still /\ touched = FALSE
    /\ down = {}
    /\ \E polled \in Callers :
            /\ buttonPressed = [b \in polled |-> FALSE]
            /\ press = [b \in polled |-> NoPress]

-----------------------------------------------------------------------------
(* The LCD.                                                                *)

\* initialize
Initialize ==
    /\ mode = "off"
    /\ mode' = "disabled"
    /\ screen' = [state |-> "PROS V2.12.0", address |-> "VEX CORTEX LCD1"]
    /\ UNCHANGED <<pc, batch, motors, touched, server, buttons>>

Clear ==
    /\ pc = "clear"
    /\ pc' = "state"
    /\ screen' = [state |-> "", address |-> ""]
    /\ UNCHANGED <<mode, batch, motors, touched, server, buttons>>

ShowState ==
    /\ pc = "state"
    /\ pc' = "address"
    /\ screen' = [screen EXCEPT !.state = IF server.connected
                                          THEN "CONNECTED"
                                          ELSE "DISCONNECTED"]
    /\ UNCHANGED <<mode, batch, motors, touched, server, buttons>>

\* Faulty variant: the last address is not wiped out.
ShowAddressOnly ==
    /\ pc = "address"
    /\ pc' = "buttons"
    /\ screen' = IF server.ipv4 = NoAddress THEN screen
                 ELSE [screen EXCEPT !.address = server.ipv4]
    /\ UNCHANGED <<mode, batch, motors, touched, server, buttons>>

\* Four octets are copied by one instruction.
ShowAddress ==
    /\ pc = "address"
    /\ pc' = "buttons"
    /\ screen' = [screen EXCEPT !.address = IF server.ipv4 = NoAddress
                                            THEN "" ELSE server.ipv4]
    /\ UNCHANGED <<mode, batch, motors, touched, server, buttons>>

lcdReadButtons ==
    LET bit(mask) == IF LcdKey(mask) \in down THEN mask ELSE 0
    IN  bit(LCD_BTN_LEFT) + bit(LCD_BTN_CENTER) + bit(LCD_BTN_RIGHT)

ReadButtons ==
    /\ pc = "buttons"
    /\ IF lcdReadButtons % (2 * LCD_BTN_LEFT) >= LCD_BTN_LEFT
       THEN pc' = "replay" /\ batch' = 1
       ELSE pc' = "delay" /\ UNCHANGED batch
    /\ UNCHANGED <<mode, screen, motors, touched, server, buttons>>

Loop ==
    /\ pc = "delay"
    /\ pc' = "state"
    /\ UNCHANGED <<mode, batch, screen, motors, touched, server, buttons>>

-----------------------------------------------------------------------------
(* replay.  A batch is what is set between two delays, channel by channel  *)
(* in ascending order.                                                     *)

Recorded ==
    << {<<c, 0>> : c \in Channel},
       {<<1, 25>>, <<9, 25>>},
       {<<1, -89>>, <<2, 127>>, <<9, -89>>, <<10, -127>>},
       {<<1, -90>>, <<9, -90>>},
       {<<1, -127>>, <<9, -127>>},
       {<<1, 0>>, <<2, 0>>, <<9, 0>>, <<10, 0>>},
       {<<1, -21>>, <<9, -21>>},
       {<<1, -67>>, <<2, -127>>, <<9, -67>>, <<10, 127>>},
       {<<1, -65>>, <<9, -65>>},
       {<<1, -84>>, <<9, -84>>},
       {<<1, -88>>, <<9, -88>>},
       {<<1, -89>>, <<9, -89>>},
       {<<1, 0>>, <<2, 0>>, <<9, 0>>, <<10, 0>>},
       {<<2, -25>>, <<10, 25>>},
       {<<1, 90>>, <<2, -127>>, <<9, 90>>, <<10, 127>>},
       {<<1, 89>>, <<9, 89>>},
       {<<1, 90>>, <<9, 90>>},
       {<<1, 127>>, <<9, 127>>},
       {<<2, -90>>, <<10, 90>>},
       {<<1, 0>>, <<2, 0>>, <<9, 0>>, <<10, 0>>},
       {<<1, 21>>, <<2, 30>>, <<9, 21>>, <<10, -30>>},
       {<<1, 127>>, <<2, 90>>, <<9, 127>>, <<10, -90>>},
       {<<2, 127>>, <<10, -127>>},
       {<<1, 0>>, <<2, 0>>, <<9, 0>>, <<10, 0>>} >>

\* The motors after these calls of motorSet.
Set(calls) ==
    [c \in DOMAIN motors |->
        IF \E call \in calls : call[1] = c
        THEN (CHOOSE call \in calls : call[1] = c)[2] ELSE motors[c]]

\* Faulty variant: motors that the recording does not use are not stopped.
PlayBatchOnly ==
    /\ pc = "replay" /\ batch <= Len(Recorded)
    /\ motors' = Set({call \in Recorded[batch] : call[1] \in {1, 2, 9, 10}})
    /\ touched' = (touched /\ batch > 1)
    /\ batch' = batch + 1
    /\ UNCHANGED <<mode, pc, screen, server, buttons>>

PlayBatch ==
    /\ pc = "replay" /\ batch <= Len(Recorded)
    /\ motors' = Set(Recorded[batch])
    /\ touched' = (touched /\ batch > 1)
    /\ batch' = batch + 1
    /\ UNCHANGED <<mode, pc, screen, server, buttons>>

\* motorStopAll
ReplayEnds ==
    /\ pc = "replay" /\ batch > Len(Recorded)
    /\ motors' = Still /\ touched' = FALSE
    /\ pc' = "delay" /\ batch' = 0
    /\ UNCHANGED <<mode, screen, server, buttons>>

-----------------------------------------------------------------------------
(* The kernel and the server.                                              *)

Enable ==
    /\ mode = "disabled"
    /\ mode' = "enabled" /\ pc' = "clear"
    /\ UNCHANGED <<batch, screen, motors, touched, server, buttons>>

\* The task is stopped wherever it is, also between two motorSet of a batch.
\* Whether motors are stopped with it is up to the kernel.
Disable ==
    /\ mode = "enabled"
    /\ mode' = "disabled" /\ pc' = "none" /\ batch' = 0
    /\ \/ /\ pc = "replay" /\ batch <= Len(Recorded)
          /\ \E n \in {cut[2] : cut \in {k \in Cuts : k[1] = batch}} :
                motors' = Set({call \in Recorded[batch] : call[1] <= n})
       \/ /\ pc # "replay" \/ batch > Len(Recorded)
          /\ UNCHANGED motors
       \/ motors' = Still
    /\ touched' = (touched \/ pc = "replay")
    /\ UNCHANGED <<screen, server, buttons>>

\* The server has the processor.
Waits == pc \in {"none", "delay"} \/ (pc = "replay" /\ batch > 1)

\* serverCheckConnection
ServerConnects ==
    /\ Waits /\ mode # "off" /\ ~server.connected /\ ~server.resetting
    /\ server' = [server EXCEPT !.connected = TRUE]
    /\ UNCHANGED <<operator, buttons>>

\* rpcRecvInfoNetwork
ServerIsTold ==
    /\ Waits /\ server.connected
    /\ \E a \in Address : server' = [server EXCEPT !.ipv4 = a]
    /\ UNCHANGED <<operator, buttons>>

\* serverReset, which operator control may preempt.
ServerResets ==
    /\ Waits /\ server.connected
    /\ server' = [server EXCEPT !.connected = FALSE, !.resetting = TRUE]
    /\ UNCHANGED <<operator, buttons>>

ServerForgets ==
    /\ Waits /\ server.resetting
    /\ server' = [server EXCEPT !.ipv4 = NoAddress, !.resetting = FALSE]
    /\ UNCHANGED <<operator, buttons>>

\* rpcRecvWriteMotor
ServerSetsMotor ==
    /\ Waits /\ server.connected
    /\ \E w \in HostWrites : motors' = [motors EXCEPT ![w[1]] = w[2]]
    /\ touched' = TRUE
    /\ UNCHANGED <<mode, pc, batch, screen, server, buttons>>

Server ==
    \/ ServerConnects \/ ServerIsTold \/ ServerResets \/ ServerForgets
    \/ ServerSetsMotor

-----------------------------------------------------------------------------
(* Buttons.                                                                *)

\* Faulty variant: joystick 2 is taken for joystick 1.
ContactOnFirst(button) ==
    LET newButton == button % 12
        at(buttonGroup, buttonLocation) == <<1, buttonGroup, buttonLocation>>
    IN  CASE newButton \in {0, 2} -> at(5 + newButton \div 2, JOY_DOWN)
          [] newButton \in {1, 3} -> at(5 + newButton \div 2, JOY_UP)
          [] newButton \in {4, 8} -> at(6 + newButton \div 4, JOY_UP)
          [] newButton \in {5, 9} -> at(6 + newButton \div 4, JOY_LEFT)
          [] newButton \in {6, 10} -> at(6 + newButton \div 4, JOY_RIGHT)
          [] newButton \in {7, 11} -> at(6 + newButton \div 4, JOY_DOWN)

\* The switch of buttonGetState.
Contact(button) ==
    LET joystick == IF button <= 11 THEN 1 ELSE 2
        newButton == IF button <= 11 THEN button ELSE button - 12
        at(buttonGroup, buttonLocation) ==
            <<joystick, buttonGroup, buttonLocation>>
    IN  CASE newButton \in {0, 2} -> at(5 + newButton \div 2, JOY_DOWN)
          [] newButton \in {1, 3} -> at(5 + newButton \div 2, JOY_UP)
          [] newButton \in {4, 8} -> at(6 + newButton \div 4, JOY_UP)
          [] newButton \in {5, 9} -> at(6 + newButton \div 4, JOY_LEFT)
          [] newButton \in {6, 10} -> at(6 + newButton \div 4, JOY_RIGHT)
          [] newButton \in {7, 11} -> at(6 + newButton \div 4, JOY_DOWN)

\* All buttons of the LCD are read at once, and compared with one.
buttonGetState(button) ==
    IF button < LCD_LEFT THEN Contact(button) \in down
    ELSE lcdReadButtons = LcdMask(button)

buttonIsNewPress(button) ==
    LET current == buttonGetState(button)
        new == current /\ ~buttonPressed[button]
    IN  /\ mode # "off"
        /\ buttonPressed' = [buttonPressed EXCEPT ![button] = current]
        /\ press' = IF Named(button) \in down
                    THEN [press EXCEPT ![button].asked = TRUE,
                                       ![button].reports =
                                            IF new /\ @ < 2 THEN @ + 1
                                            ELSE @]
                    ELSE [press EXCEPT ![button].settled = TRUE]
        /\ UNCHANGED <<down, operator, server>>

\* Two keys of the LCD are down at once.
Chord(keys) == \E k, l \in keys \cap LcdKeys : k # l

Press(key) ==
    /\ key \notin down
    /\ down' = down \cup {key}
    /\ press' = [b \in Polled |->
                    LET chorded == b >= LCD_LEFT /\ Chord(down')
                    IN  IF Named(b) = key
                        THEN [NoPress EXCEPT !.chorded = chorded,
                                             !.blurred = ~press[b].settled,
                                             !.settled = FALSE]
                        ELSE [press[b] EXCEPT !.chorded = @ \/ chorded]]
    /\ UNCHANGED <<buttonPressed, operator, server>>

Release(key) ==
    /\ key \in down
    /\ down' = down \ {key}
    /\ UNCHANGED <<buttonPressed, press, operator, server>>

Buttons ==
    \/ \E b \in Polled : buttonIsNewPress(b)
    \/ \E key \in LcdKeys \cup {Named(b) : b \in Polled} :
            Press(key) \/ Release(key)

-----------------------------------------------------------------------------

OperatorControl ==
    \/ Clear \/ ShowState \/ ShowAddress \/ ReadButtons \/ Loop
    \/ PlayBatch \/ ReplayEnds

Next ==
    \/ Initialize \/ Enable \/ Disable
    \/ OperatorControl
    \/ Server
    \/ Buttons

\* The task gets the processor, and its waits are over some time.
Fairness == WF_vars(OperatorControl)

Spec == Init /\ [][Next]_vars /\ Fairness

-----------------------------------------------------------------------------
(* Properties.                                                             *)

\* Replay drives both sides alike and moves nothing else, whatever the motors
\* did before it and wherever an earlier replay was stopped; and when it is
\* over they all stand still.  Other tasks must leave the motors alone.
OnlyAsRecorded ==
    ~touched =>
        /\ motors[1] = motors[9] /\ motors[2] = -motors[10]
        /\ \A c \in 3 .. 8 : motors[c] = 0
        /\ pc # "replay" => motors = Still

\* A press of a button is reported once, if its task asks during it, however
\* often, in whatever company; unless another button of the LCD is down with
\* it, or the release before it was so short that the task has not seen it.
PressReportedOnce ==
    \A b \in Polled :
        LET p == press[b]
        IN  ~p.chorded =>
                /\ p.reports <= 1
                /\ p.asked /\ ~p.blurred => p.reports = 1

\* In the end the LCD shows what the server says, if that comes to rest and
\* operator control is neither disabled nor kept busy with replays.
ScreenCatchesUp ==
    \A connected \in BOOLEAN : \A a \in Address \cup {NoAddress} :
        <>[](/\ mode = "enabled" /\ server.connected = connected
             /\ server.ipv4 = a /\ LcdKey(LCD_BTN_LEFT) \notin down)
        => <>[](screen = [state |-> IF connected THEN "CONNECTED"
                                    ELSE "DISCONNECTED",
                          address |-> IF a = NoAddress THEN "" ELSE a])
=============================================================================

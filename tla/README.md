# inthezone-pros in TLA+

Specifications of the robot firmware in `src/pros` (PROS 2 on a VEX Cortex):
the serial link between the robot and its host, and what runs on top of it.
Modules are TLA+, checked with TLC; theorems are proved with TLAPS. Names in
the modules follow the C sources, and `PROJECT.json` maps each definition to
the lines it was translated from.

## 1. The system

| part | source | state it keeps | operations | talks to |
|---|---|---|---|---|
| Ring buffer | `potringbuffer.c` | two indices, 8 slots | init, push and pop at both ends, access | called by SFP |
| Serial framing protocol (SFP) | `serial_framing_protocol.c` | receiver (sequence number, CRC, escape and frame state, packet), transmitter (sequence number, history, write buffer), connection state | `sfpInit`, `sfpConnect`, `sfpDeliverOctet`, `sfpWritePacket` | octets out through the write callback, packets in through the deliver callback |
| Server | `server.c` | connection state, UART, the `rpc_t` and the `SFPcontext` | its task reads the UART, delivers octets, checks the connection, runs `rpcLoop`, sleeps 2 ms | owns SFP and RPC; is called back by SFP (`serverRead`, `serverWrite`) |
| RPC | `rpc.c` | 10 subscriptions, cache of 10 motor values, open cassette, timers | `rpcRecv` (ping, info, read, write, subscribe, unsubscribe), `rpcLoop` (publish every 25 ms, statistics every second) | called by the server; motors, cassettes |
| Messages | `messages.c` | none | serialise, deserialise | called by RPC and the server |
| Cassettes | `cassette.c` | files | open, count | called by RPC |
| Motor manager | `mtrmgr.c` | per motor: command, previous output, time of last update; a mutex each | a task every 20 ms slews each motor; `blrsMotorSet` | motors, callers in other tasks |
| Feedback controller | `fbc.c`, `fbc_pid.c` | per controller: goal, output, confidence; one stall count and previous reading for all | reset, set goal, run to completion or continuously, ask for confidence | its own task or the caller's; nothing in `src/pros` makes a controller yet |
| Shell | `shell.c` | the line, what of it is echoed, the line before, the state of an escape sequence | line editing, tokenising, commands | a UART of its own |
| Buttons | `buttons.c` | last state of each button | edge detection | joystick, LCD; nothing in `src/pros` calls it |
| Start-up, operator control | `init.c`, `opcontrol.c` | none | start the tasks, show the connection on the LCD, replay a recording | server, motors, the kernel that starts and stops it |
| Apollo | `apollo.c` | none | prints an animation | shell |

The host on the other side of the link is not in the repository. It runs the
same SFP code and is the one that calls `sfpConnect`; nothing in `src/pros`
calls it. Where the modules need the host they model it from that.

What is hard:

- *The link.* There are no acknowledgements and no timers. A receiver that
  gets a number it does not expect answers with a NAK; a transmitter that gets
  a NAK goes back to the number in it if the packet is still among the last
  eight, and otherwise renumbers what it has. Sequence numbers wrap at 64. NAKs
  cross with retransmissions. Either end can be reset at any time and the
  other learns of it only from what it receives.
- *Framing.* A damaged octet can join two frames, cut one in two, or hide the
  end of one.
- *Call-backs.* `serverWrite` and `serverRead` check the connection from
  inside SFP's own functions and may re-initialise the context these are
  working on.
- *Replies.* A request is answered by one or several frames, of which the last
  has a flag. A host that cancels a subscription crosses with the robot that
  ends it, and request ids are used again. Lengths are octets, in packets of
  up to 256.
- *The line editor.* Characters that come fast are held back and echoed later,
  so line and terminal are two states that backspace and cursor up must keep
  together.
- *Tasks.* The server (below default priority), operator control and shell
  (default) and the motor manager (near highest) share motors and parts of the
  server's state; mutexes are used in the motor manager only.

`PROJECT.json` lists these hazards one by one, at the line where each bites,
with the properties that cover it.

### What makes each part correct

- Ring buffer: it is a bounded queue that forgets at the far end; full and
  empty are never confused.
- Data transfer: packets arrive in order, once each, until the history cannot
  supply one; the history is used as long as it can; what is lost is noticed
  and sent again.
- Connection: no frame of an earlier session is taken for one of the current
  session; both ends are connected in the end.
- Framing: nothing that was not sent is handled; a fault costs at most one
  frame; a lost frame is asked for.
- Server: a connection starts with a clean state whatever was interrupted by a
  reset; the robot notices a dead host; a host that returns gets through.
- RPC: every read has exactly one reply that ends it; a subscriber sees every
  change of the value it subscribed to; nothing of one host's session reaches
  the next.
- Messages: what one end writes is what the other reads, and nothing is read
  or written outside of a packet. Replies: a request is answered once, the last
  frame says so, and host and robot agree on what is subscribed; a cassette
  arrives whole.
- Shell: the terminal shows the line; a line does what its words say; nothing is
  written outside of the buffers.
- Operator control: replay moves what was recorded and nothing else, wherever it
  is stopped; the LCD shows the state of the server in the end. Buttons: a press
  is reported once.
- Motor manager: outputs move to the command within the slew rate and nowhere
  else.
- Feedback controller: confidence is in the present goal; a stall is reported if
  and only if the robot is driven and does not move; `fbcRunCompletion` returns in
  time, and its result tells whether the time was over.

## 2. Modules

| module | models | checked by | proofs |
|---|---|---|---|
| `HistoryQueue` | the bounded queue, as an abstract specification | (through `PotRingbuffer`) | |
| `PotRingbuffer` | `potringbuffer.c` | `MCSfp` | `Sfp_proofs` |
| `Sfp` | sequence numbers, frames, history operations | (through the next two) | |
| `ReliableStream` | one direction of the link, as an abstract specification | (through `SfpTransfer`) | |
| `SfpTransfer` | data transfer in one direction | `MCSfp`; `MCSfpTransfer` (finding) | `Sfp_proofs` |
| `SfpLink` | both endpoints: handshake, data both ways, resets | `MCSfpLink` | `Sfp_proofs` |
| `SfpFraming` | octets | `MCSfpFraming` | `SfpFraming_proofs` |
| `MotorManager` | `mtrmgr.c`, one motor | `MCMotorManager` | `MotorManager_proofs` |
| `ServerContext` | `server_t`; the check of the connection (`server.c`) | (through `Server`) | |
| `Rpc` | `rpc.c`, as functions on `server_t` | (through `Server`) | |
| `Server` | the server task, with the host and the line | `MCServer` | `Server_proofs` |
| `Fbc` | `fbc.c`: controllers, a task that runs them and one that calls them | `MCFbc` | `Fbc_proofs` |
| `Messages` | `messages.c`, as functions | (through `Replies`) | `Replies_proofs` |
| `Replies` | `rpc.c` and `cassette.c`, message by message, with a host | `MCReplies` | `Replies_proofs` |
| `Shell` | `shell.c` | `MCShell` | `Shell_proofs` |
| `Operator` | `opcontrol.c`, `buttons.c` | `MCOperator` | `Operator_proofs` |

The SFP modules form a tower. `SfpFraming` is about octets and shows what a
fault on the line can do to frames. `SfpTransfer` and `SfpLink` are about
frames and take from it what a fault may be: a lost frame, or `Debris`, one or
two bad frames in the place of one. `PotRingbuffer` is shown to implement
`HistoryQueue`; the history in `Sfp` is that queue (`Remember`, `HistoryFrom`).
`SfpTransfer` is shown to implement `ReliableStream`.

`Server` EXTENDS `Rpc`, which EXTENDS `ServerContext`. It is about what the
callbacks of SFP do to each other and to the session, so of SFP it keeps the
connection state and the place of every write, not numbers and histories.
`Replies` EXTENDS `Messages` and is the other half of `rpc.c`: one connection over
a line that loses nothing, and every octet that is sent on it. `Server` says
which connection a message belongs to, `Replies` what it says.

### PotRingbuffer

State: `mBegin`, `mEnd`, `mData` as in the struct. One action per function that
changes it. `Capacity` is a power of two (assumed, as the header demands), so
the masks are remainders. The slots start with any contents: the code does not
clear them. The pops are guarded by non-emptiness, which is how both callers
use them.

### SfpTransfer

State: the transmitter's `tx.seq` and history, the receiver's `rx.seq`, the
frames on both lines, and what was written and delivered. Each action is one
handler to its end: `WriteUSR` (`sfpWritePacket`), `AnswerNAK`
(`sfpHandleNAK` with `sfpTransmitHistoryFromSeq`: all retransmissions are sent
before the next octet is read), `Accept` and `Reject` (`sfpHandleUSR`),
`RejectBad` and `DropBadNAK` (`sfpHandleFrame` on a frame with a bad CRC). The
packet a NAK was waiting for is remembered with it, for the properties only.

Bounds: `Window` (packets outstanding, less than `SEQ_RANGE`), `MaxWritten`,
`MaxFaults`. `Window < SEQ_RANGE` is an assumption about the application, not
something the code enforces: with 64 or more packets outstanding an old number
would be current again. The line (a UART without flow control) holds far fewer.

### SfpLink

State: per endpoint the connection state, numbers and history, per line the
frames on their way. Every frame type is handled in every connection state as
in the code. The host starts handshakes (`Connect`, and `ConnectHastily` while
frames are still on their way), either end can be reset (`Reset` is `sfpInit`
on a context in use, as `serverReset` does), both write, and the host sends its
heartbeat (`Ping`). A packet is named by the *session* of its transmitter, which
ends when its number and history are cleared, and its place in it.

`sfpWritePacket` does not look at the connection state. The applications begin to
write when they are connected, but `serverWrite`, which SFP calls for each frame
of the robot, may reset the robot's end (`server.c:277`), and the functions it
returns to know nothing of that:

- `WriteInterrupted` is a reset inside of `sfpWritePacket`. The number is
  incremented after it, so the next packet has number 1 and nothing is in the
  history. `unwinding` says that `rpcLoop`, or a reply of several packets, is not
  over: until the next frame is read, `WritePacket` is enabled for a robot that is
  disconnected, and its frames reach a host that may still be connected.
- `HandleNAKInterrupted` and `HandleSYN2Interrupted` are a reset in the loop of
  `sfpTransmitHistory`, which goes on to the count it began with and sends what
  the slots of the ring hold, under fresh numbers. In the second `connectState` is
  assigned after the loop, so that the robot is connected. A reset
  in `sfpHandleSYN0` sets what that handler has just set.
- A reset under the deliver callback is followed by `rx.seq = nextSeq(rx.seq)`
  (`EitherCount`).

A server that has been reset is disconnected, and its check does nothing more, so
there is one such reset in a handler at most.

Two things are for the properties. `resynced` holds the sessions whose numbers
were shifted: by a transmitter that resynchronised in it, or by a reset in the
midst of a handler, after which transmitter and receiver count from different
places. `rough` says that something has happened that the protocol has no means
against: the host made an attempt without waiting for the frames of the one before
(`haste`), or a packet (`burst`) or heartbeat (`deaf`), not the first of its
session, was written a lap of numbers ahead of what is expected (`LapAhead`).

Bounds: `MaxWritten`, `MaxFaults`, `MaxUpsets` (resets and hasty handshakes).

### SfpFraming

State: what of a frame is still to be written, `tx.writebuf`, the octets on the
line, and the receiver. CRC and escaping are the code's, on real octets, with
frames chosen to have reserved octets in header, packet and CRC. `Xor` is written
out bit by bit and `Crc` and `Encoded` are recursive functions, so that they can
be reasoned about. A frame is at most as long as the receiver's buffer takes with
its CRC (`FramingAssumption`). Octets are
lost, or replaced by one of `Noise` (reserved octets, their escaped forms and
others).

### MotorManager

State: of one motor, what it was last set to (`output`), `cmd`, `_prev`,
`slewrate`, `inverted`, `recalculate` and the mutex; the manager task with its
local `out`; and for each caller of `blrsMotorSet` where it is and what it was
asked for. The ten motors are handled alike and share nothing.

The processor runs one task at a time and the manager has nearly the highest
priority, so between its reads and the wait for the mutex no caller runs, and
when the mutex it waits for is given it goes on at once (`OthersRun`). That is
why a round is one action (`RoundNothing`, `RoundPrevented`, `RoundSet`) or, if
a caller holds the mutex, two (`RoundWait`, then `WaitEnds` or, after 5 ms,
`WaitTimesOut`). A caller can be preempted between any two statements, so each
statement of `blrsMotorSet` on shared state is an action. A caller waiting for
another caller's mutex may give up (`TakeTimesOut`) at any time, which covers
every timing of the 100 ms.

`ForeignSet` is a `motorSet` by a task that knows nothing of the manager, as RPC
and operator control do. In this repository no motor is configured with
`blrsMotorInit`, so the manager does nothing there (`slewrate = 0`); the module
covers both. `bypassed` remembers, for the properties, whether an immediate
call or a foreign set has ever been made.

Units: the range of the motor is `MaxSpeed` (127 in the code), the slew rate is
the change per period of 20 ms, and `elapsed` counts periods since the last
update up to `MaxElapsed`. Slew rates that are a fraction of a unit per period
are not modelled.

Bounds: `MaxCalls`, `MaxForeign`, `MaxElapsed`.

### ServerContext, Rpc, Server

`serverWrite` checks the connection after every write, from inside the SFP and
RPC functions that write, and the check may call `serverReset`, which initialises
the SFP context these are working on. So what a handler does depends on every
write in it. `ServerContext` and `Rpc` therefore describe the code as functions
on `server_t`, nested as the calls are: `Reset` is `serverReset`, `Checked` is
`serverCheckConnection`, `Wrote` is `serverWrite`, `Send` is what all the
`rpcSend` functions come to, and `Handled` and `Published` compose them in the
order of the statements. `expires` says whether the five seconds since the last
message run out during the (first) write; once the context is reset another
check changes nothing, so a reply of several frames is one `Send`.

`Server` is the task. The frames read from the UART at once form a `batch`,
which is delivered to its end before the connection is checked and `rpcLoop`
called, so that the handshake, requests, the heartbeat and a second handshake may
all be in one batch. One action is one frame delivered (`DeliverSYN0`, `Refuse`,
`DeliverSYN2`, `Retransmit`, `DeliverDIS`, `DeliverUSR`), one subscription
published (`Publish`), or one check. `connectState` is assigned after the write
in `sfpHandleSYN0`, hence after a possible reset; `Answers` has that order.
Between the actions the clock (`Expire`) and other tasks that set motors
(`Move`) come in.

The host (`HostConnects` and so on) is external: it runs the same SFP, tries to
connect again when it is not connected, and pings. `HostReminds` stands for its
answers to data: what it says depends on its connection state only.
`HostConnectsHastily` also covers a host that restarts.

Fields of `server_t` that are not in the code: `told`, what the host has been
told of the motors on this connection; `accepted`, the subscriptions accepted on
it; `files`, the number of open files; `oldSubs` and `oldFp`, the slots that were
filled and the file that was open when the handshake of this connection was
completed, and have not been used for anything new; `unseen`, whether the
handshake was over before the server noticed it had begun. `stained` remembers
that the last reset came in the middle of the loop of `rpcLoop`.

Left out: the contents of replies, `pubsubs` and cassette reads (they only
answer), the 25 ms and 1 s periods (`AfterDelivery` may or may not find them
over), and an `APPEND` of no octets (`rpc.c:687` takes it for a failed write).

Bounds: `MaxMessages` (requests and reminders of the host other than pings, and
`Move`), `MaxUpsets` (departures, hasty handshakes, heartbeats that expire
although the host is alive), `MaxLine`.

### Fbc

State: per controller `goal`, `output`, `confidence` (`fbc_t._confidence`, which
the code only compares with its limit, so it is kept up to that); the robot's
`position`, which `Drift` moves as it likes; `prev` and `count`, the two statics
of the stall detection; and two tasks of equal priority with their local
variables. The runner is in `fbcRunCompletion`, or in the loop of `_fbcTask` over
one or more controllers. The caller sets goals, resets, and polls
`fbcIsConfident`, which is not a mere question: it advances the stall count. One
iteration is `Generate`, `LoadConfidence` and `StoreConfidence` (the increment) or
`ClearConfidence`, `MoveOutput`, and then `fbcIsConfident`: `AskConfidence`, and
`DoNotCount`, or `CountStill` and `NoteStill`, which reads the sensor again.

What `compute` returns is any of `Output`: the floating-point PID is left out.
Time is in periods of `FBC_LOOP_INTERVAL`; `run.elapsed` is `now - start`. The
reading of `sense`, the test of `output` and the count are one action: the stages
in between matter only if the other task uses the stall detection there, and the
properties except that (`disturbed`).

`history` is for the properties. `streak` counts iterations on target since the
goal last changed; `raced` says that a goal or confidence was changed in the
middle of an iteration, until a later reset or miss makes that irrelevant;
`still` counts iterations driven without moving, and `disturbed` says that
something else has used the detection since that or the count was last 0.

Bounds: `MaxTimeout`, `AcceptableConfidence`, `MaxPosition`.

### Messages

`message_any_t` is the set `Message` of records, a packet a sequence of octets.
`Serialize` is `message_serialize` with its test of the length, `Deserialize` is
`message_deserialize` with its test of the length in eight bits (`ValueEnd`, the
variable `vlen`). `Base` is the number of values of an octet, 256 in the code, so
that runs can use smaller ones. A value that reaches past the end of its packet
has `Stray` octets.

### Replies

State: `rpc`, which is `rpc_t` with the loop of `rpcRecvReadCassette` (`reading`);
the motors and files; the packets on their way each way, each with the message
that was `meant` by it; what the host thinks of each of its request ids; and the
octets it has read of a cassette (`tape`).

Handlers are functions on `rpc`, named after theirs in `rpc.c`, and collect in
`out` what they send; what does not fit a packet is not sent (`Send`).
`RobotReceives` is one packet handled, except that a cassette is read in the steps
of its loop (`ReadOctet`, `FileReady`, `EndOfFile`), which runs inside of the handler: nothing else is received meanwhile, and the
heartbeat may expire (`Expire`). `RpcLoop` publishes. The host uses a request id
for one thing at a time, except in two ways, after which nothing is promised
about that id (`spoiled`): it subscribes with it again, or its cancellation
crosses the end of the subscription.

Left out: the value of the clock, a connection that breaks other than by that
heartbeat (`Server` has the ways), and a cassette `WRITE` of no octets (see 6).

Bounds: `MaxMessages` (of the host), `MaxLine` (packets on their way).

### Shell

State: `line`, the characters from `line` to `p`; `echoed`, which is `r - line`;
`escSeq`; `history`; what the terminal shows (`screen`); and `split`, the line
while it is cut into arguments, with `_strtok`'s pointer. One action per key of
`shellGetLine`, one per argument, one per command.

A character that comes within 50 ms of the last is held back: `Character` echoes
or does not. `garbled` says that a cursor up has printed what is not in the line;
the screen is not followed any further. `typed` is the key that ends `apollo`,
which the next line begins with.

Bound: `Types`: the letters of the cursor up sequence are typed only there.

### Operator

State: the kernel's `mode`, `operatorControl` with its place in `replay`, the
LCD, the motors, what it reads of the server, and the buttons.

Every statement that shows something is an action of `operatorControl`; the server
has a lower priority and runs only while that waits (`Waits`). Within `replay` the
task waits between batches of `motorSet`, so a batch (`PlayBatch`) is one action,
unless the kernel stops the task in the middle of it (`Disable`). `touched` says
that somebody else has set a motor, or that replay was left before its end.

`Press`, `Release` and `buttonIsNewPress` come in any order for the buttons a task
polls. `press` remembers of each button its last press: whether the task asked
during it and what it was told, whether it was part of a chord on the LCD, and
whether the release before it was seen by a poll (`blurred` if not).

Bounds: `Cuts` (where a replay is stopped).

## 3. Runs

| run | constants | states | shows |
|---|---|---|---|
| `transfer` | a ring of 4 slots, 2 packets; range 5, history 3, window 4, 7 packets, 2 faults | 213 k | the ring implements `HistoryQueue`; in order and once until a resynchronisation; resynchronises only when the packet was forgotten; implements `ReliableStream`; one fresh frame after the last fault repairs everything |
| `transfer_stale` | the real 64 and 8; 9 packets, 1 fault | (violated) | see *Findings* |
| `link` | range 3, history 2, 2 packets in the sessions under way, 1 fault, 1 reset or hasty handshake | 544 k | sessions do not mix and are in order, unless shifted or the link is rough; both ends connected in the end; the heartbeat repairs losses |
| `framing` | buffers of 4, 2 frames, 1 fault | 25 k | nothing invented; a fault costs at most 1 frame and 2 NAKs; a lost frame is asked for |
| `motor` | 2 tasks, speeds to 3, slew 2, reversed, halved or not, 2 calls, 1 foreign set | 1.0 M | while all goes through the manager: within the slew rate, towards the command, and there in the end; otherwise the motor ends at the command or stands still |
| `motor_stuck` | 1 task, 1 immediate call | (violated) | see *Findings* |
| `server` | 1 motor with 2 values, 1 cassette, 2 request ids, 2 subscriptions; 2 messages, 2 upsets, 3 frames on the line | 1.1 M | one file at most, and known; the cache hides nothing; a noticed connection starts clean; subscriptions stay; departures are noticed; a host that stays gets through |
| `fbc` | 1 controller, 2 positions, 2 outputs (one raised to the deadband), tolerance 1, confidence 2, timeout 0 or 1 | 1.7 M | confidence is in the present goal; stalls are real, and noticed by a controller alone; completion returns with a timeout, and on target without |
| `fbc_result` | as `fbc` | (violated) | see *Findings* |
| `replies` | octets of 32 values, packets of 32, 2 subscriptions, 1 motor, 1 cassette of up to 3 octets sent 2 at a time, 2 request ids; 3 messages, 2 packets on the line | 937 k | packets are read as they were meant; one answer to each request, and its end is the last of it; both ends agree on subscriptions; a cassette arrives whole |
| `shell` | lines of 5 of 4 characters, 1 argument | 243 k | buffers; the terminal shows the line; what garbles it; a line does what its words say |
| `operator` | 1 button, of joystick or LCD; 3 places where replay is stopped | 573 k | replay moves what was recorded; a press is reported once; the LCD catches up |

Why the bounds are enough. *Transfer*: four slots make every fill level of the
ring meet every rotation of its indices. The ring and the transfer are one
behaviour (`MCSfp`): the ring is used at will, and the transfer begins when it is as
`sfpInit` leaves it. Seven
packets over a range of five wrap the numbers, overflow the history of three and
leave room for two faults in the same exchange (a lost frame and a lost NAK, or
a damaged retransmission); the proofs cover all values. *Link*: the
history of two fills, the range of three wraps, and a session can be interrupted
with data under way, in each of the three ways a handler can be; nothing keeps two
packets and the heartbeats from being a lap ahead, nor the host from being hasty.
`SessionInOrder` excuses what needs it only: with any one of its exceptions left
out TLC violates it, for `haste`, `burst` and shifted sessions at these bounds, for
`deaf` with three faults (a heartbeat goes a lap ahead when as many frames are lost
as there are numbers). With three packets (5.9 million states) it holds as well,
and `SessionsInOrder` (section 5) covers all values. *Framing*: two frames are the
least in which joining can happen; with two faults a CRC of 16 bits can be
beaten (TLC finds a run of octets that passes for a frame), which is a limit of
the CRC and not of the code, and a loss can go unanswered (see 5); what holds
for any number of faults is proved. *Motor*: the range takes several periods to cross,
and the last step is shorter than the slew rate; two callers can meet in the
mutex and between `mutexGive` and the write of `cmd`. *Server*: an upset is a
session that ends in one of its ways, so two of them make a third session after
two others, the second of which may overlap the first; two messages are a
subscription or an open file and what may go wrong with it; two request ids are
needed to cancel the wrong subscription; three frames on the line hold a
handshake and a request. *Feedback*: a confidence of two needs iterations in a
row, a position of two values moves or does not, and a timeout of one is met and
missed. *Replies*: three messages are a subscription, its cancellation and a new
use of its id, or a cassette opened, written and read; two subscriptions can be
full, and two ids cross; the cassette takes a full message and a rest, or a full
one only; the longest value fills a packet, and with its header wraps the octet
that its length is compared in. *Shell*: five characters hold two words with
spaces around them, or a word and a history that does not fit; one argument is
one too few. *Operator*: joystick and LCD are the two ways a button is read, and
22 is one of the second joystick, whose number is computed; the cuts come before
the first motor is stopped, with one side of the robot set and the other not,
and before a batch. The proofs of *server*, *feedback*, *replies*, *shell*
and *operator* cover all values.

Deadlock is checked in `link`, `server`, `shell` and `operator`. In
`transfer*`, `framing` and `motor*` it is not: they end when all packets or
frames have been sent and handled, or when the manager is deleted and no call is
left; nor in `fbc*`, where no task need ever call anything, nor in `replies`,
which ends when a connection is broken.

Fairness. `SfpTransfer` and `SfpLink` assume that frames that have arrived are
handled (the server task polls its UART every 2 ms and never blocks on anything
but its own writes), that the host tries to connect again and that it sends its
heartbeat: without one the robot drops the connection after 5 s
(`server.c:308`). Nothing is assumed about faults and resets except that they
end. `MotorManager` assumes that the manager's period comes round (it is the
highest task but one and waits with a time limit) and that a call that has begun
goes on. `Server` assumes that its task goes round, that the host's frames
arrive and it tries again and pings, and that five seconds without a message
come to an end (only when the host is gone: otherwise `MaxUpsets` bounds
expiries). `Fbc` assumes that the task that runs controllers gets the processor;
of the other task and the robot it assumes nothing, not even that a call ends.
`Operator` assumes that the task of operator control gets the processor: it has
default priority and waits only for a time. `ScreenCatchesUp` supposes in its
own words that the server comes to rest and the left button is not held.
`CatchesUp` and `HostHeard` except sessions that resynchronised: see below.

## 4. Findings

`transfer_stale`: the comment in `sfpTransmitHistoryFromSeq` says the
transmitter resynchronises "even if we lost frames". The code does so for
*every* NAK whose number is not in the history. One lost frame followed by two
others produces two NAKs with the same number. The transmitter answers the
first; everything is delivered. If it has written enough more packets when it
reads the second, the packet that one names, delivered long ago, is no longer
in the history, so the history is renumbered from there and sent again: packets
are delivered twice or under the wrong number though none was missing.

`motor_stuck`: if the period begins between `motorSet` and the write of `_prev`,
the manager computes `out = 0` (since `_prev` equals the old command), waits for
the mutex, and writes 0 when it is released. Now `_prev` equals the new command
and the output does not: every later round writes 0, and the motor stands still
until the next command. `ComesToRest`, checked over everything that can happen,
says that standing still is the worst: the motor is never left running at a
speed that is not the command.

`fbc_result`: `fbcRunCompletion` returns `HAS_TIMED_OUT` (`fbc.c:115`), which in
spite of its name is true while time is left, and always if `timeout` is 0;
`fbc.h:150` says "true if the movement timed out, false otherwise". What the code
returns is `ResultTellsTime`, proved in `Fbc_proofs`: true only after confidence or
a stall, false only in the first iteration past the timeout, also when that
iteration has become confident.

`fbc.h:118` says of `fbcSetGoal` that it resets the controller, which the code does
not do.

The stall detection keeps its count and previous reading in two variables for all
controllers, although its description promises an answer about the controller it
is given, and `fbcRunContinuous` is meant for several controllers on one task. A
controller that is at rest clears the count in each of its iterations; another
that is driven against an obstacle is never reported. `StallIsReal` and
`LoneStallIsNoticed` say what is left: a controller that has the detection to
itself is reported, and only when it does not move.

The buttons of the LCD are compared with `==` with what `lcdReadButtons` returns
(`buttons.c:116`), which `API.h` describes as a combination of masks: with two of
them down neither is found pressed, and a press may never be reported, or the one
that stays down be reported a second time. `PressReportedOnce` excepts them
(`chorded`).

Observations that contradict no documentation:

- After a resynchronisation (`transfer_stale`) the last packets can be lost for
  good: the receiver's next NAK can carry the number the transmitter is about to
  use, which it ignores. Hence `resynced` in `CatchesUp` and `HostHeard`.
- A host that calls `sfpConnect` twice in a hurry can complete its second
  handshake with the SYN1 of the first; then sessions mix (`haste`; without it TLC
  violates `SessionInOrder` in 21 steps). With a host that waits they never do.
- Nor do numbers tell packets apart if a lap of them is outstanding: a transmitter
  that goes on without an answer has its 64th next packet taken for the first,
  if that was lost, and nothing in the code counts what is outstanding (`burst`).
- A robot that is reset in the midst of a write goes on with what it was doing and
  sends packets under low numbers to a host that is still connected and takes those
  it happens to expect, under the old session's numbers; the NAK it answers with
  others is what makes it notice. Which packets these are depends on the numbers
  (`resynced`; without it TLC violates `SessionInOrder` in 13 steps). What the robot
  sends in the *next* handshake's session is in order again.
- A reset in the loop of `sfpTransmitHistory` sends what is left in the slots of
  the ring, from the first slot on, whatever it is: packets delivered long ago, or
  none at all.
- A motor with a recalculation function is switched off once it has reached its
  command: the manager compares `motorGet`, which returns the scaled output, with
  the command, which is not scaled; they differ, `_prev` equals the command, and
  `out` is still 0 when it is written. `SettlesIfPlain` is about the others.
- An immediate set releases the mutex before it writes `cmd`. If the manager's
  period begins in between, it slews the motor back towards the old command, and
  `blrsMotorSet` returns true.
- A packet that overflows the packet buffer on its very last octet leaves the
  receiver between frames, so its FLAG is ignored and no NAK is sent until a
  later frame shows the gap: `overflow` in `LossIsAnswered`.
- A handshake that is completed within one batch while the server is connected is
  never noticed: subscriptions, open cassette and motor cache of the last
  session live on in the new one (`unseen`; without it TLC violates
  `NothingInherited` in 18 steps: a hasty SYN0 that finds the SYN1 of an earlier
  attempt on its way, so that SYN0 and SYN2 arrive together).
- A SUBSCRIBE or OPEN in the same batch as the SYN2 that completes a noticed
  handshake is accepted, and then undone without a word when the batch is over
  and the connection is initialised. `accepted` counts what was accepted by a
  server that knows it is connected.
- A reset in the middle of the loop of `rpcLoop` (a heartbeat that expires in a
  write) does not end the loop: what is published next goes to nobody but fills
  the cache, which the next session starts with; until a value changes, its
  subscribers are told nothing (`stained`).
- A heartbeat that expires while the history is sent again for a duplicate SYN2
  leaves SFP connected, with fresh numbers, in a context just reset
  (`HandleSYN2Interrupted`); it asks the host for numbers that the host has used
  already, and the host resynchronises.
- A host that returns while the server thinks it is connected may need two
  attempts: its first handshake ends in the reset of the server.
- `rpcSubFind` is given no place for what it finds by `rpcRecvSubscribe`, and
  then answers that there is none (`rpc.c:720`), so a request id can be
  subscribed several times; `rpcRecvUnsubscribe` then cancels the first.
- A cancellation that crosses the end of its subscription is answered with an
  error and with the end that all cancellations have (`rpc.c:740`), both of which
  say that they are the last. A host that has used the id again meanwhile takes
  them for the end of the new request (`spoiled`).
- The delimiters of `_strtok` are written `" \009"` (`shell.c:248`): `\00` is an
  octal escape and ends the string, so a tab does not separate.
- Characters are signed (`-fsigned-char`, `common.mk`), so that the octet 0xFF
  is taken for the end of the input and logs out.
- Cursor up takes characters that are held back for printed (`shell.c:103`), and
  prints a history that does not fit in full; `GarbledOnlyIf` says that nothing
  else garbles the terminal.
- The left button of the LCD is read as a level (`opcontrol.c:54`): holding it
  starts the replay again. While that runs, some twelve seconds, the LCD is not
  refreshed and the buttons are not read.
- A replay that the kernel stops leaves the motors as they are, unless the kernel
  stops them itself.
- A goal that is set in the middle of an iteration can inherit the confidence in
  the last one, because the increment stores what was read before it was cleared
  (`raced`; without it `ConfidenceEarned` is violated).
- A task that polls `fbcIsConfident` advances the stall count of the task that
  runs the controller, which may then be stopped for a stall that is none
  (`disturbed`).
- Outputs equal to a deadband never count as a stall, but small outputs are raised
  to exactly that: a robot that is stuck close to its goal is not reported.

## 5. Proofs

`Sfp_proofs`, for every sequence range, history capacity below it,
window below it, and any number of packets and faults:

- `TypeCorrect`: `TypeOK`.
- `InOrder`, `ResyncJustified`, `TransferImplementsStream`. The inductive
  invariant is `Inv == TypeOK /\ OnlyWritten /\ (~resynced => Synchronised)`.
  `Synchronised` says what the numbers mean: the transmitter's number is the
  count of packets written, modulo the range; its history is the last of the
  packets written; the receiver's number is the count delivered; every frame on
  the line carries the number of its packet, and the frames were sent by a
  transmitter no more than a window ahead of the receiver, so a matching number
  means the matching packet; a NAK carries the number of the packet it waited
  for, which lies at most a window behind. `OnlyWritten` remains true after a
  resynchronisation and gives the rest of the refinement.

In the same module, of `PotRingbuffer` (`Ring`), for every capacity of the history
and every set of packets:

- `RingTypeCorrect`, `IndicesTogether`: `TypeOK` and `AtMostCapacityApart`, together
  inductive. `AtMostCapacityApart` alone is not: it says nothing unless the
  indices are in range.
- `RingImplementsQueue`: with `queue <- Contents`, each action of the ring is
  the action of the queue with the same name. The argument computes `Size` and
  `At` from the distance of the indices.

In the same module, of `SfpLink`, for every range of numbers, shorter history, and
any number of packets, faults and resets:

- `SessionsInOrder`: `SessionInOrder`, of `LinkSpec`. The inductive invariant says
  `LinkInv` of a link that is not `rough`; a step that makes it rough has nothing to
  prove. `LinkInv` is `Good` of the two ends and their lines. Each direction is a
  stream (`Streams`): all packets on their way are of one session, heartbeats aside,
  and unless its numbers were shifted there is a way to count packets and heartbeats
  together (`Counted`) under which every frame has the number of its packet and is
  not so old that it could be taken for another. Without the heartbeats in the count
  the numbers mean nothing, since they take numbers too. The rest says when there is
  such a stream: a host that has sent SYN0 has a session nobody has heard of, all its
  old frames have arrived, and behind a SYN1 on its way there is no data
  (`HostOpening`); as long as the robot is to start anew, or just has, it has sent
  nothing (`RobotOpening`). What a host that fell has left on the line remains a
  stream until the robot starts anew. What a robot that was reset in the midst of a
  handler still writes is of a session of its own, shifted from the start, behind
  the frames of the one before; while it is `unwinding` it is `Falling`:
  disconnected, and in such a session. Each handler of each end is then a lemma
  about `Good` (`HostOpens`, `RobotAnswers`, ...), and those that write, resend and
  accept rest on one lemma about a stream each (`StreamWrites`, `StreamRewinds`,
  `StreamAccepts`).

`SfpFraming_proofs`, for any frames that fit the receiver's buffer, any sizes of
the buffers, anything that a damaged octet may become, and any number of frames:

- `TypeCorrect`: `TypeOK`.
- `NothingIsInvented`: without faults, `NothingInvented`. Here it is shown that the
  receiver undoes what the transmitter does. An octet is a sum of eight bits
  (`OctetHasBits`, `XorOfWords`), so ESC and its flip bit cancel (`Flips`), and a
  register that takes in its own complement, low octet first, ends in
  `SFP_CRC_GOOD` whatever it was before (`Residue`). What a frame is on the line is
  described from its end (`Bodies`): the rest of it after each octet. `After` says
  that what the receiver has and what is still to come make up the frame, and
  `Goes` that the next octet keeps it so; `Ends`, that nothing being left to come
  the frame is handled as it was sent.
- `FaultsAreContained`: `FaultsContained`, for any number of faults. It is not
  inductive. `Contained` says where in the frames that were sent the octets in
  flight begin (`Ahead`, `Between`, `Within`), and bounds what is missing before
  that place and the NAKs, by whether the receiver keeps up there (`Clean`), will
  from the next FLAG on, or has a damaged octet ahead of it. It is about what is
  ahead of the receiver and not about what it holds, which after a fault may be
  anything.
- `OneFaultIsAnswered`: `LossIsAnswered`, up to one fault. `Answerable` lists what
  one fault can come to until the receiver is between frames again. With two it
  is false: the FLAG that closes a frame as long as the buffer is damaged and
  overflows it, the next FLAG is lost, and the frame behind it is handled as if
  nothing had happened (TLC finds this with `MaxFaults = 2`).

`MotorManager_proofs`, for every range of speeds, slew rate, set of
recalculation functions and set of tasks:

- `TypeCorrect`: `TypeOK`. Slewing, clamping and inverting all stay within the
  motor's range.
- `SlewRespected`, `NeverAstray`: `SlewLimited` and `TowardsCommand`. The
  inductive invariant `Inv` adds to `TypeOK` that nothing is commanded before
  `blrsMotorInit` (`Unconfigured`) and, while all goes through the manager, that
  `_prev` is the output, the manager was never late and nobody holds the mutex
  (`Follows`): without it the change of one round could be that of two, or start
  from where the motor is not.

`Server_proofs`, for any motors, values, request ids, cassettes, number of
subscriptions and bounds:

- `TypeCorrect`, `FileKnown`, `CacheIsTold`, `StartsClean`, `SubscriptionsStay`:
  `TypeOK`, `OneFile`, `NothingHidden`, `NothingInherited`, `AcceptedIsActive`.
  They are false in the middle of a reset or after it, so the inductive
  invariant `Inv` says what holds in every state of the connection.
  `Sound(server)`: type, file, and that accepted subscriptions are active and
  nothing of `oldSubs` and `oldFp` is left, as far as the connection has been
  noticed.
  `Agrees(server, excused)`: a server that is disconnected has an empty cache, one
  that is connected has told what is in it. A reset in `rpcLoop` breaks `Agrees`,
  and `Inv` says that it is then `stained`.
- The proof follows the nesting of the code: each operator of `ServerContext`
  and `Rpc` keeps `Sound` and `Agrees` (a write in the middle of a handler may
  have reset the server, and the rest of the handler works on that), and each
  action applies one of them. `FirstSlot` is the lemma that the search for a free
  slot ends in the first.

`Fbc_proofs`, for any number of controllers, positions, outputs, tolerance,
confidence and timeout:

- `TypeCorrect`, `Earned`, `ResultTold`, `StallReal`, `StallNoticed`: `TypeOK`,
  `ConfidenceEarned`, `ResultTellsTime`, `StallIsReal`, `LoneStallIsNoticed`
  (`ResultTellsTime` is what the code does, contrary to `fbc.h`). The
  inductive invariant `Inv` adds what holds between the statements. `Earning`: the
  confidence about to be stored was earned, too. `Resetting`: that of a controller
  in the middle of `fbcReset` is 0, or an iteration has raced with it. `Timing`: a
  task that is about to wait is in time. `CountBound`: the count exceeds the limit
  by one for each task that has counted and not yet reset. `Counting`: as long as
  nothing else uses the detection, its count differs from what is to be counted
  by one at most, since its first reading is compared with 0 or with the position
  before the controller came to rest.

`Replies_proofs`, first of `Messages`, for every number of values of an octet:

- `FitsBuffer`: `message_serialize` tests the length that `message_getsizeof`
  computes and then stores field by field (`Octets`); what it stores is exactly that
  long, for every kind of message, and so fits.
- `RoundTrip`: every message that fits is read back as it was. The hard case is
  the test of the length in eight bits: header and value together may exceed an
  octet, and then what is compared wraps to less than the length of the packet,
  which is accepted, rightly.
- `ValueInside`, `CutRefused`: a value that is read lies inside its packet, and
  a packet that has lost its end is refused. Both suppose that header and value
  together are less than 256 octets; for a longer one the comparison has wrapped
  and refuses nothing.

then of `Replies`, for any number of slots, motors, cassettes, request ids and
messages, any files, and any size of a chunk for which the replies fit a packet:

- `AlwaysUnderstood`: `Understood`, from the types of all that is on its way
  (`RobotTyped`, `HostTyped`): an `Entry` is a packet that is read as it was meant.
  That each reply of `rpc.c` is one is its length (a listing of the subscriptions
  takes five octets of each slot, say) and `RoundTrip`.
- `AlwaysEndIsLast`, `AlwaysAgree`, `AlwaysOneAnswer`: `EndIsLast`,
  `SubscriptionsAgree`, `OneAnswer`. None is inductive. `FlowInv` says in which
  phase the request of an id is: `Quiet` (nothing of it at the robot), `Busy` (the
  loop reads for it), `Held` (it has a slot) or `Done` (its last frame is on its
  way); and which READ, SUBSCRIBE and UNSUBSCRIBE about it are on theirs, in which
  order, given what the host thinks (`Fits`). An UNSUBSCRIBE that is late, for a
  subscription that has ended, may precede those of the next request: it is what
  makes the three properties more than a count. When the connection has ended all
  that remains is that a last frame is last (`Weak`). Handlers are classified by
  what they do to an id (`Keeps`, `Adds`, `Answers`, `Drops`), and a step of the
  robot is what its handler does put behind what the line holds (`Onward`).
- `AlwaysCassetteWhole`: `CassetteWhole`. `TapeInv` puts the octets that the host
  has got, those on the line and those in the buffer of the loop one behind the
  other: the file as it was when it was opened. It names the place in the file
  that is reached after each frame (`Cut`), so that no step needs the sum of all.
  It uses `FlowInv`: a loop only begins for an id of which nothing is on its way,
  and the file does not change while it is read because the handler is not left.

`Shell_proofs`, for every length of a line, number of arguments and characters:

- `TypeCorrect`, `ScreenRight`, `GarbledByCursorUp`: `TypeOK`, `ScreenShowsLine`
  and `GarbledOnlyIf`. The invariant is the first two together: what is printed
  depends on what is held back.
- `DoneAsTyped`: `AsTyped`. `SplitSoFar` says, while the line is being split, that
  what `_strtok` has left is the line from `tokp` on (`Remains`), that the words
  before it have been counted in `n`, and that the command has been cut out whole.

`Operator_proofs`, for every set of buttons polled, and wherever replay is stopped:

- `ReplayAsRecorded`: `OnlyAsRecorded`. `MotorsInv` adds where in the recording
  the task can be and that it is nowhere unless the kernel lets it. Each batch of
  the recording turns, lifts or does both (`Batches`), and each of the three keeps
  both sides alike.
- `ReportedOnce`: `PressReportedOnce`. `ButtonsInv` says of each button what holds
  between two polls (`PressSound`): once asked, a button that is down is on record
  as pressed; one that has been seen released is not. The rest is that the switch
  of `buttonGetState` finds the key that each of the 24 names on the joysticks
  stands for (`ContactNamed`), and the three of the LCD if no other is down
  (`Reading`).

The assumptions used are the named `ASSUME`s of `Sfp`, `SfpTransfer`,
`SfpFraming`, `MotorManager`, `ServerContext`, `Server`, `Fbc`, `Messages`,
`Replies`, `Shell` and `Operator`; the runs of each module evaluate its own. Where
a type invariant is proved, the runs check what it is used for and, `Shell` and
`SfpFraming` excepted, not itself.

Only model-checked: liveness (`CatchesUp`, `EventuallyConnected`, `HostHeard`,
`SettlesIfPlain`, `ComesToRest`, `DeparturesNoticed`, `HostGetsThrough`,
`CompletionReturns`, `ReturnsOnTarget`, `ScreenCatchesUp`), which TLAPS does not
prove under fairness; and `NothingInvented` with a fault, which depends on what the
CRC of the frames at hand can tell from each other.

The provers cannot instantiate the induction theorems of the library, which take
an operator. Where a proof needs induction (the words of a line, the slots that
`rpcLoop` goes through, the octets of a frame) it is over a set of numbers, which
has a least element, or counts (`FirstSlot`); and that the recursive function of
`rpcLoop` has the values of its definition is proved first (`StepByStep` in
`Replies_proofs` and `SfpFraming_proofs`).

## 6. Not modelled, and what is left

All components with a state of their own have a module. What the modules leave
out:

- A cassette `WRITE` of no octets (`rpc.c:687`): the length of the data wraps and
  `fwrite` reads beyond the value, which is undefined.
- 64 packets or more without an answer (`serial_framing_protocol.c:209`): numbers
  would repeat. Nothing in the code excludes it; a UART without flow control
  answers long before. `Window < SEQ_RANGE` and `LapAhead` name it.
- A packet longer than `SFP_CONFIG_MAX_PACKET_SIZE` (`sfpWritePacket`): `rpcSend`
  serialises into a buffer of that size first, and `FitsBuffer` says that this is
  enough. A packet of more than 254 octets fills the receiver's buffer with its
  CRC and is forgotten each time it is sent; the longest of `rpc.c` are shorter
  (`FramingAssumption`).
- `serverStop`, which nothing calls, and the second limit of
  `serverCheckConnection`, reached 2^31 ms (24 days) after a connection began.
- The floating-point arithmetic of `fbc_pid.c`, and slew rates of less than one
  unit per period: any output, and whole units.
- `apollo.c`, a third-party animation; `auto.c`, which is empty; `API.h` and the
  PROS kernel, which are external and modelled as the code uses them.

Left to do: `Replies` on the connection of `Server`, which breaks at every write;
and what a hasty host may at most do to its packets.

------------------------------- MODULE Shell --------------------------------
(***************************************************************************)
(* The shell on the debug terminal (shell.c): the line editor, how a line  *)
(* is split into a command and its arguments, and the task that gives the  *)
(* prompt again after each command and each logout.                        *)
(*                                                                         *)
(* line holds the characters from line to p, echoed is r - line, and       *)
(* screen what the terminal shows behind the prompt.  The flags for echo   *)
(* and buffering are set, as nothing clears them.                          *)
(***************************************************************************)
EXTENDS Naturals, Sequences, FiniteSets

CONSTANTS
    SHELL_MAX_LINE_LENGTH,
    SHELL_MAX_ARGUMENTS,
    Printable,                      \* characters from 0x20, but "!"
    Space, Bracket, LetterA,        \* that mean something of their own
    ExitName, HelpName, SystimeName, ApolloName,
    NUL

ASSUME ShellAssumption ==
    /\ SHELL_MAX_LINE_LENGTH \in Nat \ {0}
    /\ SHELL_MAX_ARGUMENTS \in Nat
    /\ {Space, Bracket, LetterA} \subseteq Printable
    /\ NUL \notin Printable

\* 0xFF is -1 as a char, like EOF.  0x21 is "!", which is not echoed: like 0xC9
\* and the control characters that remain it changes nothing but the time.
EOF     == "EOF"
CTRL_D  == "CTRL_D"
BKSPACE == "BKSPACE"
CR      == "CR"
ESC     == "ESC"
IGNORED == "IGNORED"
Control == {EOF, CTRL_D, BKSPACE, CR, ESC, IGNORED}
NoKey   == "none"

Line == {s \in Seq(Printable) : Len(s) < SHELL_MAX_LINE_LENGTH}

VARIABLES
    pc,         \* what shellThread does
    typed,      \* the key that has ended apollo and is not yet read
    line, echoed, escSeq,
    history,    \* the line that was entered last
    screen,
    garbled,    \* cursor up has printed something that is not in the line;
                \* the screen is not followed any more
    split,      \* line, while it is split, with the variables of that loop
    said        \* what the command in history has come to

lineVars == <<line, echoed, escSeq, screen, garbled>>
vars == <<pc, typed, lineVars, history, split, said>>

NoSplit == [buf |-> <<>>, tokp |-> 0, cmd |-> 0, n |-> 0]

Init ==
    /\ pc = "off"
    /\ typed = NoKey
    /\ line = <<>> /\ echoed = 0 /\ escSeq = 0
    /\ history = <<>>
    /\ screen = <<>> /\ garbled = FALSE
    /\ split = NoSplit
    /\ said = "nothing"

-----------------------------------------------------------------------------
(* Splitting a line.  A pointer is an index into the buffer, NULL is 0.    *)

Least(S) == CHOOSE i \in S : \A j \in S : i <= j

EndOfString(buf, k) == Least({i \in k .. Len(buf) : buf[i] = NUL})

\* Faulty variant: spaces before the token are not skipped.
StrtokNoSkip(buf, saveptr) ==
    IF saveptr = 0 THEN [buf |-> buf, saveptr |-> 0, token |-> 0]
    ELSE LET spaces == {i \in saveptr .. EndOfString(buf, saveptr) :
                            buf[i] = Space}
             after == IF spaces = {} THEN buf
                      ELSE [buf EXCEPT ![Least(spaces)] = NUL]
         IN  [ buf |-> after,
               saveptr |-> IF spaces = {} THEN 0 ELSE Least(spaces) + 1,
               token |-> IF after[saveptr] = NUL THEN 0 ELSE saveptr ]

\* _strtok.  The delimiters " \009" are a space and, as \00 is an octal escape
\* and 9 no octal digit, the end of the string.
Strtok(buf, saveptr) ==
    IF saveptr = 0 THEN [buf |-> buf, saveptr |-> 0, token |-> 0]
    ELSE LET token == Least({i \in saveptr .. Len(buf) : buf[i] # Space})
             spaces == {i \in token .. EndOfString(buf, token) :
                            buf[i] = Space}
         IN  [ buf |-> IF spaces = {} THEN buf
                       ELSE [buf EXCEPT ![Least(spaces)] = NUL],
               saveptr |-> IF spaces = {} THEN 0 ELSE Least(spaces) + 1,
               token |-> IF buf[token] = NUL THEN 0 ELSE token ]

-----------------------------------------------------------------------------
(* shellGetLine                                                            *)

NewLine ==
    /\ line' = <<>> /\ echoed' = 0 /\ escSeq' = 0
    /\ screen' = <<>> /\ garbled' = FALSE

\* What has been typed so fast that it has not been echoed.
HeldBack == SubSeq(line, echoed + 1, Len(line))

Printed(s) == screen' = IF garbled THEN screen ELSE screen \o s

\* Bound: the user types "[" and "A" only where they may belong to "ESC [ A".
Types(c) ==
    /\ c = Bracket => escSeq = 1
    /\ c = LetterA => escSeq = 2

\* The next character is c.
Reads(c) ==
    /\ pc = "reading"
    /\ typed = c \/ (typed = NoKey /\ Types(c))
    /\ typed' = NoKey

\* It is not part of an escape sequence.
ReadsPlainly(c) ==
    /\ Reads(c)
    /\ escSeq # 2 /\ ~(escSeq = 1 /\ c = Bracket)

\* The end of the input, and CTRL D outside of "ESC [".
Logout ==
    /\ Reads(EOF) \/ ReadsPlainly(CTRL_D)
    /\ pc' = "left"
    /\ UNCHANGED <<lineVars, history, split, said>>

EscapeBegins ==
    /\ ReadsPlainly(ESC)
    /\ escSeq' = 1
    /\ UNCHANGED <<pc, line, echoed, screen, garbled, history, split, said>>

EscapeGoesOn ==
    /\ Reads(Bracket) /\ escSeq = 1
    /\ escSeq' = 2
    /\ UNCHANGED <<pc, line, echoed, screen, garbled, history, split, said>>

\* Faulty variant: the place of the terminator is used.
FittingOneMore(s) ==
    LET room == SHELL_MAX_LINE_LENGTH - Len(line)
    IN  IF Len(s) <= room THEN s ELSE SubSeq(s, 1, room)

Fitting(s) ==
    LET room == SHELL_MAX_LINE_LENGTH - 1 - Len(line)
    IN  IF Len(s) <= room THEN s ELSE SubSeq(s, 1, room)

\* Faulty variant: the line starts anew.
CursorUpReplaces ==
    /\ Reads(LetterA) /\ escSeq = 2
    /\ escSeq' = 0
    /\ line' = history
    /\ echoed' = Len(line')
    /\ garbled' = (garbled \/ screen \o history # line')
    /\ screen' = IF garbled' THEN <<>> ELSE screen \o history
    /\ UNCHANGED <<pc, history, split, said>>

\* The history is printed as a whole, and copied as far as there is room.
\* Characters held back are taken for printed.
CursorUp ==
    /\ Reads(LetterA) /\ escSeq = 2
    /\ escSeq' = 0
    /\ line' = line \o Fitting(history)
    /\ echoed' = Len(line')
    /\ garbled' = (garbled \/ screen \o history # line')
    /\ screen' = IF garbled' THEN <<>> ELSE screen \o history
    /\ UNCHANGED <<pc, history, split, said>>

EscapeEnds ==
    /\ \E c \in (Printable \cup Control) \ {EOF, LetterA} : Reads(c)
    /\ escSeq = 2
    /\ escSeq' = 0
    /\ UNCHANGED <<pc, line, echoed, screen, garbled, history, split, said>>

\* Faulty variant: the characters held back are not printed first.
BackspaceAtOnce ==
    /\ ReadsPlainly(BKSPACE)
    /\ escSeq' = 0
    /\ line # <<>>
    /\ line' = SubSeq(line, 1, Len(line) - 1)
    /\ echoed' = Len(line')
    /\ screen' = SubSeq(screen, 1, Len(screen) - 1)
    /\ UNCHANGED <<pc, garbled, history, split, said>>

Backspace ==
    /\ ReadsPlainly(BKSPACE)
    /\ escSeq' = 0
    /\ IF line = <<>> THEN UNCHANGED <<line, echoed, screen>>
       ELSE /\ line' = SubSeq(line, 1, Len(line) - 1)
            /\ echoed' = Len(line')
            /\ screen' = LET all == screen \o HeldBack
                         IN  IF garbled THEN screen
                             ELSE SubSeq(all, 1, Len(all) - 1)
    /\ UNCHANGED <<pc, garbled, history, split, said>>

\* If more than 50 ms have passed since the last character, everything is
\* printed, and else nothing is.
Character(c) ==
    /\ ReadsPlainly(c)
    /\ escSeq' = 0
    /\ IF Len(line) >= SHELL_MAX_LINE_LENGTH - 1
       THEN UNCHANGED <<line, echoed, screen>>
       ELSE /\ line' = Append(line, c)
            /\ \/ UNCHANGED <<echoed, screen>>
               \/ /\ echoed' = Len(line')
                  /\ Printed(Append(HeldBack, c))
    /\ UNCHANGED <<pc, garbled, history, split, said>>

Nothing ==
    /\ ReadsPlainly(IGNORED)
    /\ escSeq' = 0
    /\ UNCHANGED <<pc, line, echoed, screen, garbled, history, split, said>>

\* The line is printed to its end and becomes the history.
Return ==
    /\ ReadsPlainly(CR)
    /\ history' = line
    /\ pc' = "splitting"
    /\ LET lp == Strtok(Append(line, NUL), 1)
       IN  split' = [buf |-> lp.buf, tokp |-> lp.saveptr, cmd |-> lp.token,
                     n |-> 0]
    /\ NewLine
    /\ UNCHANGED said

-----------------------------------------------------------------------------
(* The task.                                                               *)

ShellStart ==
    /\ pc = "off"
    /\ pc' = "begins"
    /\ UNCHANGED <<typed, lineVars, history, split, said>>

\* shellThreadRun, at first and 50 ms after it has returned.
ShellThreadRun ==
    /\ pc \in {"begins", "left"}
    /\ pc' = "reading"
    /\ NewLine
    /\ UNCHANGED <<typed, history, split, said>>

\* The line is split into its arguments.
NextArgument ==
    LET lp == Strtok(split.buf, split.tokp)
    IN  /\ pc = "splitting" /\ lp.token # 0
        /\ IF split.n >= SHELL_MAX_ARGUMENTS
           THEN /\ said' = "too many arguments"
                /\ pc' = "reading" /\ split' = NoSplit
           ELSE /\ split' = [buf |-> lp.buf, tokp |-> lp.saveptr,
                             cmd |-> split.cmd, n |-> split.n + 1]
                /\ UNCHANGED <<pc, said>>
        /\ UNCHANGED <<typed, lineVars, history>>

\* The commands that shellThreadRun knows itself, and those of
\* shellLocalCommands and of init.c.  apollo takes no notice of arguments.
Outcome(name) ==
    CASE name \in {ExitName, HelpName, SystimeName} /\ split.n > 0 -> "usage"
      [] name = ExitName /\ split.n = 0 -> "exit"
      [] name = HelpName /\ split.n = 0 -> "list"
      [] name = SystimeName /\ split.n = 0 -> "time"
      [] name = ApolloName -> "apollo"
      [] OTHER -> "unknown"

RunCommand ==
    LET cmd == split.cmd
    IN  /\ pc = "splitting" /\ Strtok(split.buf, split.tokp).token = 0
        /\ said' = IF cmd = 0 THEN "nothing"
                   ELSE Outcome(SubSeq(split.buf, cmd,
                                       EndOfString(split.buf, cmd) - 1))
        /\ pc' = CASE said' = "exit" -> "left"
                   [] said' = "apollo" -> "apollo"
                   [] OTHER -> "reading"
        /\ split' = NoSplit
        /\ UNCHANGED <<typed, lineVars, history>>

\* cmd_apollo runs until a key is pressed; the key is read by shellGetLine.
ApolloEnds ==
    /\ pc = "apollo"
    /\ \E c \in Control \cup Printable : Types(c) /\ typed' = c
    /\ pc' = "reading"
    /\ UNCHANGED <<lineVars, history, split, said>>

GetLine ==
    \/ Logout
    \/ EscapeBegins \/ EscapeGoesOn \/ EscapeEnds \/ CursorUp
    \/ Backspace
    \/ \E c \in Printable : Character(c)
    \/ Nothing
    \/ Return

Next ==
    \/ ShellStart \/ ShellThreadRun
    \/ GetLine \/ NextArgument \/ RunCommand
    \/ ApolloEnds

Spec == Init /\ [][Next]_vars

-----------------------------------------------------------------------------
(* Properties.                                                             *)

\* No write goes past the ends of line and history, nor of what was printed.
TypeOK ==
    /\ pc \in {"off", "begins", "reading", "splitting", "apollo", "left"}
    /\ typed \in Printable \cup Control \cup {NoKey}
    /\ line \in Line /\ history \in Line
    /\ echoed \in 0 .. Len(line)
    /\ escSeq \in 0 .. 2
    /\ screen \in Seq(Printable) /\ garbled \in BOOLEAN
    /\ split.n \in 0 .. SHELL_MAX_ARGUMENTS

\* The terminal shows the line as far as it has been echoed, through all of
\* backspace, characters held back and history, unless it is garbled.
ScreenShowsLine ==
    ~garbled => screen = SubSeq(line, 1, echoed)

\* It is garbled only by a cursor up that finds characters held back (shell.c
\* assumes there are none) or a line with too little room for the history.
GarbledOnlyIf ==
    [][~garbled /\ garbled' =>
        \/ echoed < Len(line)
        \/ Len(line) + Len(history) >= SHELL_MAX_LINE_LENGTH]_vars

\* Words, without _strtok: where one begins, and how long it is.
WordAt(s, i) == s[i] # Space /\ (i = 1 \/ s[i - 1] = Space)
Words(s) == {i \in DOMAIN s : WordAt(s, i)}
WordFrom(s, i) ==
    SubSeq(s, i, Least({j \in i .. Len(s) : j = Len(s) \/ s[j + 1] = Space}))

\* A line does what its words say, wherever it has its spaces.
AsTyped ==
    LET n == Cardinality(Words(history))
        first == WordFrom(history, Least(Words(history)))
    IN  pc # "splitting" =>
        CASE said = "nothing" -> n = 0
          [] said = "too many arguments" -> n > SHELL_MAX_ARGUMENTS + 1
          [] said = "usage" ->
                /\ n \in 2 .. SHELL_MAX_ARGUMENTS + 1
                /\ first \in {ExitName, HelpName, SystimeName}
          [] said = "apollo" ->
                n \in 1 .. SHELL_MAX_ARGUMENTS + 1 /\ first = ApolloName
          [] said = "unknown" ->
                /\ n \in 1 .. SHELL_MAX_ARGUMENTS + 1
                /\ first \notin {ExitName, HelpName, SystimeName, ApolloName}
          [] OTHER ->
                /\ n = 1
                /\ first = CASE said = "exit" -> ExitName
                             [] said = "list" -> HelpName
                             [] said = "time" -> SystimeName
=============================================================================

----------------------------- MODULE Fbc_proofs -----------------------------
(***************************************************************************)
(* Proofs about Fbc for every number of controllers, tolerance, confidence *)
(* and timeout.                                                            *)
(***************************************************************************)
EXTENDS Fbc, TLAPS

Limit == AcceptableConfidence

HistoryType ==
    [ streak : [Controller -> 0 .. Limit],
      raced : [Controller -> BOOLEAN],
      still : [Controller -> 0 .. Limit + 3],
      sensed : [Controller -> Position],
      disturbed : [Controller -> BOOLEAN] ]

\* Each task may have counted once more than the limit before it resets.
Pending(t) == IF at[t] = "note" THEN 1 ELSE 0

CountBound == count <= Limit + Pending("runner") + Pending("caller")

\* A running fbcRunCompletion is at most a period late; after a delay it was in
\* time before.
Timing ==
    /\ run.timeout = 0 => run.elapsed = 0
    /\ run.elapsed <= run.timeout + 1
    /\ at["runner"] = "delay" => run.elapsed <= run.timeout
    /\ run.mode = "loop" => run.timeout = 0
    /\ at["runner"] # "idle" => run.mode # "none" /\ run.result = "none"

\* The confidence that is about to be stored was earned, too, and that of a
\* controller in the middle of a reset is 0.
Earning ==
    LET c == on["runner"]
    IN  at["runner"] = "store"
            => seen <= history.streak[c] \/ history.raced[c] \/ InCall(c)

Resetting ==
    LET c == on["caller"]
    IN  at["caller"] \in {"resense", "regoal"}
            => confidence[c] = 0 \/ history.raced[c]

\* While the detection is not used for anything else, what it counts is what is
\* to be counted, but for one.
Noting(c) == at["runner"] = "note" /\ on["runner"] = c

Counted(c) ==
    /\ history.still[c] <= count + 1
    /\ count <= history.still[c] + 1
    /\ Noting(c) \/ prev = history.sensed[c] \/ (count = 0 /\ history.still[c] = 0)
    /\ count <= IF Noting(c) THEN Limit + 1 ELSE Limit

Counting == \A c \in Controller : history.disturbed[c] \/ Counted(c)

\* The inductive invariant.
Inv ==
    /\ TypeOK
    /\ history \in HistoryType
    /\ CountBound
    /\ Timing
    /\ ResultTellsTime
    /\ ConfidenceEarned
    /\ Earning
    /\ Resetting
    /\ Counting

-----------------------------------------------------------------------------

LEMMA AtMostInRange ==
    ASSUME NEW limit \in Nat, NEW n \in Nat
    PROVE  AtMost(limit, n) \in 0 .. limit
BY DEF AtMost

LEMMA Positions ==
    /\ 0 \in Position
    /\ \A a, b \in Position : Distance(a, b) \in Nat
    /\ \A a, b \in Position : Distance(a, b) = Distance(b, a)
BY FbcAssumption DEF Position, Distance

LEMMA InvInit == Init => Inv
<1>. SUFFICES ASSUME Init PROVE Inv
  OBVIOUS
<1>1. 1 \in Controller /\ 0 \in 0 .. Limit
  BY FbcAssumption DEF Controller, Limit
<1>2. TypeOK
  BY <1>1, Positions, FbcAssumption DEF Init, TypeOK, Common, OfRunner, OfCaller, Task, Limit
<1>3. history \in HistoryType
  BY <1>1, FbcAssumption DEF Init, HistoryType, Limit
<1>4. CountBound
  BY <1>1, FbcAssumption DEF Init, CountBound, Pending, Limit, Task
<1>5. Timing /\ ResultTellsTime
  BY DEF Init, Timing, ResultTellsTime, Task
<1>6. ConfidenceEarned /\ Earning /\ Resetting
  BY DEF Init, ConfidenceEarned, Earning, Resetting, Task
<1>7. Counting
  BY <1>1, FbcAssumption DEF Init, Counting, Counted, Limit
<1>. QED
  BY <1>2, <1>3, <1>4, <1>5, <1>6, <1>7 DEF Inv

\* What StoreConfidence, ClearConfidence and the calls do to it.
Race(h, c, n, r) == [h EXCEPT !.streak[c] = n, !.raced[c] = r]

IsRaced(g, h, c, n, r) ==
    /\ g.streak = [h.streak EXCEPT ![c] = n]
    /\ g.raced = [h.raced EXCEPT ![c] = r]
    /\ g.still = h.still /\ g.sensed = h.sensed
    /\ g.disturbed = h.disturbed

LEMMA Races ==
    ASSUME NEW h \in HistoryType, NEW c \in Controller, NEW n \in 0 .. Limit,
           NEW r \in BOOLEAN,
           NEW g, g = Race(h, c, n, r)
    PROVE  g \in HistoryType /\ IsRaced(g, h, c, n, r)
<1>1. /\ g.streak = [h.streak EXCEPT ![c] = n]
      /\ g.raced = [h.raced EXCEPT ![c] = r]
      /\ g.still = h.still /\ g.sensed = h.sensed
      /\ g.disturbed = h.disturbed
  BY DEF HistoryType, Race
<1>2. g = [ streak |-> g.streak, raced |-> g.raced, still |-> g.still,
            sensed |-> g.sensed, disturbed |-> g.disturbed ]
  BY DEF HistoryType, Race
<1>3. /\ g.streak \in [Controller -> 0 .. Limit]
      /\ g.raced \in [Controller -> BOOLEAN]
      /\ g.still \in [Controller -> 0 .. Limit + 3]
      /\ g.sensed \in [Controller -> Position]
      /\ g.disturbed \in [Controller -> BOOLEAN]
  BY <1>1 DEF HistoryType
<1>4. g \in HistoryType
  BY <1>2, <1>3 DEF HistoryType
<1>. QED
  BY <1>1, <1>4 DEF IsRaced

\* What a use of the stall detection does to it.
IsWatched(w, t, c, n) ==
    /\ w.streak = history.streak /\ w.raced = history.raced
    /\ \A d \in Controller :
          /\ w.still[d] = IF t = "runner" /\ d = c THEN n ELSE history.still[d]
          /\ t = "runner" /\ d = c /\ w.disturbed[d] = FALSE
                => history.disturbed[d] = FALSE \/ (n = 0 /\ count' = 0)
          /\ t # "runner" \/ d # c => w.disturbed[d] = TRUE

LEMMA Watches ==
    ASSUME history \in HistoryType, NEW t \in Task, NEW c \in Controller,
           NEW n \in 0 .. Limit + 3, NEW w, w = Watched(t, c, n)
    PROVE  w \in HistoryType /\ w.sensed = history.sensed /\ IsWatched(w, t, c, n)
<1>1. /\ w.streak = history.streak /\ w.raced = history.raced
      /\ w.sensed = history.sensed
      /\ w.still = IF t = "runner" THEN [history.still EXCEPT ![c] = n]
                                   ELSE history.still
      /\ w.disturbed = [d \in Controller |->
            IF t = "runner" /\ d = c
            THEN history.disturbed[d] /\ ~(n = 0 /\ count' = 0) ELSE TRUE]
  BY DEF Watched, HistoryType
<1>2. w = [ streak |-> w.streak, raced |-> w.raced, still |-> w.still,
            sensed |-> w.sensed, disturbed |-> w.disturbed ]
  BY DEF Watched, HistoryType
<1>3. w.still \in [Controller -> 0 .. Limit + 3]
  BY <1>1 DEF HistoryType
<1>4. w.disturbed \in [Controller -> BOOLEAN]
  <2>1. \A d \in Controller : history.disturbed[d] \in BOOLEAN
    BY DEF HistoryType
  <2>. QED
    BY <1>1, <2>1
<1>5. /\ w.streak \in [Controller -> 0 .. Limit]
      /\ w.raced \in [Controller -> BOOLEAN]
      /\ w.sensed \in [Controller -> Position]
  BY <1>1 DEF HistoryType
<1>6. ASSUME NEW d \in Controller
      PROVE  /\ w.still[d] = IF t = "runner" /\ d = c THEN n
                                                      ELSE history.still[d]
             /\ t = "runner" /\ d = c /\ w.disturbed[d] = FALSE
                   => history.disturbed[d] = FALSE \/ (n = 0 /\ count' = 0)
             /\ t # "runner" \/ d # c => w.disturbed[d] = TRUE
  <2>1. history.disturbed[d] \in BOOLEAN
    BY DEF HistoryType
  <2>2. w.still[d] = IF t = "runner" /\ d = c THEN n ELSE history.still[d]
    BY <1>1 DEF HistoryType
  <2>. QED
    BY <1>1, <2>1, <2>2
<1>7. w \in HistoryType
  BY <1>2, <1>3, <1>4, <1>5 DEF HistoryType
<1>. QED
  BY <1>1, <1>6, <1>7 DEF IsWatched

LEMMA Notes ==
    ASSUME history \in HistoryType, NEW t \in Task, NEW c \in Controller,
           NEW n \in 0 .. Limit + 3, NEW w, w = Noted(t, c, n),
           position \in [Controller -> Position]
    PROVE  /\ w \in HistoryType /\ IsWatched(w, t, c, n)
           /\ \A d \in Controller : w.sensed[d] =
                IF t = "runner" /\ d = c THEN position[c] ELSE history.sensed[d]
<1>1. PICK v : v = Watched(t, c, n)
  OBVIOUS
<1>2. v \in HistoryType /\ v.sensed = history.sensed /\ IsWatched(v, t, c, n)
  BY <1>1, Watches
<1>3. /\ w.streak = v.streak /\ w.raced = v.raced /\ w.still = v.still
      /\ w.disturbed = v.disturbed
      /\ w.sensed = IF t = "runner" THEN [v.sensed EXCEPT ![c] = position[c]]
                                    ELSE v.sensed
      /\ w = [ streak |-> w.streak, raced |-> w.raced, still |-> w.still,
               sensed |-> w.sensed, disturbed |-> w.disturbed ]
  <2>1. w = [v EXCEPT !.sensed = IF t = "runner"
                                 THEN [@ EXCEPT ![c] = position[c]] ELSE @]
    BY <1>1 DEF Noted
  <2>. QED
    BY <1>2, <2>1 DEF HistoryType
<1>4. /\ w.sensed \in [Controller -> Position]
      /\ \A d \in Controller : w.sensed[d] =
           IF t = "runner" /\ d = c THEN position[c] ELSE history.sensed[d]
  BY <1>2, <1>3 DEF HistoryType
<1>5. w \in HistoryType
  BY <1>2, <1>3, <1>4 DEF HistoryType
<1>6. IsWatched(w, t, c, n)
  BY <1>2, <1>3 DEF IsWatched
<1>. QED
  BY <1>4, <1>5, <1>6

\* What fbcIsConfident does not touch.
LEMMA EarnedSame ==
    ASSUME Inv, NEW t \in Task, at[t] \in {"sense", "note"},
           NEW place \in {"idle", "delay", "generate", "note"},
           at' = [at EXCEPT ![t] = place],
           \A u \in Task : u # t => on'[u] = on[u],
           UNCHANGED <<confidence, seen>>,
           history'.streak = history.streak, history'.raced = history.raced
    PROVE  ConfidenceEarned' /\ Earning' /\ Resetting'
<1>1. at'["runner"] = "store" => at["runner"] = "store" /\ t # "runner"
  BY DEF Inv, TypeOK, Common, OfRunner, OfCaller, Task
<1>2. \A c \in Controller : InCall(c)' <=> InCall(c)
  BY DEF Inv, TypeOK, Common, OfRunner, OfCaller, Task, InCall
<1>3. at'["caller"] \in {"resense", "regoal"}
        => at["caller"] \in {"resense", "regoal"} /\ t # "caller"
  BY DEF Inv, TypeOK, Common, OfRunner, OfCaller, Task
<1>4. ConfidenceEarned'
  BY <1>2 DEF Inv, ConfidenceEarned
<1>5. Earning'
  BY <1>1, <1>2 DEF Inv, Earning, Task, TypeOK
<1>6. Resetting'
  BY <1>3 DEF Inv, Resetting, Task
<1>. QED
  BY <1>4, <1>5, <1>6

RunType ==
    [mode : {"none", "completion", "loop"}, timeout : 0 .. MaxTimeout,
     elapsed : 0 .. MaxTimeout + 1, last : {FBC_STALL, 0, 1},
     result : {"none", "true", "false"}]

\* A return from it.
LEMMA ReturnsKeeps ==
    ASSUME Inv, NEW t \in Task, at[t] \in {"sense", "note"},
           NEW answer \in {FBC_STALL, 0, 1}, Returns(t, answer)
    PROVE  /\ \E place \in {"idle", "delay", "generate"} :
                 /\ at' = [at EXCEPT ![t] = place]
                 /\ t = "caller" => place = "idle"
           /\ on' \in [Task -> Controller] /\ sure' \in [Task -> BOOLEAN]
           /\ \A u \in Task : u # t => on'[u] = on[u]
           /\ run' \in RunType
           /\ Timing' /\ ResultTellsTime'
<1>0. sure' \in [Task -> BOOLEAN] /\ run \in RunType /\ on \in [Task -> Controller]
  BY DEF Inv, TypeOK, Returns, RunType
<1>1. CASE t = "caller"
  BY <1>0, <1>1 DEF Returns, Goes, Inv, TypeOK, Common, OfRunner, OfCaller, Task, Timing, ResultTellsTime
<1>2. CASE t = "runner" /\ run.mode = "completion"
  <2>. DEFINE left == HasTime(run.timeout, run.elapsed)
              ends == answer # 0 \/ ~left
              place == IF ends THEN "idle" ELSE "delay"
              result == CASE ~ends -> run.result
                          [] ends /\ left -> "true"
                          [] ends /\ ~left -> "false"
  <2>1. /\ run' = [run EXCEPT !.last = answer, !.result = result]
        /\ at' = [at EXCEPT !["runner"] = place]
        /\ on' = on
    BY <1>2 DEF Returns, CompletionGoesOn, Goes
  <2>2. result \in {"none", "true", "false"}
    BY <1>0 DEF RunType
  <2>3. run' \in RunType /\ run'.last = answer /\ run'.result = result
        /\ run'.timeout = run.timeout /\ run'.elapsed = run.elapsed
        /\ run'.mode = run.mode
    <3>. HIDE DEF result
    <3>. QED
      BY <1>0, <2>1, <2>2 DEF RunType
  <2>4. at'["runner"] = place /\ at["runner"] # "idle"
    BY <1>2, <2>1 DEF Inv, TypeOK, Common, OfRunner, OfCaller, Task
  <2>5. ResultTellsTime'
    BY <1>0, <2>3, <2>4, <1>2 DEF Inv, Timing, ResultTellsTime, HasTime, RunType
  <2>6. Timing'
    BY <1>0, <2>3, <2>4, <1>2 DEF Inv, Timing, HasTime, RunType
  <2>. QED
    BY <1>0, <1>2, <2>1, <2>3, <2>5, <2>6 DEF Task
<1>3. CASE t = "runner" /\ run.mode = "loop"
  <2>1. run' = run
    BY <1>3 DEF Returns, LoopGoesOn
  <2>2. PICK place \in {"delay", "generate"} :
              at' = [at EXCEPT !["runner"] = place]
    BY <1>3 DEF Returns, LoopGoesOn, Goes
  <2>3. /\ on' \in [Task -> Controller]
        /\ on'["caller"] = on["caller"]
    BY <1>0, <1>3, FbcAssumption DEF Returns, LoopGoesOn, Task, Controller
  <2>4. at'["runner"] = place /\ at["runner"] # "idle"
    BY <1>3, <2>2 DEF Inv, TypeOK, Common, OfRunner, OfCaller, Task
  <2>5. Timing' /\ ResultTellsTime'
    BY <1>0, <1>3, <2>1, <2>4 DEF Inv, Timing, ResultTellsTime, RunType
  <2>. QED
    BY <1>0, <1>3, <2>1, <2>2, <2>3, <2>5 DEF Task
<1>. QED
  BY <1>1, <1>2, <1>3 DEF Returns, Task

-----------------------------------------------------------------------------
(* Every step keeps the invariant, part by part.                           *)

LEMMA GenerateStep == Inv /\ Generate => Inv'
<1>. SUFFICES ASSUME Inv, Generate PROVE Inv'
  OBVIOUS
<1>. USE FbcAssumption DEF Inv, Generate, Goes, fbc, detector
<1>2. TypeOK'
  BY DEF TypeOK, Common, OfRunner, OfCaller, Task
<1>3. (history \in HistoryType)'
  OBVIOUS
<1>4. CountBound'
  BY DEF CountBound, Pending, TypeOK, Common, OfRunner, OfCaller, Task
<1>5. Timing' /\ ResultTellsTime'
  BY DEF Timing, ResultTellsTime, TypeOK, Common, OfRunner, OfCaller, Task
<1>6. ConfidenceEarned' /\ Earning' /\ Resetting'
  BY DEF ConfidenceEarned, Earning, Resetting, TypeOK, Common, OfRunner, OfCaller, Task, InCall
<1>7. Counting'
  BY DEF Counting, Counted, Noting, TypeOK, Common, OfRunner, OfCaller, Task
<1>. QED
  BY <1>2, <1>3, <1>4, <1>5, <1>6, <1>7

LEMMA LoadStep == Inv /\ LoadConfidence => Inv'
<1>. SUFFICES ASSUME Inv, LoadConfidence PROVE Inv'
  OBVIOUS
<1>. USE FbcAssumption DEF Inv, LoadConfidence, Goes, fbc, detector
<1>2. TypeOK'
  BY DEF TypeOK, Common, OfRunner, OfCaller, Task
<1>3. (history \in HistoryType)'
  OBVIOUS
<1>4. CountBound'
  BY DEF CountBound, Pending, TypeOK, Common, OfRunner, OfCaller, Task
<1>5. Timing' /\ ResultTellsTime'
  BY DEF Timing, ResultTellsTime, TypeOK, Common, OfRunner, OfCaller, Task
<1>6. ConfidenceEarned' /\ Earning' /\ Resetting'
  BY DEF ConfidenceEarned, Earning, Resetting, TypeOK, Common, OfRunner, OfCaller, Task, InCall
<1>7. Counting'
  BY DEF Counting, Counted, Noting, TypeOK, Common, OfRunner, OfCaller, Task
<1>. QED
  BY <1>2, <1>3, <1>4, <1>5, <1>6, <1>7

LEMMA StoreStep == Inv /\ StoreConfidence => Inv'
<1>. SUFFICES ASSUME Inv, StoreConfidence PROVE Inv'
  OBVIOUS
<1>. USE FbcAssumption DEF Inv, StoreConfidence, AtMost, Goes, fbc, detector
<1>. DEFINE c == on["runner"]
           n == AtMost(Limit, history.streak[c] + 1)
           r == history.raced[c] \/ InCall(c)
<1>1. history' \in HistoryType /\ IsRaced(history', history, c, n, r)
  <2>1. n \in 0 .. Limit /\ r \in BOOLEAN /\ c \in Controller
    BY DEF TypeOK, HistoryType, Task, Limit, AtMost, InIteration, InCall
  <2>2. history' = Race(history, c, n, r)
    BY DEF Forgotten, HistoryType, Limit, Race
  <2>. HIDE DEF n, r
  <2>. QED
    BY <2>1, <2>2, Races
<1>2. TypeOK'
  BY DEF TypeOK, Common, OfRunner, OfCaller, Task
<1>3. (history \in HistoryType)'
  BY <1>1
<1>4. CountBound'
  BY DEF CountBound, Pending, TypeOK, Common, OfRunner, OfCaller, Task
<1>5. Timing' /\ ResultTellsTime'
  BY DEF Timing, ResultTellsTime, TypeOK, Common, OfRunner, OfCaller, Task
<1>6. ConfidenceEarned' /\ Earning' /\ Resetting'
  <2>1. \A d \in Controller : InCall(d)' <=> InCall(d)
    BY DEF TypeOK, Task, InCall
  <2>2. ASSUME NEW d \in Controller
        PROVE  confidence'[d] <= history'.streak[d] \/ history'.raced[d]
                    \/ InCall(d)
    <3>1. CASE d = c
      BY <1>1, <3>1 DEF IsRaced, Earning, TypeOK, HistoryType, Limit
    <3>2. CASE d # c
      BY <1>1, <3>2 DEF IsRaced, ConfidenceEarned, TypeOK, HistoryType, Limit
    <3>. QED
      BY <3>1, <3>2
  <2>3. Earning'
    BY DEF Earning, TypeOK, Task
  <2>4. Resetting'
    BY <1>1 DEF IsRaced, Resetting, TypeOK, Common, OfRunner, OfCaller, Task, HistoryType, InCall
  <2>. QED
    BY <2>1, <2>2, <2>3, <2>4 DEF ConfidenceEarned
<1>7. Counting'
  BY <1>1 DEF IsRaced, Counting, Counted, Noting, TypeOK, Common, OfRunner, OfCaller, Task
<1>. QED
  BY <1>2, <1>3, <1>4, <1>5, <1>6, <1>7

LEMMA ClearStep == Inv /\ ClearConfidence => Inv'
<1>. SUFFICES ASSUME Inv, ClearConfidence PROVE Inv'
  OBVIOUS
<1>. USE FbcAssumption DEF Inv, ClearConfidence, Forgotten, Goes, fbc, detector
<1>. DEFINE c == on["runner"]
           n == 0
           r == FALSE
<1>1. history' \in HistoryType /\ IsRaced(history', history, c, n, r)
  <2>1. n \in 0 .. Limit /\ r \in BOOLEAN /\ c \in Controller
    BY DEF TypeOK, HistoryType, Task, Limit, AtMost, InIteration, InCall
  <2>2. history' = Race(history, c, n, r)
    BY DEF Forgotten, HistoryType, Limit, Race
  <2>. HIDE DEF n, r
  <2>. QED
    BY <2>1, <2>2, Races
<1>2. TypeOK'
  BY DEF TypeOK, Common, OfRunner, OfCaller, Task
<1>3. (history \in HistoryType)'
  BY <1>1
<1>4. CountBound'
  BY DEF CountBound, Pending, TypeOK, Common, OfRunner, OfCaller, Task
<1>5. Timing' /\ ResultTellsTime'
  BY DEF Timing, ResultTellsTime, TypeOK, Common, OfRunner, OfCaller, Task
<1>6. ConfidenceEarned' /\ Earning' /\ Resetting'
  BY <1>1 DEF IsRaced, ConfidenceEarned, Earning, Resetting, TypeOK, Common, OfRunner, OfCaller, Task, InCall, HistoryType, Limit
<1>7. Counting'
  BY <1>1 DEF IsRaced, Counting, Counted, Noting, TypeOK, Common, OfRunner, OfCaller, Task
<1>. QED
  BY <1>2, <1>3, <1>4, <1>5, <1>6, <1>7

LEMMA MoveStep == Inv /\ MoveOutput => Inv'
<1>. SUFFICES ASSUME Inv, MoveOutput PROVE Inv'
  OBVIOUS
<1>. USE FbcAssumption DEF Inv, MoveOutput, Goes, fbc, detector
<1>2. TypeOK'
  BY DEF TypeOK, Common, OfRunner, OfCaller, Task
<1>3. (history \in HistoryType)'
  OBVIOUS
<1>4. CountBound'
  BY DEF CountBound, Pending, TypeOK, Common, OfRunner, OfCaller, Task
<1>5. Timing' /\ ResultTellsTime'
  BY DEF Timing, ResultTellsTime, TypeOK, Common, OfRunner, OfCaller, Task
<1>6. ConfidenceEarned' /\ Earning' /\ Resetting'
  BY DEF ConfidenceEarned, Earning, Resetting, TypeOK, Common, OfRunner, OfCaller, Task, InCall
<1>7. Counting'
  BY DEF Counting, Counted, Noting, TypeOK, Common, OfRunner, OfCaller, Task
<1>. QED
  BY <1>2, <1>3, <1>4, <1>5, <1>6, <1>7

LEMMA DelayStep == Inv /\ Delay => Inv'
<1>. SUFFICES ASSUME Inv, Delay PROVE Inv'
  OBVIOUS
<1>. USE FbcAssumption DEF Inv, Delay, Goes, fbc, detector
<1>2. TypeOK'
  <2>1. run' \in RunType
    BY DEF TypeOK, Timing, RunType
  <2>. QED
    BY <2>1 DEF TypeOK, Common, OfRunner, OfCaller, Task, RunType
<1>3. (history \in HistoryType)'
  OBVIOUS
<1>4. CountBound'
  BY DEF CountBound, Pending, TypeOK, Common, OfRunner, OfCaller, Task
<1>5. Timing' /\ ResultTellsTime'
  BY DEF Timing, ResultTellsTime, TypeOK, Common, OfRunner, OfCaller, Task
<1>6. ConfidenceEarned' /\ Earning' /\ Resetting'
  BY DEF ConfidenceEarned, Earning, Resetting, TypeOK, Common, OfRunner, OfCaller, Task, InCall
<1>7. Counting'
  BY DEF Counting, Counted, Noting, TypeOK, Common, OfRunner, OfCaller, Task
<1>. QED
  BY <1>2, <1>3, <1>4, <1>5, <1>6, <1>7

LEMMA AskConfidenceStep ==
    ASSUME NEW t \in Task, Inv, AskConfidence(t)
    PROVE  Inv'
<1>. USE FbcAssumption DEF Inv, AskConfidence, Goes, fbc, detector
<1>2. TypeOK'
  BY DEF TypeOK, Common, OfRunner, OfCaller, Task
<1>3. (history \in HistoryType)'
  OBVIOUS
<1>4. CountBound'
  BY DEF CountBound, Pending, TypeOK, Common, OfRunner, OfCaller, Task
<1>5. Timing' /\ ResultTellsTime'
  BY DEF Timing, ResultTellsTime, TypeOK, Common, OfRunner, OfCaller, Task
<1>6. ConfidenceEarned' /\ Earning' /\ Resetting'
  BY DEF ConfidenceEarned, Earning, Resetting, TypeOK, Common, OfRunner, OfCaller, Task, InCall
<1>7. Counting'
  BY DEF Counting, Counted, Noting, TypeOK, Common, OfRunner, OfCaller, Task
<1>. QED
  BY <1>2, <1>3, <1>4, <1>5, <1>6, <1>7

LEMMA DoNotCountStep ==
    ASSUME NEW t \in Task, Inv, DoNotCount(t)
    PROVE  Inv'
<1>. DEFINE c == on[t]
<1>0. /\ c \in Controller /\ history \in HistoryType
      /\ position \in [Controller -> Position]
      /\ at[t] = "sense" /\ Answer(t) \in {FBC_STALL, 0, 1} /\ Returns(t, Answer(t))
      /\ count' = 0 /\ UNCHANGED <<fbc, position, prev, seen>>
      /\ history' = Noted(t, c, 0)
  BY DEF DoNotCount, Answer, Inv, TypeOK
<1>1. /\ history' \in HistoryType /\ IsWatched(history', t, c, 0)
      /\ \A d \in Controller : history'.sensed[d] =
           IF t = "runner" /\ d = c THEN position[c] ELSE history.sensed[d]
  <2>1. 0 \in 0 .. Limit + 3
    BY FbcAssumption DEF Limit
  <2>. HIDE DEF c
  <2>. QED
    BY <1>0, <2>1, Notes
<1>. USE FbcAssumption DEF Inv
<1>3. /\ on' \in [Task -> Controller] /\ sure' \in [Task -> BOOLEAN]
      /\ \A u \in Task : u # t => on'[u] = on[u]
      /\ run' \in RunType
      /\ Timing' /\ ResultTellsTime'
  BY <1>0, ReturnsKeeps
<1>4. PICK place \in {"idle", "delay", "generate"} :
            at' = [at EXCEPT ![t] = place] /\ (t = "caller" => place = "idle")
  BY <1>0, ReturnsKeeps
<1>5. TypeOK'
  BY <1>0, <1>3, <1>4 DEF TypeOK, Common, OfRunner, OfCaller, Task, RunType, fbc
<1>6. CountBound'
  BY <1>0, <1>4 DEF CountBound, Pending, TypeOK, Common, OfRunner, OfCaller, Task, Limit
<1>7. ConfidenceEarned' /\ Earning' /\ Resetting'
  BY <1>0, <1>1, <1>3, <1>4, EarnedSame DEF IsWatched, fbc
<1>8. Counting'
  BY <1>0, <1>1 DEF IsWatched, Counting, Counted, Noting, HistoryType, Limit
<1>. QED
  BY <1>1, <1>3, <1>5, <1>6, <1>7, <1>8

LEMMA CountStillStep ==
    ASSUME NEW t \in Task, Inv, CountStill(t)
    PROVE  Inv'
<1>. DEFINE c == on[t]
           moved(before) == ~(Distance(position[c], before) < MinStuck)
           n == AtMost(Limit + 3, IF moved(history.sensed[c]) THEN 0
                                  ELSE history.still[c] + 1)
<1>0. /\ c \in Controller /\ history \in HistoryType
      /\ at[t] = "sense" /\ at' = [at EXCEPT ![t] = "note"]
      /\ count' = IF moved(prev) THEN 0 ELSE count + 1
      /\ UNCHANGED <<fbc, position, prev, on, sure, seen, run>>
      /\ history' = Watched(t, c, n)
  BY DEF CountStill, Goes, Inv, TypeOK, Limit
<1>1. /\ history' \in HistoryType /\ IsWatched(history', t, c, n)
      /\ history'.sensed = history.sensed
  <2>1. n \in 0 .. Limit + 3
    BY <1>0, FbcAssumption DEF Limit, HistoryType, AtMost
  <2>. HIDE DEF c, n
  <2>. QED
    BY <1>0, <2>1, Watches
<1>. USE FbcAssumption DEF Inv
<1>2. Pending(t) = 0 /\ Pending(t)' = 1
      /\ \A u \in Task : u # t => Pending(u)' = Pending(u) /\ Pending(u) \in 0 .. 1
  BY <1>0 DEF Pending, TypeOK, Common, OfRunner, OfCaller, Task
<1>3. CountBound' /\ count' \in 0 .. Limit + 2
  BY <1>0, <1>2 DEF CountBound, TypeOK, Limit, Task
<1>4. TypeOK'
  BY <1>0, <1>3 DEF TypeOK, Common, OfRunner, OfCaller, Task, fbc, Limit
<1>5. Timing' /\ ResultTellsTime'
  BY <1>0 DEF Timing, ResultTellsTime, TypeOK, Common, OfRunner, OfCaller, Task
<1>6. ConfidenceEarned' /\ Earning' /\ Resetting'
  BY <1>0, <1>1, EarnedSame DEF IsWatched, fbc
<1>7. Counting'
  <2>. SUFFICES ASSUME NEW d \in Controller, history'.disturbed[d] = FALSE
                PROVE  Counted(d)'
    BY <1>1 DEF Counting, HistoryType
  <2>1. t = "runner" /\ d = c /\ history'.still[c] = n
    BY <1>1 DEF IsWatched
  <2>2. Noting(d)' /\ Noting(c)' /\ ~Noting(c)
    BY <1>0, <2>1 DEF Noting, TypeOK, Common, OfRunner, OfCaller, Task
  <2>3. history.disturbed[c] = FALSE \/ (n = 0 /\ count' = 0)
    BY <1>1, <2>1 DEF IsWatched
  <2>4. CASE n = 0 /\ count' = 0
    BY <2>1, <2>4 DEF Counted, Limit
  <2>5. CASE history.disturbed[c] = FALSE
    <3>1. Counted(c)
      BY <1>0, <2>5 DEF Counting
    <3>2. count \in Nat /\ history.still[c] \in Nat
      BY <1>0 DEF TypeOK, HistoryType, Limit
    <3>3. count <= Limit /\ history.still[c] <= count + 1 /\ count <= history.still[c] + 1
      BY <2>2, <3>1, <3>2 DEF Counted
    <3>4. n = IF moved(history.sensed[c]) THEN 0 ELSE history.still[c] + 1
      BY <3>2, <3>3 DEF AtMost, Limit
    <3>5. prev = history.sensed[c] \/ (count = 0 /\ history.still[c] = 0)
      BY <2>2, <3>1 DEF Counted
    <3>. HIDE DEF n, moved
    <3>6. n <= count' + 1 /\ count' <= n + 1 /\ count' <= Limit + 1
      BY <1>0, <3>2, <3>3, <3>4, <3>5 DEF Limit
    <3>. QED
      BY <2>1, <2>2, <3>6 DEF Counted
  <2>. QED
    BY <2>3, <2>4, <2>5
<1>. QED
  BY <1>1, <1>3, <1>4, <1>5, <1>6, <1>7

LEMMA NoteStillStep ==
    ASSUME NEW t \in Task, Inv, NoteStill(t)
    PROVE  Inv'
<1>. DEFINE c == on[t]
           stall == count > Limit
           n == IF stall THEN 0 ELSE history.still[c]
           answer == IF stall THEN FBC_STALL ELSE Answer(t)
<1>0. /\ c \in Controller /\ history \in HistoryType
      /\ position \in [Controller -> Position]
      /\ at[t] = "note" /\ answer \in {FBC_STALL, 0, 1} /\ Returns(t, answer)
      /\ prev' = (IF stall THEN 0 ELSE position[c])
      /\ count' = (IF stall THEN 0 ELSE count)
      /\ UNCHANGED <<fbc, position, seen>>
      /\ history' = Noted(t, c, n)
  BY DEF NoteStill, Answer, Inv, TypeOK, Limit
<1>1. /\ history' \in HistoryType /\ IsWatched(history', t, c, n)
      /\ \A d \in Controller : history'.sensed[d] =
           IF t = "runner" /\ d = c THEN position[c] ELSE history.sensed[d]
  <2>1. n \in 0 .. Limit + 3
    BY <1>0, FbcAssumption DEF Limit, HistoryType
  <2>. HIDE DEF c, n
  <2>. QED
    BY <1>0, <2>1, Notes
<1>2. prev' \in Position /\ count' \in 0 .. Limit
  BY <1>0, Positions, FbcAssumption DEF Inv, TypeOK, Limit
<1>. USE FbcAssumption DEF Inv
<1>3. /\ on' \in [Task -> Controller] /\ sure' \in [Task -> BOOLEAN]
      /\ \A u \in Task : u # t => on'[u] = on[u]
      /\ run' \in RunType
      /\ Timing' /\ ResultTellsTime'
  BY <1>0, ReturnsKeeps
<1>4. PICK place \in {"idle", "delay", "generate"} :
            at' = [at EXCEPT ![t] = place] /\ (t = "caller" => place = "idle")
  BY <1>0, ReturnsKeeps
<1>5. TypeOK'
  BY <1>0, <1>2, <1>3, <1>4 DEF Limit, TypeOK, Common, OfRunner, OfCaller, Task, RunType, fbc
<1>6. CountBound'
  BY <1>2, <1>4 DEF CountBound, Pending, TypeOK, Common, OfRunner, OfCaller, Task, Limit
<1>7. ConfidenceEarned' /\ Earning' /\ Resetting'
  BY <1>0, <1>1, <1>3, <1>4, EarnedSame DEF IsWatched, fbc
<1>8. Counting'
  <2>. SUFFICES ASSUME NEW d \in Controller, history'.disturbed[d] = FALSE
                PROVE  Counted(d)'
    BY <1>1 DEF Counting, HistoryType
  <2>1. t = "runner" /\ d = c /\ history'.still[c] = n
    BY <1>1 DEF IsWatched
  <2>2. history'.sensed[c] = position[c]
    BY <1>0, <1>1, <2>1
  <2>3. history.disturbed[c] = FALSE \/ (n = 0 /\ count' = 0)
    BY <1>1, <2>1 DEF IsWatched
  <2>4. CASE n = 0 /\ count' = 0
    BY <2>1, <2>4 DEF Counted, Limit
  <2>5. CASE ~stall /\ history.disturbed[c] = FALSE
    <3>1. Counted(c)
      BY <1>0, <2>5 DEF Counting
    <3>. QED
      BY <1>0, <2>1, <2>2, <2>5, <3>1 DEF Counted, TypeOK, HistoryType, Limit
  <2>. QED
    BY <1>0, <2>3, <2>4, <2>5
<1>. QED
  BY <1>1, <1>3, <1>5, <1>6, <1>7, <1>8

LEMMA RunCompletionStep ==
    ASSUME NEW c \in Controller, NEW timeout \in 0 .. MaxTimeout,
           Inv, RunCompletion(c, timeout)
    PROVE  Inv'
<1>. USE FbcAssumption DEF Inv, RunCompletion, Starts, Goes, fbc, detector
<1>2. TypeOK'
  BY DEF TypeOK, Common, OfRunner, OfCaller, Task
<1>3. (history \in HistoryType)'
  OBVIOUS
<1>4. CountBound'
  BY DEF CountBound, Pending, TypeOK, Common, OfRunner, OfCaller, Task
<1>5. Timing' /\ ResultTellsTime'
  BY DEF Timing, ResultTellsTime, TypeOK, Common, OfRunner, OfCaller, Task
<1>6. ConfidenceEarned' /\ Earning' /\ Resetting'
  BY DEF ConfidenceEarned, Earning, Resetting, TypeOK, Common, OfRunner, OfCaller, Task, InCall
<1>7. Counting'
  BY DEF Counting, Counted, Noting, TypeOK, Common, OfRunner, OfCaller, Task
<1>. QED
  BY <1>2, <1>3, <1>4, <1>5, <1>6, <1>7

LEMMA RunAllStep == Inv /\ RunAll => Inv'
<1>. SUFFICES ASSUME Inv, RunAll PROVE Inv'
  OBVIOUS
<1>. USE FbcAssumption DEF Inv, RunAll, Starts, Goes, fbc, detector
<1>2. TypeOK'
  BY DEF TypeOK, Common, OfRunner, OfCaller, Task, Controller
<1>3. (history \in HistoryType)'
  OBVIOUS
<1>4. CountBound'
  BY DEF CountBound, Pending, TypeOK, Common, OfRunner, OfCaller, Task
<1>5. Timing' /\ ResultTellsTime'
  BY DEF Timing, ResultTellsTime, TypeOK, Common, OfRunner, OfCaller, Task
<1>6. ConfidenceEarned' /\ Earning' /\ Resetting'
  BY DEF ConfidenceEarned, Earning, Resetting, TypeOK, Common, OfRunner, OfCaller, Task, InCall
<1>7. Counting'
  BY DEF Counting, Counted, Noting, TypeOK, Common, OfRunner, OfCaller, Task
<1>. QED
  BY <1>2, <1>3, <1>4, <1>5, <1>6, <1>7

LEMMA SetGoalStep ==
    ASSUME NEW c \in Controller, NEW g \in Position,
           Inv, SetGoal(c, g)
    PROVE  Inv'
<1>. USE FbcAssumption DEF Inv, SetGoal, Begins, InIteration, Goes, fbc, detector
<1>. DEFINE n == 0
           r == history.raced[c] \/ InIteration(c)
<1>1. history' \in HistoryType /\ IsRaced(history', history, c, n, r)
  <2>1. n \in 0 .. Limit /\ r \in BOOLEAN /\ c \in Controller
    BY DEF TypeOK, HistoryType, Task, Limit, AtMost, InIteration, InCall
  <2>2. history' = Race(history, c, n, r)
    BY DEF Forgotten, HistoryType, Limit, Race
  <2>. HIDE DEF n, r
  <2>. QED
    BY <2>1, <2>2, Races
<1>2. TypeOK'
  BY DEF TypeOK, Common, OfRunner, OfCaller, Task
<1>3. (history \in HistoryType)'
  BY <1>1
<1>4. CountBound'
  BY DEF CountBound, Pending, TypeOK, Common, OfRunner, OfCaller, Task
<1>5. Timing' /\ ResultTellsTime'
  BY DEF Timing, ResultTellsTime, TypeOK, Common, OfRunner, OfCaller, Task
<1>6. ConfidenceEarned' /\ Earning' /\ Resetting'
  BY <1>1 DEF IsRaced, ConfidenceEarned, Earning, Resetting, TypeOK, Common, OfRunner, OfCaller, Task, InCall
<1>7. Counting'
  BY <1>1 DEF IsRaced, Counting, Counted, Noting, TypeOK, Common, OfRunner, OfCaller, Task
<1>. QED
  BY <1>2, <1>3, <1>4, <1>5, <1>6, <1>7

LEMMA ForgetStep == Inv /\ ForgetConfidence => Inv'
<1>. SUFFICES ASSUME Inv, ForgetConfidence PROVE Inv'
  OBVIOUS
<1>. USE FbcAssumption DEF Inv, ForgetConfidence, Forgotten, InIteration, Goes, fbc, detector
<1>. DEFINE c == on["caller"]
           n == history.streak[c]
           r == InIteration(c)
<1>1. history' \in HistoryType /\ IsRaced(history', history, c, n, r)
  <2>1. n \in 0 .. Limit /\ r \in BOOLEAN /\ c \in Controller
    BY DEF TypeOK, HistoryType, Task, Limit, AtMost, InIteration, InCall
  <2>2. history' = Race(history, c, n, r)
    BY DEF Forgotten, HistoryType, Limit, Race
  <2>. HIDE DEF n, r
  <2>. QED
    BY <2>1, <2>2, Races
<1>2. TypeOK'
  BY DEF TypeOK, Common, OfRunner, OfCaller, Task
<1>3. (history \in HistoryType)'
  BY DEF HistoryType
<1>4. CountBound'
  BY DEF CountBound, Pending, TypeOK, Common, OfRunner, OfCaller, Task
<1>5. Timing' /\ ResultTellsTime'
  BY DEF Timing, ResultTellsTime, TypeOK, Common, OfRunner, OfCaller, Task
<1>6. ConfidenceEarned' /\ Earning' /\ Resetting'
  BY <1>1 DEF IsRaced, ConfidenceEarned, Earning, Resetting, TypeOK, Common, OfRunner, OfCaller, Task, InCall, HistoryType, Limit
<1>7. Counting'
  BY <1>1 DEF IsRaced, Counting, Counted, Noting, TypeOK, Common, OfRunner, OfCaller, Task
<1>. QED
  BY <1>2, <1>3, <1>4, <1>5, <1>6, <1>7

LEMMA ResetStep ==
    ASSUME NEW c \in Controller, Inv, Reset(c)
    PROVE  Inv'
<1>. USE FbcAssumption DEF Inv, Reset, Begins, Forgotten, InIteration, Goes, fbc, detector
<1>2. TypeOK'
  BY DEF TypeOK, Common, OfRunner, OfCaller, Task
<1>3. (history \in HistoryType)'
  BY DEF HistoryType
<1>4. CountBound'
  BY DEF CountBound, Pending, TypeOK, Common, OfRunner, OfCaller, Task
<1>5. Timing' /\ ResultTellsTime'
  BY DEF Timing, ResultTellsTime, TypeOK, Common, OfRunner, OfCaller, Task
<1>6. ConfidenceEarned' /\ Earning' /\ Resetting'
  BY DEF ConfidenceEarned, Earning, Resetting, TypeOK, Common, OfRunner, OfCaller, Task, InCall
<1>7. Counting'
  BY DEF Counting, Counted, Noting, TypeOK, Common, OfRunner, OfCaller, Task
<1>. QED
  BY <1>2, <1>3, <1>4, <1>5, <1>6, <1>7

LEMMA ResetSenseStep == Inv /\ ResetSense => Inv'
<1>. SUFFICES ASSUME Inv, ResetSense PROVE Inv'
  OBVIOUS
<1>. USE FbcAssumption DEF Inv, ResetSense, Goes, fbc, detector
<1>2. TypeOK'
  BY Positions DEF TypeOK, Common, OfRunner, OfCaller, Task
<1>3. (history \in HistoryType)'
  OBVIOUS
<1>4. CountBound'
  BY DEF CountBound, Pending, TypeOK, Common, OfRunner, OfCaller, Task
<1>5. Timing' /\ ResultTellsTime'
  BY DEF Timing, ResultTellsTime, TypeOK, Common, OfRunner, OfCaller, Task
<1>6. ConfidenceEarned' /\ Earning' /\ Resetting'
  BY DEF ConfidenceEarned, Earning, Resetting, TypeOK, Common, OfRunner, OfCaller, Task, InCall
<1>7. Counting'
  BY DEF Counting, Counted, Noting, TypeOK, Common, OfRunner, OfCaller, Task
<1>. QED
  BY <1>2, <1>3, <1>4, <1>5, <1>6, <1>7

LEMMA ResetGoalStep == Inv /\ ResetGoal => Inv'
<1>. SUFFICES ASSUME Inv, ResetGoal PROVE Inv'
  OBVIOUS
<1>. USE FbcAssumption DEF Inv, ResetGoal, InIteration, Goes, fbc, detector
<1>. DEFINE c == on["caller"]
           n == 0
           r == history.raced[c] \/ InIteration(c)
<1>1. history' \in HistoryType /\ IsRaced(history', history, c, n, r)
  <2>1. n \in 0 .. Limit /\ r \in BOOLEAN /\ c \in Controller
    BY DEF TypeOK, HistoryType, Task, Limit, AtMost, InIteration, InCall
  <2>2. history' = Race(history, c, n, r)
    BY DEF Forgotten, HistoryType, Limit, Race
  <2>. HIDE DEF n, r
  <2>. QED
    BY <2>1, <2>2, Races
<1>2. TypeOK'
  BY Positions DEF TypeOK, Common, OfRunner, OfCaller, Task
<1>3. (history \in HistoryType)'
  BY <1>1
<1>4. CountBound'
  BY DEF CountBound, Pending, TypeOK, Common, OfRunner, OfCaller, Task
<1>5. Timing' /\ ResultTellsTime'
  BY DEF Timing, ResultTellsTime, TypeOK, Common, OfRunner, OfCaller, Task
<1>6. ConfidenceEarned' /\ Earning' /\ Resetting'
  <2>1. c \in Controller /\ at["caller"] = "regoal" /\ at'["caller"] = "idle"
        /\ UNCHANGED <<confidence, on, seen>> /\ at'["runner"] = at["runner"]
    BY DEF TypeOK, Common, OfRunner, OfCaller, Task
  <2>2. \A d \in Controller : d # c => ~InCall(d)
    BY DEF InCall
  <2>3. at["runner"] = "store" => InIteration(on["runner"])
    BY DEF InIteration
  <2>4. ASSUME NEW d \in Controller
        PROVE  confidence'[d] <= history'.streak[d] \/ history'.raced[d]
    <3>1. CASE d = c
      BY <1>1, <2>1, <3>1 DEF IsRaced, Resetting, TypeOK, HistoryType, Limit
    <3>2. CASE d # c
      BY <1>1, <2>1, <2>2, <3>2 DEF IsRaced, ConfidenceEarned, TypeOK, HistoryType, Limit
    <3>. QED
      BY <3>1, <3>2
  <2>5. ASSUME at'["runner"] = "store"
        PROVE  seen <= history'.streak[on["runner"]] \/ history'.raced[on["runner"]]
    <3>1. on["runner"] \in Controller
      BY DEF TypeOK, Task
    <3>2. CASE on["runner"] = c
      BY <1>1, <2>1, <2>3, <2>5, <3>2 DEF IsRaced, HistoryType
    <3>3. CASE on["runner"] # c
      BY <1>1, <2>1, <2>2, <2>5, <3>1, <3>3 DEF IsRaced, Earning, HistoryType
    <3>. QED
      BY <3>2, <3>3
  <2>. QED
    BY <2>1, <2>4, <2>5 DEF ConfidenceEarned, Earning, Resetting
<1>7. Counting'
  BY <1>1 DEF IsRaced, Counting, Counted, Noting, TypeOK, Common, OfRunner, OfCaller, Task
<1>. QED
  BY <1>2, <1>3, <1>4, <1>5, <1>6, <1>7

LEMMA AskStep ==
    ASSUME NEW c \in Controller, Inv, Ask(c)
    PROVE  Inv'
<1>. USE FbcAssumption DEF Inv, Ask, Begins, Goes, fbc, detector
<1>2. TypeOK'
  BY DEF TypeOK, Common, OfRunner, OfCaller, Task
<1>3. (history \in HistoryType)'
  OBVIOUS
<1>4. CountBound'
  BY DEF CountBound, Pending, TypeOK, Common, OfRunner, OfCaller, Task
<1>5. Timing' /\ ResultTellsTime'
  BY DEF Timing, ResultTellsTime, TypeOK, Common, OfRunner, OfCaller, Task
<1>6. ConfidenceEarned' /\ Earning' /\ Resetting'
  BY DEF ConfidenceEarned, Earning, Resetting, TypeOK, Common, OfRunner, OfCaller, Task, InCall
<1>7. Counting'
  BY DEF Counting, Counted, Noting, TypeOK, Common, OfRunner, OfCaller, Task
<1>. QED
  BY <1>2, <1>3, <1>4, <1>5, <1>6, <1>7

LEMMA DriftStep ==
    ASSUME NEW c \in Controller, NEW to \in Position,
           Inv, Drift(c, to)
    PROVE  Inv'
<1>. USE FbcAssumption DEF Inv, Drift, tasks, Goes, fbc, detector
<1>2. TypeOK'
  BY DEF TypeOK, Common, OfRunner, OfCaller, Task
<1>3. (history \in HistoryType)'
  OBVIOUS
<1>4. CountBound'
  BY DEF CountBound, Pending, TypeOK, Common, OfRunner, OfCaller, Task
<1>5. Timing' /\ ResultTellsTime'
  BY DEF Timing, ResultTellsTime, TypeOK, Common, OfRunner, OfCaller, Task
<1>6. ConfidenceEarned' /\ Earning' /\ Resetting'
  BY DEF ConfidenceEarned, Earning, Resetting, TypeOK, Common, OfRunner, OfCaller, Task, InCall
<1>7. Counting'
  BY DEF Counting, Counted, Noting, TypeOK, Common, OfRunner, OfCaller, Task
<1>. QED
  BY <1>2, <1>3, <1>4, <1>5, <1>6, <1>7

-----------------------------------------------------------------------------

LEMMA InvStep == Inv /\ [Next]_vars => Inv'
<1>. SUFFICES ASSUME Inv, [Next]_vars PROVE Inv'
  OBVIOUS
<1>1. CASE Iterate
  BY <1>1, GenerateStep, LoadStep, StoreStep, ClearStep, MoveStep, DelayStep,
     AskConfidenceStep, DoNotCountStep, CountStillStep, NoteStillStep
     DEF Iterate, Task
<1>2. CASE Call
  BY <1>2, SetGoalStep, ResetStep, AskStep, ForgetStep, ResetSenseStep,
     ResetGoalStep, AskConfidenceStep, DoNotCountStep, CountStillStep,
     NoteStillStep DEF Call, Task
<1>3. CASE \E c \in Controller, timeout \in 0 .. MaxTimeout :
              RunCompletion(c, timeout)
  BY <1>3, RunCompletionStep
<1>4. CASE RunAll
  BY <1>4, RunAllStep
<1>5. CASE \E c \in Controller, to \in Position : Drift(c, to)
  BY <1>5, DriftStep
<1>6. CASE UNCHANGED vars
  BY <1>6 DEF vars, fbc, detector, tasks, Inv, TypeOK, CountBound, Pending, Timing,
     ResultTellsTime, ConfidenceEarned, Earning, Resetting, Counting, Counted,
     Noting, InCall
<1>. QED
  BY <1>1, <1>2, <1>3, <1>4, <1>5, <1>6 DEF Next

\* The invariant holds in every behaviour of the controllers and both tasks.
LEMMA InvHolds == Spec => []Inv
<1>1. QED
  BY InvInit, InvStep, PTL DEF Spec

-----------------------------------------------------------------------------

\* Every variable keeps its type; above all, _count never exceeds the limit by
\* more than the two tasks that may be between counting and resetting.
THEOREM TypeCorrect == Spec => []TypeOK
<1>1. Inv => TypeOK
  BY DEF Inv
<1>. QED
  BY <1>1, InvHolds, PTL

\* A controller is confident only by iterations on its present goal, unless the
\* goal or the confidence was changed in the middle of one.
THEOREM Earned == Spec => []ConfidenceEarned
<1>1. Inv => ConfidenceEarned
  BY DEF Inv
<1>. QED
  BY <1>1, InvHolds, PTL

\* fbcRunCompletion returns true after confidence or a stall in time, and false
\* at the first iteration past its timeout.
THEOREM ResultTold == Spec => []ResultTellsTime
<1>1. Inv => ResultTellsTime
  BY DEF Inv
<1>. QED
  BY <1>1, InvHolds, PTL

\* A reported stall is one, unless something else used _prev and _count.
THEOREM StallReal == Spec => []StallIsReal
<1>1. Inv => StallIsReal
  <2>. SUFFICES ASSUME Inv, at["runner"] = "note", count > Limit,
                       ~history.disturbed[on["runner"]]
                PROVE  history.still[on["runner"]] >= Limit
    BY DEF StallIsReal, Limit
  <2>1. on["runner"] \in Controller
    BY DEF Inv, TypeOK, Task
  <2>2. Counted(on["runner"])
    BY <2>1 DEF Inv, Counting
  <2>. QED
    BY <2>1, <2>2, FbcAssumption DEF Inv, Counted, TypeOK, HistoryType, Limit
<1>. QED
  BY <1>1, InvHolds, PTL

\* A controller that has _prev and _count to itself does not go on driving
\* without moving for more than two iterations past the limit.
THEOREM StallNoticed == Spec => []LoneStallIsNoticed
<1>1. Inv => LoneStallIsNoticed
  <2>. SUFFICES ASSUME Inv, NEW c \in Controller, ~history.disturbed[c]
                PROVE  history.still[c] <= Limit + 2
    BY DEF LoneStallIsNoticed, Limit
  <2>1. Counted(c)
    BY DEF Inv, Counting
  <2>. QED
    BY <2>1, FbcAssumption DEF Inv, Counted, TypeOK, HistoryType, Limit
<1>. QED
  BY <1>1, InvHolds, PTL
=============================================================================

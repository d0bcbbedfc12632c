--------------------------- MODULE HeartbeatProofs ---------------------------
(***************************************************************************)
(* What the handler of the heartbeat hears is true (AlarmIsTrue), for      *)
(* every interval, tolerance, delay and time a handler takes that leave    *)
(* the deadline room for the requests ahead of the ticker's (Slack).  Both *)
(* halves are arguments about time, so the invariant has two count-downs:  *)
(*   TimelyInv   while the peer answers, the next mark comes before the    *)
(*               deadline the check waits for;                             *)
(*   SilentInv   once it does not, what still stands between now and the   *)
(*               alarm is at most two late marks, each with a handler to   *)
(*               call, and one deadline.                                   *)
(***************************************************************************)
EXTENDS Heartbeat, FiniteSetTheorems, TLAPS

\* The intervals and tolerances that dur may hold.
Intervals == {Interval} \cup {d \in Settings : d > 0}
Tolerances == {Tolerance} \cup Settings

\* One of the durations is the longest.
HasLongest ==
  LET All == Settings \cup {Interval, Tolerance} IN
  \E m \in All : \A a \in All : a <= m

\* The time that n requests take, at most.
Cost(n) == Delay * n

\* Every deadline leaves room for the ticker's interval, for its request, and
\* for the requests of beat() that select! may take before it.
Slack ==
  \A i \in Intervals, t \in Tolerances : i + t > Interval + Cost(MaxBeats + 1)

\* Requests of beat() that are still to come.
Sending == {c \in Callers : caller[c] = "send"}
ToCome == MaxBeats - beats + Cardinality(Sending) + Len(demand)

\* What is left of a time that may be over.
Left(n) == IF n > 0 THEN n ELSE 0

OnDemandNow == req.pc = "read" /\ req.for # Ticker

\* The time to the ticker's next mark, at most.
ToMark ==
  CASE req.pc = "select" -> Left(tick) + Cost(ToCome) + Delay
    [] OnDemandNow -> Delay - req.age + Left(tick) + Cost(ToCome) + Delay
    [] req.pc = "read" /\ ~OnDemandNow -> Delay - req.age
    [] OTHER -> 0

\* The durations are ones that were set, and no wait is longer than it was
\* made.
TimerInv ==
  /\ dur.interval \in Intervals /\ dur.tolerance \in Tolerances
  /\ req.age <= Delay
  /\ check.pc = "callback" => check.left <= CbTime
  /\ check.pc = "wait" => check.left <= Longest
  /\ peer.answers => quiet = 0

\* No more requests of beat() than calls of it.
DemandInv ==
  /\ IsFiniteSet(Sending)
  /\ ToCome + (IF OnDemandNow THEN 1 ELSE 0) <= MaxBeats

TimelyInv ==
  check.pc = "wait" /\ mark = 0 /\ req.pc # "exited" /\ peer.answers => ToMark < check.left

\* What is left of the handler's time.
InHandler == IF check.pc = "callback" THEN check.left ELSE 0

SilentInv ==
  ~peer.answers /\ req.pc # "exited" /\ check.pc # "exited" =>
    /\ req.pc = "mark" /\ mark = 0 => quiet <= CbTime
    /\ req.pc = "mark" /\ mark = 1 => quiet + InHandler <= CbTime
    /\ req.pc # "mark" /\ mark = 1 => quiet + InHandler <= 2 * CbTime
    /\ req.pc # "mark" /\ mark = 0 /\ ~alarm =>
         IF check.pc = "callback" THEN quiet + check.left <= 3 * CbTime
         ELSE quiet + check.left <= Longest + 3 * CbTime

AlarmInv == TypeOK /\ TimerInv /\ DemandInv /\ TimelyInv /\ SilentInv /\ NoFalseAlarm
----------------------------------------------------------------------------
(* Numbers.                                                                *)

\* What requests take, counted one by one.
LEMMA CostFacts ==
  /\ \A n \in Nat : Cost(n) \in Nat /\ Cost(n + 1) = Cost(n) + Delay
  /\ \A n, m \in Nat : n <= m => Cost(n) <= Cost(m)
  <1>1. Delay \in Nat
    BY HeartbeatAssumption
  <1>2. \A n \in Nat : Delay * n \in Nat /\ Delay * (n + 1) = Delay * n + Delay
    BY <1>1
  <1>3. ASSUME NEW n \in Nat, NEW m \in Nat, n <= m
        PROVE  Delay * n <= Delay * m
    <2>1. PICK k \in Nat : m = n + k
      BY <1>3, m - n \in Nat, m = n + (m - n)
    <2>2. Delay * m = Delay * n + Delay * k /\ Delay * k \in Nat /\ Delay * n \in Nat
      BY <1>1, <2>1
    <2> QED
      BY <2>2
  <1> QED
    BY <1>2, <1>3 DEF Cost

\* No deadline is longer than Longest.
LEMMA LongestIs ==
  ASSUME HasLongest
  PROVE  /\ Longest \in Nat /\ Horizon \in Nat /\ Horizon > Longest + 3 * CbTime
         /\ \A i, t \in Settings \cup {Interval, Tolerance} : i + t <= Longest
  <1> DEFINE All == Settings \cup {Interval, Tolerance}
             Ok(n) == \A i, t \in All : i + t <= n
  <1>1. All \subseteq Nat /\ CbTime \in Nat /\ Delay \in Nat
    BY HeartbeatAssumption
  <1>2. PICK m \in All : \A a \in All : a <= m
    BY DEF HasLongest
  <1>3. \A i, t \in All : i + t <= m + m
    BY <1>1, <1>2
  <1>4. \E n \in {i + t : i, t \in All} : Ok(n)
    BY <1>2, <1>3
  <1>5. Longest = CHOOSE n \in {i + t : i, t \in All} : Ok(n)
    BY DEF Longest
  <1>6. Longest \in {i + t : i, t \in All} /\ Ok(Longest)
    <2> HIDE DEF Ok, All
    <2> QED
      BY <1>4, <1>5
  <1>7. Longest \in Nat
    BY <1>1, <1>6
  <1>8. Horizon \in Nat /\ Horizon > Longest + 3 * CbTime
    BY <1>1, <1>7 DEF Horizon
  <1> QED
    BY <1>6, <1>7, <1>8

----------------------------------------------------------------------------
(* Types.                                                                  *)

\* The state has its types at first.
LEMMA InitTyped ==
  ASSUME HasLongest, Init
  PROVE  TypeOK
  <1>1. /\ Interval \in Nat /\ Tolerance \in Nat /\ MaxBeats \in Nat
        /\ Horizon \in Nat
    BY LongestIs, HeartbeatAssumption
  <1>2. /\ dur = [interval |-> Interval, tolerance |-> Tolerance]
        /\ check = [pc |-> "wait", left |-> Interval + Tolerance]
        /\ req = [pc |-> "select", for |-> Ticker, age |-> 0]
        /\ demand = <<>>
    BY DEF Init, Deadline
  <1>3. /\ dur \in [interval : Nat, tolerance : Nat] /\ check \in Check /\ req \in Requester
    BY <1>1, <1>2 DEF Check, Requester
  <1>4. demand \in Seq(Callers) /\ Len(demand) <= 1
    BY <1>2
  <1>5. /\ caller \in [Callers -> {"idle", "send", "wait", "ok", "failed"}]
        /\ beats \in 0..MaxBeats /\ tick \in Int /\ tick <= Interval
        /\ mark \in 0..1 /\ quiet \in 0..Horizon
    BY <1>1 DEF Init
  <1>6. /\ held \in BOOLEAN /\ alarm \in BOOLEAN
        /\ peer \in [answers : BOOLEAN, open : BOOLEAN]
    BY DEF Init
  <1> QED
    BY <1>3, <1>4, <1>5, <1>6 DEF TypeOK

CallerStates == {"idle", "send", "wait", "ok", "failed"}

\* The request that is taken is a caller's.
LEMMA FirstDemand ==
  ASSUME NEW q \in Seq(Callers), q # <<>>, Len(q) <= 1
  PROVE  /\ Head(q) \in Callers /\ Tail(q) \in Seq(Callers)
         /\ Len(Tail(q)) = 0 /\ Len(q) = 1
  <1>1. Len(q) \in Nat /\ Len(q) > 0 /\ Head(q) \in Callers /\ Tail(q) \in Seq(Callers)
    OBVIOUS
  <1>2. Len(Tail(q)) = Len(q) - 1
    OBVIOUS
  <1> QED
    BY <1>1, <1>2

\* A step keeps the types.
LEMMA NextTyped ==
  ASSUME HasLongest, TypeOK, Next
  PROVE  TypeOK'
  <1> USE DEF CallerStates
  <1>0. /\ Interval \in Nat /\ Tolerance \in Nat /\ MaxBeats \in Nat /\ CbTime \in Nat
        /\ MaxMissed \in Nat /\ Horizon \in Nat /\ Settings \subseteq Nat
    BY LongestIs, HeartbeatAssumption
  <1>1. /\ caller \in [Callers -> CallerStates] /\ beats \in 0..MaxBeats
        /\ demand \in Seq(Callers) /\ Len(demand) <= 1
        /\ tick \in Int /\ tick <= Interval /\ mark \in 0..1 /\ quiet \in 0..Horizon
        /\ req \in Requester /\ check \in Check /\ dur \in [interval : Nat, tolerance : Nat]
    BY DEF TypeOK
  <1>2. /\ held \in BOOLEAN /\ alarm \in BOOLEAN
        /\ peer \in [answers : BOOLEAN, open : BOOLEAN]
    BY DEF TypeOK
  <1>3. ASSUME NEW c \in Callers, Beat(c)
        PROVE  TypeOK'
    <2>1. caller' \in [Callers -> CallerStates] /\ beats' \in 0..MaxBeats
      BY <1>0, <1>1, <1>3 DEF Beat
    <2> QED
      BY <1>1, <1>2, <1>3, <2>1 DEF Beat, TypeOK
  <1>4. ASSUME NEW c \in Callers, Ask(c)
        PROVE  TypeOK'
    <2>1. caller' \in [Callers -> CallerStates]
      BY <1>1, <1>4 DEF Ask
    <2>2. demand' \in Seq(Callers) /\ Len(demand') <= 1
      <3>0. PICK q : q = <<c>>
        OBVIOUS
      <3>1. demand' = demand \/ demand' = q
        BY <1>4, <3>0 DEF Ask
      <3>2. q \in Seq(Callers) /\ Len(q) = 1
        BY <3>0
      <3>3. CASE demand' = demand
        BY <1>1, <3>3, Zenon
      <3>4. CASE demand' = q
        BY <3>2, <3>4, 1 <= 1
      <3> QED
        BY <3>1, <3>3, <3>4
    <2> QED
      BY <1>1, <1>2, <1>4, <2>1, <2>2 DEF Ask, TypeOK
  <1>5. ASSUME NEW d \in Settings, SetInterval(d) \/ SetTolerance(d)
        PROVE  TypeOK'
    <2>1. dur' \in [interval : Nat, tolerance : Nat]
      BY <1>0, <1>1, <1>5 DEF SetInterval, SetTolerance
    <2>2. UNCHANGED <<held, caller, beats, demand, tick, req, mark, check, peer, alarm, quiet>>
      BY <1>5 DEF SetInterval, SetTolerance
    <2> QED
      BY <1>1, <1>2, <2>1, <2>2 DEF TypeOK
  <1>6. CASE DropCtl
    BY <1>1, <1>2, <1>6 DEF DropCtl, TypeOK
  <1>7. CASE OnDemand
    <2>1. /\ demand' \in Seq(Callers) /\ Len(demand') <= 1
          /\ Head(demand) \in Callers
      BY <1>1, <1>7, FirstDemand DEF OnDemand
    <2>2. req' \in Requester
      BY <1>7, <2>1 DEF OnDemand, Request, Requester
    <2> QED
      BY <1>1, <1>2, <1>7, <2>1, <2>2 DEF OnDemand, TypeOK
  <1>8. CASE Tick
    <2>1. tick' \in Int /\ tick' <= Interval
      BY <1>0, <1>1, <1>8 DEF Tick
    <2>2. req' \in Requester
      BY <1>8 DEF Tick, Request, Requester
    <2> QED
      BY <1>1, <1>2, <1>8, <2>1, <2>2 DEF Tick, TypeOK
  <1>9. CASE Answer
    <2>1. req' \in Requester
      BY <1>1, <1>9 DEF Answer, Answered, Requester
    <2>2. caller' \in [Callers -> CallerStates]
      BY <1>1, <1>9 DEF Answer, Answered, Requester
    <2> QED
      BY <1>1, <1>2, <1>9, <2>1, <2>2 DEF Answer, TypeOK
  <1>10. CASE MarkSend
    <2>1. req' \in Requester /\ mark' \in 0..1
      BY <1>1, <1>10 DEF MarkSend, Requester
    <2> QED
      BY <1>1, <1>2, <1>10, <2>1 DEF MarkSend, TypeOK
  <1>11. CASE RequestFails \/ WrongId \/ RequesterDropped
    <2>1. Exit /\ UNCHANGED <<dur, held, beats, tick, mark, check, peer, alarm, quiet>>
      BY <1>11 DEF RequestFails, WrongId, RequesterDropped
    <2>2. req' \in Requester
      BY <1>1, <2>1 DEF Exit, Requester
    <2>3. caller' \in [Callers -> CallerStates]
      BY <1>1, <2>1 DEF Exit
    <2>4. demand' \in Seq(Callers) /\ Len(demand') <= 1
      BY <2>1 DEF Exit
    <2> QED
      BY <1>1, <1>2, <2>1, <2>2, <2>3, <2>4 DEF TypeOK
  <1>12. CASE Marked
    <2>1. check' \in Check /\ mark' \in 0..1
      BY <1>0, <1>12 DEF Marked, Callback, Check
    <2> QED
      BY <1>1, <1>2, <1>12, <2>1 DEF Marked, application, TypeOK
  <1>13. CASE Timeout
    <2>1. check' \in Check
      BY <1>0, <1>13 DEF Timeout, Callback, Check
    <2> QED
      BY <1>1, <1>2, <1>13, <2>1 DEF Timeout, application, TypeOK
  <1>14. CASE Closed \/ CallbackFails \/ CheckDropped \/ CallbackDone
    <2>1. /\ check' = [check EXCEPT !.pc = "exited"] \/ check' = [pc |-> "wait", left |-> Deadline(dur)]
          /\ UNCHANGED <<application, demand, tick, req, mark, peer, alarm, quiet>>
      BY <1>14 DEF Closed, CallbackFails, CheckDropped, CallbackDone
    <2>2. check' \in Check
      BY <1>1, <2>1 DEF Check, Deadline
    <2> QED
      BY <1>1, <1>2, <2>1, <2>2 DEF application, TypeOK
  <1>15. CASE GoSilent \/ StreamEnds
    <2>1. peer' \in [answers : BOOLEAN, open : BOOLEAN]
      BY <1>2, <1>15 DEF GoSilent, StreamEnds
    <2>2. UNCHANGED <<application, demand, tick, req, mark, check, alarm, quiet>>
      BY <1>15 DEF GoSilent, StreamEnds
    <2> QED
      BY <1>1, <1>2, <2>1, <2>2 DEF application, TypeOK
  <1>16. CASE Pass
    <2>1. tick' \in Int /\ tick' <= Interval /\ quiet' \in 0..Horizon
      BY <1>0, <1>1, <1>16 DEF Pass
    <2>2. req' \in Requester
      <3>1. PICK a : a = IF req.pc = "read" /\ req.age < Delay THEN req.age + 1 ELSE req.age
        OBVIOUS
      <3>2. req' = [req EXCEPT !.age = a]
        BY <1>1, <1>16, <3>1 DEF Pass, Requester
      <3>3. a \in Nat
        BY <1>1, <3>1 DEF Requester
      <3> QED
        BY <1>1, <3>2, <3>3 DEF Requester
    <2>3. check' \in Check
      BY <1>1, <1>16 DEF Pass, Check
    <2> QED
      BY <1>1, <1>2, <1>16, <2>1, <2>2, <2>3 DEF Pass, application, TypeOK
  <1> QED
    BY <1>3, <1>4, <1>5, <1>6, <1>7, <1>8, <1>9, <1>10, <1>11, <1>12, <1>13, <1>14, <1>15, <1>16
       DEF Next, RequesterStep, CheckStep, CallerStep

----------------------------------------------------------------------------
(* Timers.                                                                 *)

\* What the fields are.
LEMMA Fields ==
  ASSUME TypeOK
  PROVE  /\ dur.interval \in Nat /\ dur.tolerance \in Nat
         /\ req.pc \in {"select", "read", "mark", "exited"} /\ req.age \in Nat
         /\ check.pc \in {"wait", "callback", "exited"} /\ check.left \in Nat
         /\ mark \in 0..1 /\ quiet \in Nat /\ tick \in Int /\ beats \in 0..MaxBeats
         /\ tick <= Interval
  <1>1. quiet \in Nat
    BY DEF TypeOK
  <1> QED
    BY <1>1 DEF TypeOK, Requester, Check

\* A deadline is made of durations that were set.
LEMMA DeadlineBounds ==
  ASSUME HasLongest, TypeOK, TimerInv
  PROVE  /\ Deadline(dur) \in Nat /\ Deadline(dur) <= Longest
         /\ Slack => Deadline(dur) > Interval + Cost(MaxBeats + 1)
  <1>1. dur.interval \in Nat /\ dur.tolerance \in Nat
    BY Fields
  <1>2. dur.interval \in Intervals /\ dur.tolerance \in Tolerances
    BY DEF TimerInv
  <1>3. /\ dur.interval \in Settings \cup {Interval, Tolerance}
        /\ dur.tolerance \in Settings \cup {Interval, Tolerance}
    BY <1>2 DEF Intervals, Tolerances
  <1>4. dur.interval + dur.tolerance <= Longest
    BY <1>3, LongestIs
  <1>5. Slack => dur.interval + dur.tolerance > Interval + Cost(MaxBeats + 1)
    BY <1>2 DEF Slack
  <1> QED
    BY <1>1, <1>4, <1>5 DEF Deadline

\* The first deadline is that of the configuration.
LEMMA InitTimers ==
  ASSUME HasLongest, Init
  PROVE  TimerInv
  <1>1. dur.interval = Interval /\ dur.tolerance = Tolerance /\ req.age = 0 /\ quiet = 0
    BY DEF Init
  <1>2. check.pc = "wait" /\ check.left = Interval + Tolerance
    BY DEF Init, Deadline
  <1>3. check.left <= Longest
    BY <1>2, LongestIs
  <1> QED
    BY <1>1, <1>2, <1>3, HeartbeatAssumption DEF TimerInv, Intervals, Tolerances

\* Where the requester is after a step that is not the clock's.
LEMMA AgeKept ==
  ASSUME TypeOK, TimerInv, Next
  PROVE  req'.age <= Delay
  <1>1. req \in Requester /\ req.age \in Nat /\ req.age <= Delay /\ Delay \in Nat
    BY Fields, HeartbeatAssumption DEF TypeOK, TimerInv
  <1>2. CASE Pass
    <2>1. PICK a : a = IF req.pc = "read" /\ req.age < Delay THEN req.age + 1 ELSE req.age
      OBVIOUS
    <2>2. req' = [req EXCEPT !.age = a]
      BY <1>1, <1>2, <2>1 DEF Pass, Requester
    <2>3. a <= Delay
      BY <1>1, <2>1
    <2> QED
      BY <1>1, <2>2, <2>3 DEF Requester
  <1>3. CASE OnDemand \/ Tick
    BY <1>1, <1>3 DEF OnDemand, Tick, Request
  <1>4. CASE Answer \/ MarkSend \/ RequestFails \/ WrongId \/ RequesterDropped
    <2>1. PICK p : req' = [req EXCEPT !.pc = p]
      BY <1>4 DEF Answer, Answered, MarkSend, RequestFails, WrongId, RequesterDropped, Exit
    <2> QED
      BY <1>1, <2>1 DEF Requester
  <1>5. CASE req' = req
    BY <1>1, <1>5
  <1> QED
    BY <1>2, <1>3, <1>4, <1>5
       DEF Next, RequesterStep, CheckStep, CallerStep, Beat, Ask, SetInterval, SetTolerance,
           DropCtl, Marked, Timeout, Closed, CallbackDone, CallbackFails, CheckDropped,
           GoSilent, StreamEnds

\* Where the check is after a step.
LEMMA CheckSteps ==
  ASSUME TypeOK, Next
  PROVE  \/ check' = check
         \/ check'.pc = "exited" /\ check'.left = check.left /\ check.pc # "exited"
         \/ check'.pc = "callback" /\ check'.left = CbTime /\ check.pc = "wait"
         \/ check'.pc = "wait" /\ check'.left = Deadline(dur) /\ check.pc = "callback"
         \/ Pass /\ check'.pc = check.pc /\ check'.left = IF check.left > 0 THEN check.left - 1 ELSE 0
  <1>1. check \in Check
    BY DEF TypeOK
  <1>2. CASE Pass
    BY <1>1, <1>2 DEF Pass, Check
  <1>3. CASE Marked \/ Timeout
    BY <1>3 DEF Marked, Timeout, Callback
  <1>4. CASE Closed \/ CallbackFails \/ CheckDropped
    BY <1>1, <1>4 DEF Closed, CallbackFails, CheckDropped, Check
  <1>5. CASE CallbackDone
    BY <1>5 DEF CallbackDone
  <1>6. CASE check' = check
    BY <1>6
  <1> QED
    BY <1>2, <1>3, <1>4, <1>5, <1>6
       DEF Next, RequesterStep, CheckStep, CallerStep, Beat, Ask, SetInterval, SetTolerance,
           DropCtl, OnDemand, Tick, Answer, MarkSend, RequestFails, WrongId, RequesterDropped,
           GoSilent, StreamEnds

\* The peer's part: it does not come back, and is silent only when it does not
\* answer.
LEMMA PeerSteps ==
  ASSUME TypeOK, Next
  PROVE  /\ peer'.answers => peer.answers
         /\ peer'.answers /\ quiet = 0 => quiet' = 0
         /\ ~Pass => quiet' = quiet
  <1>1. peer \in [answers : BOOLEAN, open : BOOLEAN]
    BY DEF TypeOK
  <1>2. CASE Pass
    BY <1>1, <1>2 DEF Pass
  <1>3. CASE GoSilent \/ StreamEnds
    BY <1>1, <1>3 DEF GoSilent, StreamEnds
  <1>4. CASE peer' = peer /\ quiet' = quiet
    BY <1>4
  <1> QED
    BY <1>2, <1>3, <1>4
       DEF Next, RequesterStep, CheckStep, CallerStep, Beat, Ask, SetInterval, SetTolerance,
           DropCtl, OnDemand, Tick, Answer, MarkSend, RequestFails, WrongId, RequesterDropped,
           Marked, Timeout, Closed, CallbackDone, CallbackFails, CheckDropped

\* The durations are ones that may be set.
LEMMA DurKept ==
  ASSUME TypeOK, TimerInv, Next
  PROVE  dur'.interval \in Intervals /\ dur'.tolerance \in Tolerances
  <1>1. /\ dur \in [interval : Nat, tolerance : Nat]
        /\ dur.interval \in Intervals /\ dur.tolerance \in Tolerances
    BY DEF TypeOK, TimerInv
  <1>2. ASSUME NEW d \in Settings, d > 0 /\ SetInterval(d)
        PROVE  dur'.interval \in Intervals /\ dur'.tolerance \in Tolerances
    BY <1>1, <1>2 DEF SetInterval, Intervals
  <1>3. ASSUME NEW d \in Settings, SetTolerance(d)
        PROVE  dur'.interval \in Intervals /\ dur'.tolerance \in Tolerances
    BY <1>1, <1>3 DEF SetTolerance, Tolerances
  <1>4. CASE dur' = dur
    BY <1>1, <1>4
  <1> QED
    BY <1>2, <1>3, <1>4
       DEF Next, RequesterStep, CheckStep, CallerStep, Beat, Ask, DropCtl, OnDemand, Tick,
           Answer, MarkSend, RequestFails, WrongId, RequesterDropped, Marked, Timeout, Closed,
           CallbackDone, CallbackFails, CheckDropped, GoSilent, StreamEnds, Pass, application

\* A step keeps the timers within their bounds.
LEMMA NextTimers ==
  ASSUME HasLongest, TypeOK, TimerInv, Next
  PROVE  TimerInv'
  <1>1. dur'.interval \in Intervals /\ dur'.tolerance \in Tolerances /\ req'.age <= Delay
    BY DurKept, AgeKept
  <1>2. /\ check'.pc = "callback" => check'.left <= CbTime
        /\ check'.pc = "wait" => check'.left <= Longest
    <2>1. /\ check.left \in Nat /\ CbTime \in Nat /\ Longest \in Nat
          /\ check.pc = "callback" => check.left <= CbTime
          /\ check.pc = "wait" => check.left <= Longest
          /\ Deadline(dur) <= Longest
      BY Fields, LongestIs, DeadlineBounds, HeartbeatAssumption DEF TimerInv
    <2> QED
      BY <2>1, CheckSteps
  <1>3. peer'.answers => quiet' = 0
    BY PeerSteps DEF TimerInv
  <1> QED
    BY <1>1, <1>2, <1>3 DEF TimerInv, Intervals, Tolerances

----------------------------------------------------------------------------
(* The requests of beat().                                                 *)

\* A caller that starts to send.
LEMMA SendingMore ==
  ASSUME IsFiniteSet(Sending), NEW c \in Callers, c \notin Sending,
         Sending' = Sending \cup {c}
  PROVE  IsFiniteSet(Sending') /\ Cardinality(Sending') = Cardinality(Sending) + 1
  BY FS_AddElement

\* A caller that no longer sends.
LEMMA SendingLess ==
  ASSUME IsFiniteSet(Sending), NEW c \in Callers, c \in Sending,
         Sending' = Sending \ {c}
  PROVE  IsFiniteSet(Sending') /\ Cardinality(Sending') = Cardinality(Sending) - 1
  BY FS_RemoveElement

\* How many are to come is a number.
LEMMA ToComeNat ==
  ASSUME TypeOK, DemandInv
  PROVE  /\ ToCome \in Nat /\ Cardinality(Sending) \in Nat /\ Len(demand) \in Nat
         /\ MaxBeats - beats \in Nat
  <1>1. Cardinality(Sending) \in Nat
    BY FS_CardinalityType DEF DemandInv
  <1>2. MaxBeats - beats \in Nat
    BY Fields, HeartbeatAssumption
  <1>3. Len(demand) \in Nat
    BY DEF TypeOK
  <1> QED
    BY <1>1, <1>2, <1>3 DEF ToCome

\* Nobody has called yet.
LEMMA InitDemand ==
  ASSUME Init
  PROVE  DemandInv
  <1>1. Sending = {} /\ ~OnDemandNow
    BY DEF Init, Sending, OnDemandNow
  <1>2. Len(demand) = 0 /\ beats = 0
    BY DEF Init
  <1>3. IsFiniteSet(Sending) /\ Cardinality(Sending) = 0
    BY <1>1, FS_EmptySet
  <1> QED
    BY <1>1, <1>2, <1>3, HeartbeatAssumption DEF DemandInv, ToCome

\* A step takes one request from those to come, or leaves them alone.
LEMMA DemandSteps ==
  ASSUME TypeOK, DemandInv, Next
  PROVE  /\ IsFiniteSet(Sending')
         /\ \/ OnDemand /\ ToCome' = ToCome - 1
            \/ ~OnDemand /\ ToCome' <= ToCome
  <1>1. /\ ToCome \in Nat /\ Cardinality(Sending) \in Nat /\ Len(demand) \in Nat
        /\ MaxBeats \in Nat /\ beats \in Nat
        /\ ToCome = MaxBeats - beats + Cardinality(Sending) + Len(demand)
    BY ToComeNat, Fields, HeartbeatAssumption DEF ToCome
  <1>2. IsFiniteSet(Sending)
    BY DEF DemandInv
  <1>3. caller \in [Callers -> CallerStates]
    BY DEF TypeOK, CallerStates
  <1>4. ToCome' = MaxBeats - beats' + Cardinality(Sending') + Len(demand')
    BY DEF ToCome
  <1>5. CASE OnDemand
    <2>1. Sending' = Sending /\ beats' = beats /\ demand' = Tail(demand) /\ demand # <<>>
      BY <1>5 DEF OnDemand, Sending
    <2>2. demand \in Seq(Callers) /\ Len(demand) <= 1
      BY DEF TypeOK
    <2>3. Len(demand') = Len(demand) - 1
      BY <2>1, <2>2, FirstDemand
    <2>4. ToCome' = ToCome - 1
      BY <1>1, <1>4, <2>1, <2>3
    <2> QED
      BY <1>2, <1>5, <2>1, <2>4
  <1>6. ASSUME NEW c \in Callers, Beat(c)
        PROVE  IsFiniteSet(Sending') /\ ToCome' <= ToCome /\ ~OnDemand
    <2>1. c \notin Sending /\ Sending' = Sending \cup {c} /\ beats' = beats + 1 /\ demand' = demand
      BY <1>3, <1>6 DEF Beat, Sending
    <2>2. IsFiniteSet(Sending') /\ Cardinality(Sending') = Cardinality(Sending) + 1
      BY <1>2, <2>1, SendingMore
    <2>3. ToCome' <= ToCome
      BY <1>1, <1>4, <2>1, <2>2
    <2>4. ~OnDemand
      BY <1>1, <2>1 DEF OnDemand
    <2> QED
      BY <2>2, <2>3, <2>4
  <1>7. ASSUME NEW c \in Callers, Ask(c)
        PROVE  IsFiniteSet(Sending') /\ ToCome' <= ToCome /\ ~OnDemand
    <2>1. c \in Sending /\ Sending' = Sending \ {c} /\ beats' = beats
      BY <1>3, <1>7 DEF Ask, Sending
    <2>2. IsFiniteSet(Sending') /\ Cardinality(Sending') = Cardinality(Sending) - 1
      BY <1>2, <2>1, SendingLess
    <2>3. Len(demand') <= Len(demand) + 1
      <3>1. CASE demand' = demand
        BY <1>1, <3>1
      <3>2. CASE demand' = <<c>>
        <4>1. Len(demand') = 1
          BY <3>2
        <4> QED
          BY <1>1, <4>1
      <3> QED
        BY <1>7, <3>1, <3>2 DEF Ask
    <2>4. Len(demand') \in Nat
      <3>1. CASE demand' = demand
        BY <1>1, <3>1
      <3>2. CASE demand' = <<c>>
        BY <3>2
      <3> QED
        BY <1>7, <3>1, <3>2 DEF Ask
    <2>5. ToCome' <= ToCome
      BY <1>1, <1>4, <2>1, <2>2, <2>3, <2>4
    <2>6. req' = req
      BY <1>7 DEF Ask
    <2>7. ~OnDemand
      BY <1>7, <2>6 DEF OnDemand, Request, TypeOK, Requester
    <2> QED
      BY <2>2, <2>5, <2>7
  <1>8. CASE RequestFails \/ WrongId \/ RequesterDropped
    <2>1. Exit /\ beats' = beats
      BY <1>8 DEF RequestFails, WrongId, RequesterDropped
    <2>2. Sending' = Sending
      BY <1>3, <2>1 DEF Exit, Sending
    <2>3. Len(demand') = 0
      BY <2>1 DEF Exit
    <2>4. ToCome' <= ToCome
      BY <1>1, <1>4, <2>1, <2>2, <2>3
    <2>5. ~OnDemand
      BY <2>1 DEF Exit, OnDemand, Request, TypeOK, Requester
    <2> QED
      BY <1>2, <2>2, <2>4, <2>5
  <1>9. CASE Answer
    <2>1. beats' = beats /\ demand' = demand
      BY <1>9 DEF Answer
    <2>2. Sending' \subseteq Sending
      BY <1>3, <1>9 DEF Answer, Answered, Sending
    <2>3. IsFiniteSet(Sending') /\ Cardinality(Sending') <= Cardinality(Sending)
      BY <1>2, <2>2, FS_Subset
    <2>4. Cardinality(Sending') \in Nat
      BY <2>3, FS_CardinalityType
    <2>5. ToCome' <= ToCome
      BY <1>1, <1>4, <2>1, <2>3, <2>4
    <2>6. ~OnDemand
      BY <1>9, <2>1 DEF Answer, OnDemand
    <2> QED
      BY <2>3, <2>5, <2>6
  <1>10. CASE caller' = caller /\ beats' = beats /\ demand' = demand /\ ~OnDemand
    <2>1. Sending' = Sending
      BY <1>10 DEF Sending
    <2>2. ToCome' <= ToCome
      BY <1>1, <1>4, <1>10, <2>1
    <2> QED
      BY <1>2, <1>10, <2>1, <2>2
  <1>11. CASE caller' = caller /\ beats' = beats /\ demand' = demand
    BY <1>5, <1>10, <1>11
  <1> QED
    BY <1>5, <1>6, <1>7, <1>8, <1>9, <1>11
       DEF Next, RequesterStep, CheckStep, CallerStep, SetInterval, SetTolerance,
           DropCtl, Tick, MarkSend, Marked, Timeout, Closed, CallbackDone, CallbackFails,
           CheckDropped, GoSilent, StreamEnds, Pass, application

\* A request for a caller is under way only after OnDemand.
LEMMA NowSteps ==
  ASSUME TypeOK, Next, ~OnDemand, OnDemandNow'
  PROVE  OnDemandNow /\ req'.pc = req.pc /\ (~Pass => req' = req)
  <1>1. req \in Requester
    BY DEF TypeOK
  <1>2. req'.pc = "read" /\ req'.for # Ticker
    BY DEF OnDemandNow
  <1>3. CASE Pass
    <2>1. req'.pc = req.pc /\ req'.for = req.for
      BY <1>1, <1>3 DEF Pass, Requester
    <2> QED
      BY <1>2, <1>3, <2>1 DEF OnDemandNow
  <1>4. ~Tick
    BY <1>2 DEF Tick, Request
  <1>5. ~Answer /\ ~MarkSend /\ ~RequestFails /\ ~WrongId /\ ~RequesterDropped
    BY <1>1, <1>2 DEF Answer, Answered, MarkSend, RequestFails, WrongId, RequesterDropped, Exit,
       Requester
  <1>6. CASE req' = req
    BY <1>2, <1>6 DEF OnDemandNow
  <1> QED
    BY <1>3, <1>4, <1>5, <1>6
       DEF Next, RequesterStep, CheckStep, CallerStep, Beat, Ask, SetInterval, SetTolerance,
           DropCtl, Marked, Timeout, Closed, CallbackDone, CallbackFails, CheckDropped,
           GoSilent, StreamEnds

\* A step keeps the count of the requests.
LEMMA NextDemand ==
  ASSUME TypeOK, TypeOK', DemandInv, Next
  PROVE  DemandInv'
  <1>1. /\ IsFiniteSet(Sending')
        /\ \/ OnDemand /\ ToCome' = ToCome - 1
           \/ ~OnDemand /\ ToCome' <= ToCome
    BY DemandSteps
  <1>2. ToCome \in Nat /\ MaxBeats \in Nat /\ ToCome <= MaxBeats
        /\ (OnDemandNow => ToCome + 1 <= MaxBeats)
    BY ToComeNat, HeartbeatAssumption DEF DemandInv
  <1>3. ToCome' \in Int
    <2>1. Cardinality(Sending') \in Nat
      BY <1>1, FS_CardinalityType
    <2>2. Len(demand') \in Nat /\ beats' \in Nat
      BY DEF TypeOK
    <2> QED
      BY <1>2, <2>1, <2>2 DEF ToCome
  <1>4. ToCome' + (IF OnDemandNow' THEN 1 ELSE 0) <= MaxBeats
    <2>1. ToCome' <= MaxBeats
      BY <1>1, <1>2, <1>3
    <2>2. OnDemandNow' => OnDemand \/ OnDemandNow
      BY NowSteps
    <2>3. OnDemandNow' => ToCome' + 1 <= MaxBeats
      <3> SUFFICES ASSUME OnDemandNow'
                   PROVE  ToCome' + 1 <= MaxBeats
        OBVIOUS
      <3>1. CASE OnDemand
        BY <1>1, <1>2, <3>1
      <3>2. CASE ~OnDemand
        <4>1. ToCome' <= ToCome
          BY <1>1, <3>2
        <4>2. ToCome + 1 <= MaxBeats
          BY <1>2, <2>2, <3>2
        <4>3. ToCome \in Int /\ MaxBeats \in Int
          BY <1>2
        <4>4. \A x, y, m \in Int : x <= y /\ y + 1 <= m => x + 1 <= m
          OBVIOUS
        <4> QED
          BY <1>3, <4>1, <4>2, <4>3, <4>4, Zenon
      <3> QED
        BY <3>1, <3>2
    <2>4. CASE OnDemandNow'
      BY <2>3, <2>4
    <2>5. CASE ~OnDemandNow'
      BY <1>3, <2>1, <2>5
    <2> QED
      BY <2>4, <2>5
  <1> QED
    BY <1>1, <1>4 DEF DemandInv

----------------------------------------------------------------------------
(* While the peer answers.                                                 *)

\* What is left is no less than nothing.
LEMMA LeftNat ==
  ASSUME TypeOK
  PROVE  Left(tick) \in Nat /\ Left(tick) <= Interval /\ (tick > 0 => Left(tick) = tick)
  BY Fields, HeartbeatAssumption DEF Left

\* The time to the next mark, place by place.
LEMMA ToMarkIs ==
  /\ req.pc = "select" => ToMark = Left(tick) + Cost(ToCome) + Delay
  /\ OnDemandNow => ToMark = Delay - req.age + Left(tick) + Cost(ToCome) + Delay
  /\ req.pc = "read" /\ ~OnDemandNow => ToMark = Delay - req.age
  /\ req.pc = "mark" => ToMark = 0
  BY DEF ToMark, OnDemandNow

\* The same after a step.
LEMMA ToMarkIsNext ==
  /\ req'.pc = "select" => ToMark' = Left(tick') + Cost(ToCome') + Delay
  /\ OnDemandNow' => ToMark' = Delay - req'.age + Left(tick') + Cost(ToCome') + Delay
  /\ req'.pc = "read" /\ ~OnDemandNow' => ToMark' = Delay - req'.age
  /\ req'.pc = "mark" => ToMark' = 0
  BY DEF ToMark, OnDemandNow, Left, Cost

\* It is never longer than the slack of a deadline allows for.
LEMMA ToMarkBound ==
  ASSUME TypeOK, TimerInv, DemandInv, req.pc # "exited"
  PROVE  ToMark \in Nat /\ ToMark <= Interval + Cost(MaxBeats + 1)
  <1>1. /\ Left(tick) \in Nat /\ Left(tick) <= Interval /\ ToCome \in Nat /\ Delay \in Nat
        /\ req.age \in Nat /\ req.age <= Delay /\ MaxBeats \in Nat /\ Interval \in Nat
    BY LeftNat, ToComeNat, Fields, HeartbeatAssumption DEF TimerInv
  <1>2. ToCome <= MaxBeats /\ (OnDemandNow => ToCome + 1 <= MaxBeats)
    BY <1>1 DEF DemandInv
  <1>3. /\ Cost(ToCome) \in Nat /\ Cost(MaxBeats) \in Nat /\ Cost(ToCome) <= Cost(MaxBeats)
        /\ Cost(MaxBeats + 1) = Cost(MaxBeats) + Delay
        /\ Cost(ToCome + 1) = Cost(ToCome) + Delay
    BY <1>1, <1>2, CostFacts
  <1>4. OnDemandNow => Cost(ToCome) + Delay <= Cost(MaxBeats)
    <2>1. ToCome + 1 \in Nat
      BY <1>1
    <2>2. OnDemandNow => Cost(ToCome + 1) <= Cost(MaxBeats)
      BY <1>1, <1>2, <2>1, CostFacts
    <2> QED
      BY <1>3, <2>2
  <1>5. req.pc \in {"select", "read", "mark"}
    BY Fields
  <1>6. CASE req.pc = "select"
    BY <1>1, <1>3, <1>6, ToMarkIs
  <1>7. CASE OnDemandNow
    BY <1>1, <1>3, <1>4, <1>7, ToMarkIs
  <1>8. CASE req.pc = "read" /\ ~OnDemandNow
    BY <1>1, <1>3, <1>8, ToMarkIs
  <1>9. CASE req.pc = "mark"
    BY <1>1, <1>3, <1>9, ToMarkIs
  <1> QED
    BY <1>5, <1>6, <1>7, <1>8, <1>9

\* The numbers that the time to the next mark is made of, before and after.
LEMMA CostSteps ==
  ASSUME TypeOK, TypeOK', DemandInv, DemandInv', Next
  PROVE  \E c, d \in Nat : /\ c = Cost(ToCome) /\ d = Cost(ToCome')
                           /\ IF OnDemand THEN c = d + Delay ELSE d <= c
  <1>1. ToCome \in Nat
    BY ToComeNat
  <1>2. ToCome' \in Nat
    <2>1. Cardinality(Sending') \in Nat
      BY FS_CardinalityType DEF DemandInv
    <2>2. Len(demand') \in Nat /\ beats' \in 0..MaxBeats
      BY DEF TypeOK
    <2>3. MaxBeats - beats' \in Nat
      <3>1. \A b \in 0..MaxBeats : MaxBeats - b \in Nat
        BY HeartbeatAssumption
      <3> QED
        BY <2>2, <3>1, Zenon
    <2> QED
      BY <2>1, <2>2, <2>3 DEF ToCome
  <1>3. PICK t \in Nat, u \in Nat : t = ToCome /\ u = ToCome'
    BY <1>1, <1>2
  <1>4. \/ OnDemand /\ u = t - 1
        \/ ~OnDemand /\ u <= t
    BY <1>3, DemandSteps
  <1>5. CASE OnDemand
    <2>1. u = t - 1
      BY <1>4, <1>5
    <2>3. t = u + 1
      BY <2>1
    <2>2. Cost(t) \in Nat /\ Cost(u) \in Nat /\ Cost(t) = Cost(u) + Delay
      BY <2>3, CostFacts
    <2> QED
      BY <1>3, <1>5, <2>2
  <1>6. CASE ~OnDemand
    <2>1. Cost(t) \in Nat /\ Cost(u) \in Nat /\ Cost(u) <= Cost(t)
      BY <1>3, <1>4, <1>6, CostFacts
    <2> QED
      BY <1>3, <1>6, <2>1
  <1> QED
    BY <1>5, <1>6

\* No step but the clock's and the mark itself changes when the next mark is
\* due for the later.
LEMMA ToMarkSteps ==
  ASSUME TypeOK, TypeOK', TimerInv, DemandInv, DemandInv', Next, ~Pass, ~MarkSend,
         req'.pc # "exited"
  PROVE  ToMark' <= ToMark
  <1>1. /\ Left(tick) \in Nat /\ Delay \in Nat /\ req.age \in Nat /\ req.age <= Delay
        /\ req \in Requester /\ tick \in Int
    BY LeftNat, Fields, HeartbeatAssumption DEF TimerInv, TypeOK
  <1>2. PICK c \in Nat, d \in Nat : /\ c = Cost(ToCome) /\ d = Cost(ToCome')
                                    /\ IF OnDemand THEN c = d + Delay ELSE d <= c
    BY CostSteps
  <1>3. CASE OnDemand
    <2>1. req.pc = "select" /\ req'.pc = "read" /\ req'.age = 0 /\ tick' = tick
      BY <1>3 DEF OnDemand, Request
    <2>2. ToMark = Left(tick) + c + Delay /\ c = d + Delay
      BY <1>2, <1>3, <2>1, ToMarkIs
    <2>3. CASE OnDemandNow'
      <3>1. ToMark' = Delay - 0 + Left(tick) + d + Delay
        BY <1>2, <2>1, <2>3, ToMarkIsNext
      <3> QED
        BY <1>1, <1>2, <2>2, <3>1
    <2>4. CASE ~OnDemandNow'
      <3>1. ToMark' = Delay - 0
        BY <2>1, <2>4, ToMarkIsNext
      <3> QED
        BY <1>1, <1>2, <2>2, <3>1
    <2> QED
      BY <2>3, <2>4
  <1>4. CASE Tick
    <2>1. req.pc = "select" /\ req'.pc = "read" /\ req'.age = 0 /\ ~OnDemandNow'
      BY <1>4 DEF Tick, Request, OnDemandNow
    <2>2. ToMark = Left(tick) + c + Delay
      BY <1>2, <2>1, ToMarkIs
    <2>3. ToMark' = Delay - 0
      BY <2>1, ToMarkIsNext
    <2> QED
      BY <1>1, <1>2, <2>2, <2>3
  <1>5. CASE Answer
    <2>1. req.pc = "read" /\ tick' = tick /\ ~OnDemand
      BY <1>5 DEF Answer, OnDemand
    <2>2. CASE OnDemandNow
      <3>1. req'.pc = "select"
        BY <1>1, <1>5, <2>2 DEF Answer, Answered, OnDemandNow, Requester
      <3>2. ToMark' = Left(tick) + d + Delay
        BY <1>2, <2>1, <3>1, ToMarkIsNext
      <3>3. ToMark = Delay - req.age + Left(tick) + c + Delay
        BY <1>2, <2>2, ToMarkIs
      <3>4. d <= c
        BY <1>2, <2>1
      <3> QED
        BY <1>1, <1>2, <3>2, <3>3, <3>4
    <2>3. CASE ~OnDemandNow
      <3>1. req'.pc = "mark"
        BY <1>1, <1>5, <2>1, <2>3 DEF Answer, Answered, OnDemandNow, Requester
      <3>2. ToMark' = 0
        BY <3>1, ToMarkIsNext
      <3>3. ToMark = Delay - req.age
        BY <2>1, <2>3, ToMarkIs
      <3> QED
        BY <1>1, <3>2, <3>3
    <2> QED
      BY <2>2, <2>3
  <1>6. ~RequestFails /\ ~WrongId /\ ~RequesterDropped
    BY <1>1 DEF RequestFails, WrongId, RequesterDropped, Exit, Requester
  <1>7. CASE req' = req /\ tick' = tick /\ ~OnDemand
    <2>1. d <= c /\ (OnDemandNow' <=> OnDemandNow) /\ req'.pc = req.pc /\ req'.age = req.age
      BY <1>2, <1>7 DEF OnDemandNow
    <2>2. req.pc \in {"select", "read", "mark"}
      BY <1>7, Fields
    <2>3. CASE req.pc = "select"
      <3>1. ToMark = Left(tick) + c + Delay /\ ToMark' = Left(tick) + d + Delay
        BY <1>2, <1>7, <2>3, ToMarkIs, ToMarkIsNext
      <3> QED
        BY <1>1, <1>2, <2>1, <3>1
    <2>4. CASE OnDemandNow
      <3>1. /\ ToMark = Delay - req.age + Left(tick) + c + Delay
            /\ ToMark' = Delay - req.age + Left(tick) + d + Delay
        BY <1>2, <1>7, <2>1, <2>4, ToMarkIs, ToMarkIsNext
      <3> QED
        BY <1>1, <1>2, <2>1, <3>1
    <2>5. CASE req.pc = "read" /\ ~OnDemandNow
      <3>1. ToMark = Delay - req.age /\ ToMark' = Delay - req.age
        BY <1>7, <2>1, <2>5, ToMarkIs, ToMarkIsNext
      <3> QED
        BY <1>1, <3>1
    <2>6. CASE req.pc = "mark"
      <3>1. ToMark = 0 /\ ToMark' = 0
        BY <1>7, <2>6, ToMarkIs, ToMarkIsNext
      <3> QED
        BY <3>1
    <2> QED
      BY <2>2, <2>3, <2>4, <2>5, <2>6
  <1>8. CASE req' = req /\ tick' = tick
    BY <1>3, <1>7, <1>8
  <1> QED
    BY <1>3, <1>4, <1>5, <1>6, <1>8
       DEF Next, RequesterStep, CheckStep, CallerStep, Beat, Ask, SetInterval, SetTolerance,
           DropCtl, Marked, Timeout, Closed, CallbackDone, CallbackFails, CheckDropped,
           GoSilent, StreamEnds

\* The clock: it passes only when nothing is due, and the next mark comes
\* nearer.
LEMMA ToMarkPass ==
  ASSUME TypeOK, TypeOK', TimerInv, DemandInv, DemandInv', Pass,
         check.pc = "wait", mark = 0, req.pc # "exited", peer.answers
  PROVE  ToMark' <= ToMark - 1
  <1>1. /\ Left(tick) \in Nat /\ Delay \in Nat /\ req.age \in Nat /\ req.age <= Delay
        /\ req \in Requester /\ tick \in Int /\ MaxMissed \in Nat /\ ToCome \in Nat
    BY LeftNat, ToComeNat, Fields, HeartbeatAssumption DEF TimerInv, TypeOK
  <1>2. /\ req.pc = "select" => tick > 0
        /\ req.pc = "read" => req.age < Delay
        /\ req.pc # "mark"
    BY <1>1 DEF Pass, Busy
  <1>3. /\ req'.pc = req.pc /\ (OnDemandNow' <=> OnDemandNow)
        /\ req.pc = "read" => req'.age = req.age + 1
    BY <1>1, <1>2 DEF Pass, Requester, OnDemandNow
  <1>4. Left(tick') \in Nat /\ Left(tick') <= Left(tick) /\ (tick > 0 => Left(tick') = Left(tick) - 1)
    <2>1. tick' = IF tick > -MaxMissed THEN tick - 1 ELSE tick
      BY DEF Pass
    <2> QED
      BY <1>1, <2>1 DEF Left
  <1>5. ToCome' = ToCome
    <2>1. Sending' = Sending /\ beats' = beats /\ demand' = demand
      BY DEF Pass, application, Sending
    <2> QED
      BY <2>1 DEF ToCome
  <1>6. PICK c \in Nat : c = Cost(ToCome) /\ c = Cost(ToCome')
    BY <1>1, <1>5, CostFacts
  <1>7. req.pc \in {"select", "read"}
    BY <1>2, Fields
  <1>8. CASE req.pc = "select"
    <2>1. ToMark = Left(tick) + c + Delay /\ ToMark' = Left(tick') + c + Delay
      BY <1>3, <1>6, <1>8, ToMarkIs, ToMarkIsNext
    <2>2. Left(tick') = Left(tick) - 1
      BY <1>2, <1>4, <1>8
    <2> QED
      BY <1>1, <1>4, <1>6, <2>1, <2>2
  <1>9. CASE OnDemandNow
    <2>1. req.pc = "read" /\ req'.age = req.age + 1
      BY <1>3, <1>9 DEF OnDemandNow
    <2>2. /\ ToMark = Delay - req.age + Left(tick) + c + Delay
          /\ ToMark' = Delay - req'.age + Left(tick') + c + Delay
      BY <1>3, <1>6, <1>9, ToMarkIs, ToMarkIsNext
    <2> QED
      BY <1>1, <1>4, <1>6, <2>1, <2>2
  <1>10. CASE req.pc = "read" /\ ~OnDemandNow
    <2>1. req'.age = req.age + 1
      BY <1>3, <1>10
    <2>2. ToMark = Delay - req.age /\ ToMark' = Delay - req'.age
      BY <1>3, <1>10, ToMarkIs, ToMarkIsNext
    <2> QED
      BY <1>1, <2>1, <2>2
  <1> QED
    BY <1>7, <1>8, <1>9, <1>10

\* The first tick is due at once.
LEMMA InitTimely ==
  ASSUME HasLongest, Slack, Init, TypeOK, TimerInv, DemandInv
  PROVE  TimelyInv
  <1>1. check.left = Deadline(dur) /\ req.pc # "exited"
    BY DEF Init
  <1>2. ToMark \in Nat /\ ToMark <= Interval + Cost(MaxBeats + 1)
    BY <1>1, ToMarkBound
  <1>3. Deadline(dur) > Interval + Cost(MaxBeats + 1) /\ Deadline(dur) \in Nat
    BY DeadlineBounds
  <1>4. Interval + Cost(MaxBeats + 1) \in Nat
    <2>1. MaxBeats + 1 \in Nat /\ Interval \in Nat
      BY HeartbeatAssumption
    <2> QED
      BY <2>1, CostFacts
  <1>5. ToMark < check.left
    BY <1>1, <1>2, <1>3, <1>4
  <1> QED
    BY <1>5 DEF TimelyInv

\* The requester that has ended stays so.
LEMMA ExitedStays ==
  ASSUME TypeOK, Next, req'.pc # "exited"
  PROVE  req.pc # "exited"
  <1>1. CASE Pass
    BY <1>1 DEF Pass, TypeOK, Requester
  <1>2. CASE OnDemand \/ Tick \/ Answer \/ MarkSend \/ RequestFails \/ WrongId
    BY <1>2 DEF OnDemand, Tick, Answer, MarkSend, RequestFails, WrongId
  <1>3. CASE RequesterDropped
    BY <1>3 DEF RequesterDropped
  <1>4. CASE req' = req
    BY <1>4
  <1> QED
    BY <1>1, <1>2, <1>3, <1>4
       DEF Next, RequesterStep, CheckStep, CallerStep, Beat, Ask, SetInterval, SetTolerance,
           DropCtl, Marked, Timeout, Closed, CallbackDone, CallbackFails, CheckDropped,
           GoSilent, StreamEnds

\* The channel of marks: MarkSend fills it, Marked empties it.
LEMMA MarkSteps ==
  ASSUME TypeOK, Next
  PROVE  \/ mark' = mark /\ ~Marked /\ (MarkSend => check.pc = "exited")
         \/ Marked
         \/ MarkSend /\ mark = 0 /\ mark' = 1 /\ check' = check
  <1>1. CASE Marked
    BY <1>1
  <1>2. CASE MarkSend
    <2>1. CASE check.pc = "exited"
      BY <1>1, <1>2, <2>1 DEF MarkSend
    <2>2. CASE check.pc # "exited"
      BY <1>2, <2>2 DEF MarkSend
    <2> QED
      BY <2>1, <2>2
  <1>3. CASE mark' = mark
    BY <1>1, <1>2, <1>3
  <1> QED
    BY <1>1, <1>2, <1>3
       DEF Next, RequesterStep, CheckStep, CallerStep, Beat, Ask, SetInterval, SetTolerance,
           DropCtl, OnDemand, Tick, Answer, RequestFails, WrongId, RequesterDropped, Timeout,
           Closed, CallbackDone, CallbackFails, CheckDropped, GoSilent, StreamEnds, Pass

\* A step keeps the next mark before the deadline.
LEMMA NextTimely ==
  ASSUME HasLongest, Slack, TypeOK, TypeOK', TimerInv, DemandInv, DemandInv', TimelyInv, Next
  PROVE  TimelyInv'
  <1> SUFFICES ASSUME check'.pc = "wait", mark' = 0, req'.pc # "exited", peer'.answers
               PROVE  ToMark' < check'.left
    BY DEF TimelyInv
  <1>1. peer.answers /\ req.pc # "exited"
    BY PeerSteps, ExitedStays
  <1>2. ~Marked /\ ~(MarkSend /\ check.pc # "exited")
    <2>1. ~Marked
      BY DEF Marked, Callback
    <2>2. MarkSend /\ check.pc # "exited" => mark' = 1
      BY DEF MarkSend
    <2> QED
      BY <2>1, <2>2
  <1>3. mark = 0
    BY <1>2, MarkSteps
  <1>4. ToMark \in Nat /\ ToMark <= Interval + Cost(MaxBeats + 1)
    BY <1>1, ToMarkBound
  <1>5. Interval + Cost(MaxBeats + 1) \in Nat
    <2>1. MaxBeats + 1 \in Nat /\ Interval \in Nat
      BY HeartbeatAssumption
    <2> QED
      BY <2>1, CostFacts
  <1>6. ToMark' \in Int
    <2>1. PICK c \in Nat, d \in Nat : c = Cost(ToCome) /\ d = Cost(ToCome')
      BY CostSteps
    <2>2. req'.age \in Nat /\ Delay \in Nat /\ Left(tick') \in Nat
          /\ req'.pc \in {"select", "read", "mark"}
      BY HeartbeatAssumption DEF TypeOK, Requester, Left
    <2> QED
      BY <2>1, <2>2, ToMarkIsNext
  <1>7. check.left \in Nat
    BY Fields
  <1>8. CASE check' = check
    <2>1. check.pc = "wait" /\ ToMark < check.left
      BY <1>1, <1>3, <1>8 DEF TimelyInv
    <2>2. ToMark' <= ToMark
      <3>1. CASE Pass
        <4>1. ToMark' <= ToMark - 1
          BY <1>1, <1>3, <2>1, <3>1, ToMarkPass
        <4> QED
          BY <1>4, <1>6, <4>1
      <3>2. CASE ~Pass
        BY <1>2, <2>1, <3>2, ToMarkSteps
      <3> QED
        BY <3>1, <3>2
    <2> QED
      BY <1>4, <1>6, <1>7, <1>8, <2>1, <2>2
  <1>9. CASE check'.pc = "wait" /\ check'.left = Deadline(dur) /\ check.pc = "callback"
    <2>1. ~Pass
      BY <1>9 DEF Pass, TypeOK, Check
    <2>2. ToMark' <= ToMark
      BY <1>2, <1>9, <2>1, ToMarkSteps
    <2>3. Deadline(dur) \in Nat /\ Deadline(dur) > Interval + Cost(MaxBeats + 1)
      BY DeadlineBounds
    <2> QED
      BY <1>4, <1>5, <1>6, <1>9, <2>2, <2>3
  <1>10. CASE Pass /\ check'.pc = check.pc
                /\ check'.left = IF check.left > 0 THEN check.left - 1 ELSE 0
    <2>1. check.pc = "wait" /\ ToMark < check.left
      BY <1>1, <1>3, <1>10 DEF TimelyInv
    <2>2. ToMark' <= ToMark - 1
      BY <1>1, <1>3, <1>10, <2>1, ToMarkPass
    <2>3. check'.left = check.left - 1
      BY <1>4, <1>7, <1>10, <2>1
    <2> QED
      BY <1>4, <1>6, <1>7, <2>1, <2>2, <2>3
  <1> QED
    BY <1>8, <1>9, <1>10, CheckSteps

----------------------------------------------------------------------------
(* Once the peer does not answer.                                          *)

\* Nobody has been silent yet.
LEMMA InitSilent ==
  ASSUME Init
  PROVE  SilentInv
  BY DEF Init, SilentInv

\* A late mark is taken: one handler less stands before the alarm.
LEMMA MarkedSilent ==
  ASSUME TypeOK, TimerInv, SilentInv, Marked, ~peer.answers, req.pc # "exited"
  PROVE  SilentInv'
  <1>1. /\ CbTime \in Nat /\ quiet \in Nat /\ quiet' = quiet /\ req' = req /\ mark = 1 /\ mark' = 0
        /\ check.pc = "wait" /\ check'.pc = "callback" /\ check'.left = CbTime
    BY Fields, HeartbeatAssumption DEF Marked, Callback
  <1>2. /\ req.pc = "mark" => quiet <= CbTime
        /\ req.pc # "mark" => quiet <= 2 * CbTime
    BY <1>1 DEF SilentInv, InHandler
  <1> QED
    BY <1>1, <1>2 DEF SilentInv

\* The deadline is over: the alarm is raised.
LEMMA TimeoutSilent ==
  ASSUME TypeOK, TimerInv, SilentInv, Timeout, ~peer.answers
  PROVE  SilentInv'
  <1>1. /\ CbTime \in Nat /\ quiet \in Nat /\ quiet' = quiet /\ req' = req /\ mark = 0 /\ mark' = 0
        /\ check.pc = "wait" /\ req.pc # "exited"
    BY Fields, HeartbeatAssumption DEF Timeout
  <1>2. alarm'
    BY DEF Timeout
  <1>3. req.pc = "mark" => quiet <= CbTime
    BY <1>1 DEF SilentInv
  <1> QED
    BY <1>1, <1>2, <1>3 DEF SilentInv

\* The handler returns, and a new deadline is set.
LEMMA DoneSilent ==
  ASSUME HasLongest, TypeOK, TimerInv, SilentInv, CallbackDone, ~peer.answers, req.pc # "exited"
  PROVE  SilentInv'
  <1>1. /\ CbTime \in Nat /\ quiet \in Nat /\ quiet' = quiet /\ req' = req /\ mark' = mark
        /\ check.pc = "callback" /\ check.left \in Nat /\ check.left <= CbTime
        /\ check'.pc = "wait" /\ check'.left = Deadline(dur) /\ mark \in 0..1
    BY Fields, HeartbeatAssumption DEF CallbackDone, TimerInv
  <1>2. alarm' = alarm
    BY DEF CallbackDone
  <1>3. Deadline(dur) \in Nat /\ Deadline(dur) <= Longest /\ Longest \in Nat
    BY DeadlineBounds, LongestIs
  <1>4. InHandler = check.left /\ InHandler' = 0
    BY <1>1 DEF InHandler
  <1>5. /\ req.pc = "mark" /\ mark = 0 => quiet <= CbTime
        /\ req.pc = "mark" /\ mark = 1 => quiet + check.left <= CbTime
        /\ req.pc # "mark" /\ mark = 1 => quiet + check.left <= 2 * CbTime
        /\ req.pc # "mark" /\ mark = 0 /\ ~alarm => quiet + check.left <= 3 * CbTime
    BY <1>1, <1>4 DEF SilentInv
  <1>6. /\ req'.pc = "mark" /\ mark' = 0 => quiet' <= CbTime
        /\ req'.pc = "mark" /\ mark' = 1 => quiet' + 0 <= CbTime
        /\ req'.pc # "mark" /\ mark' = 1 => quiet' + 0 <= 2 * CbTime
    BY <1>1, <1>5
  <1>7. ASSUME req'.pc # "mark", mark' = 0, ~alarm'
        PROVE  quiet' + check'.left <= Longest + 3 * CbTime
    <2>1. quiet + check.left <= 3 * CbTime
      BY <1>1, <1>2, <1>5, <1>7
    <2> QED
      BY <1>1, <1>3, <2>1
  <1> QED
    BY <1>1, <1>4, <1>6, <1>7 DEF SilentInv

\* The last mark of a peer that has gone silent since.
LEMMA SendSilent ==
  ASSUME TypeOK, TimerInv, SilentInv, MarkSend, ~peer.answers, check.pc # "exited"
  PROVE  SilentInv'
  <1>1. /\ CbTime \in Nat /\ quiet \in Nat /\ quiet' = quiet /\ check' = check
        /\ mark = 0 /\ mark' = 1 /\ req.pc = "mark" /\ req'.pc = "select"
        /\ check.left \in Nat /\ (check.pc = "callback" => check.left <= CbTime)
    BY Fields, HeartbeatAssumption DEF MarkSend, TimerInv, TypeOK, Requester
  <1>2. quiet <= CbTime
    BY <1>1 DEF SilentInv
  <1>3. InHandler' \in Nat /\ InHandler' <= CbTime
    BY <1>1 DEF InHandler
  <1>4. quiet' + InHandler' <= 2 * CbTime
    <2>1. PICK h : h = InHandler'
      OBVIOUS
    <2>2. h \in Nat /\ h <= CbTime
      BY <1>3, <2>1
    <2>3. quiet + h <= 2 * CbTime
      BY <1>1, <1>2, <2>2
    <2> QED
      BY <1>1, <2>1, <2>3
  <1> QED
    BY <1>1, <1>4 DEF SilentInv

\* The clock.
LEMMA PassSilent ==
  ASSUME HasLongest, TypeOK, SilentInv, Pass, ~peer.answers
  PROVE  SilentInv'
  <1>1. /\ CbTime \in Nat /\ quiet \in Nat /\ mark' = mark /\ mark \in 0..1
        /\ check.left \in Nat /\ check \in Check /\ req \in Requester
    BY Fields, HeartbeatAssumption DEF Pass, TypeOK
  <1>2. alarm' = alarm /\ peer' = peer
    BY DEF Pass
  <1>3. req'.pc = req.pc /\ check'.pc = check.pc
    BY <1>1 DEF Pass, Requester, Check
  <1>4. quiet' = quiet + 1 \/ quiet' = quiet
    BY DEF Pass
  <1>5. /\ ~(req.pc = "mark" /\ mark = 0)
        /\ ~(check.pc = "wait" /\ (mark = 1 \/ check.left = 0))
        /\ ~(check.pc = "callback" /\ check.left = 0)
    BY DEF Pass, Busy
  <1> SUFFICES ASSUME req.pc # "exited", check.pc # "exited"
               PROVE  SilentInv'
    BY <1>3 DEF SilentInv
  <1>6. check.left > 0 /\ check'.left = check.left - 1
    <2>1. check.pc \in {"wait", "callback"}
      BY Fields
    <2>2. check.left > 0
      BY <1>1, <1>5, <2>1
    <2>3. check'.left = IF check.left > 0 THEN check.left - 1 ELSE 0
      BY <1>1 DEF Pass, Check
    <2> QED
      BY <2>2, <2>3
  <1>7. \A n \in Nat : quiet + check.left <= n => quiet' + check'.left <= n
    BY <1>1, <1>4, <1>6
  <1>8. CASE mark = 1
    <2>1. check.pc = "callback" /\ InHandler = check.left /\ InHandler' = check'.left
      BY <1>3, <1>5, <1>8, Fields DEF InHandler
    <2>2. /\ req.pc = "mark" => quiet + check.left <= CbTime
          /\ req.pc # "mark" => quiet + check.left <= 2 * CbTime
      BY <1>8, <2>1 DEF SilentInv
    <2>3. /\ req'.pc = "mark" => quiet' + check'.left <= CbTime
          /\ req'.pc # "mark" => quiet' + check'.left <= 2 * CbTime
      BY <1>1, <1>3, <1>7, <2>2
    <2>4. mark' = 1
      BY <1>1, <1>8
    <2> QED
      BY <2>1, <2>3, <2>4 DEF SilentInv
  <1>9. CASE mark = 0
    <2>1. req.pc # "mark" /\ req'.pc # "mark" /\ mark' = 0
      BY <1>1, <1>3, <1>5, <1>9
    <2>2. ASSUME ~alarm'
          PROVE  IF check'.pc = "callback" THEN quiet' + check'.left <= 3 * CbTime
                 ELSE quiet' + check'.left <= Longest + 3 * CbTime
      <3>1. ~alarm
        BY <1>2, <2>2
      <3>2. IF check.pc = "callback" THEN quiet + check.left <= 3 * CbTime
            ELSE quiet + check.left <= Longest + 3 * CbTime
        BY <1>9, <2>1, <3>1 DEF SilentInv
      <3>3. CASE check.pc = "callback"
        BY <1>1, <1>3, <1>7, <3>2, <3>3
      <3>4. CASE check.pc # "callback"
        <4>1. Longest + 3 * CbTime \in Nat
          BY <1>1, LongestIs
        <4> QED
          BY <1>3, <1>7, <3>2, <3>4, <4>1
      <3> QED
        BY <3>3, <3>4
    <2> QED
      BY <2>1, <2>2 DEF SilentInv
  <1> QED
    BY <1>1, <1>8, <1>9

\* The peer goes silent: all timers are within what they were made.
LEMMA GoSilentSilent ==
  ASSUME HasLongest, TypeOK, TimerInv, GoSilent
  PROVE  SilentInv'
  <1>1. /\ CbTime \in Nat /\ quiet' = 0 /\ mark' = mark /\ mark \in 0..1
        /\ check.left \in Nat /\ check' = check /\ Longest \in Nat
        /\ check.pc \in {"wait", "callback", "exited"}
        /\ check.pc = "callback" => check.left <= CbTime
        /\ check.pc = "wait" => check.left <= Longest
    BY Fields, LongestIs, HeartbeatAssumption DEF GoSilent, TimerInv
  <1>2. InHandler' \in Nat /\ InHandler' <= CbTime
    BY <1>1 DEF InHandler
  <1>3. /\ quiet' <= CbTime /\ quiet' + InHandler' <= CbTime
        /\ quiet' + InHandler' <= 2 * CbTime
    <2>1. PICK h : h = InHandler'
      OBVIOUS
    <2>2. h \in Nat /\ h <= CbTime
      BY <1>2, <2>1
    <2>3. 0 <= CbTime /\ 0 + h <= CbTime /\ 0 + h <= 2 * CbTime
      BY <1>1, <2>2
    <2> QED
      BY <1>1, <2>1, <2>3
  <1>4. check'.pc # "exited" =>
          IF check'.pc = "callback" THEN quiet' + check'.left <= 3 * CbTime
          ELSE quiet' + check'.left <= Longest + 3 * CbTime
    BY <1>1
  <1> QED
    BY <1>3, <1>4 DEF SilentInv

\* A step keeps the count-down of silence.
LEMMA NextSilent ==
  ASSUME HasLongest, TypeOK, TimerInv, SilentInv, Next
  PROVE  SilentInv'
  <1> SUFFICES ASSUME ~peer'.answers, req'.pc # "exited", check'.pc # "exited"
               PROVE  SilentInv'
    BY DEF SilentInv
  <1>0. req.pc # "exited"
    BY ExitedStays
  <1>1. CASE GoSilent
    BY <1>1, GoSilentSilent
  <1>2. ~GoSilent => ~peer.answers
    <2>1. ~GoSilent => peer'.answers = peer.answers
      BY DEF Next, RequesterStep, CheckStep, CallerStep, Beat, Ask, SetInterval, SetTolerance,
         DropCtl, OnDemand, Tick, Answer, MarkSend, RequestFails, WrongId, RequesterDropped,
         Marked, Timeout, Closed, CallbackDone, CallbackFails, CheckDropped, StreamEnds, Pass,
         TypeOK
    <2> QED
      BY <2>1
  <1>3. CASE Pass
    BY <1>2, <1>3, PassSilent DEF Pass
  <1>4. CASE Marked
    BY <1>0, <1>2, <1>4, MarkedSilent DEF Marked
  <1>5. CASE Timeout
    BY <1>2, <1>5, TimeoutSilent DEF Timeout
  <1>6. CASE CallbackDone
    BY <1>0, <1>2, <1>6, DoneSilent DEF CallbackDone
  <1>7. CASE MarkSend
    <2>1. check.pc # "exited" /\ peer' = peer
      BY <1>7 DEF MarkSend
    <2> QED
      BY <1>7, <2>1, SendSilent
  <1>8. CASE /\ UNCHANGED <<check, mark, alarm, quiet>> /\ peer'.answers = peer.answers
             /\ req'.pc = "mark" <=> req.pc = "mark"
    <2>1. InHandler' = InHandler
      BY <1>8 DEF InHandler
    <2> QED
      BY <1>0, <1>8, <2>1 DEF SilentInv
  <1>9. CASE OnDemand \/ Tick
    BY <1>8, <1>9 DEF OnDemand, Tick, Request
  <1>10. CASE Answer
    BY <1>2, <1>10 DEF Answer, GoSilent
  <1>11. ~(RequestFails \/ WrongId \/ RequesterDropped)
    BY DEF RequestFails, WrongId, RequesterDropped, Exit, TypeOK, Requester
  <1>12. ~(Closed \/ CallbackFails \/ CheckDropped)
    BY DEF Closed, CallbackFails, CheckDropped, TypeOK, Check
  <1>13. CASE StreamEnds
    BY <1>8, <1>13 DEF StreamEnds, TypeOK
  <1>14. CASE UNCHANGED <<check, mark, alarm, quiet, req, peer>>
    BY <1>8, <1>14
  <1> QED
    BY <1>1, <1>3, <1>4, <1>5, <1>6, <1>7, <1>9, <1>10, <1>11, <1>12, <1>13, <1>14
       DEF Next, RequesterStep, CheckStep, CallerStep, Beat, Ask, SetInterval, SetTolerance,
           DropCtl

----------------------------------------------------------------------------
(* What the handler hears.                                                 *)

\* The handler is told None only by Timeout.
LEMMA NextNoFalseAlarm ==
  ASSUME TypeOK, DemandInv, TimerInv, TimelyInv, NoFalseAlarm, Next
  PROVE  NoFalseAlarm'
  <1> SUFFICES ASSUME alarm', peer'.answers
               PROVE  FALSE
    BY DEF NoFalseAlarm
  <1>1. peer.answers /\ ~alarm
    BY PeerSteps DEF NoFalseAlarm
  <1>2. Timeout
    BY <1>1 DEF Next, RequesterStep, CheckStep, CallerStep, Beat, Ask, SetInterval, SetTolerance,
         DropCtl, OnDemand, Tick, Answer, MarkSend, RequestFails, WrongId, RequesterDropped,
         Marked, Closed, CallbackDone, CallbackFails, CheckDropped, GoSilent, StreamEnds, Pass
  <1>3. check.pc = "wait" /\ mark = 0 /\ check.left = 0 /\ req.pc # "exited"
    BY <1>2 DEF Timeout
  <1>4. ToMark < 0 /\ ToMark \in Nat
    BY <1>1, <1>3, ToMarkBound DEF TimelyInv
  <1> QED
    BY <1>4

\* The invariant is one.
LEMMA InitAlarm ==
  ASSUME HasLongest, Slack, Init
  PROVE  AlarmInv
  <1>1. TypeOK /\ TimerInv /\ DemandInv /\ SilentInv
    BY InitTyped, InitTimers, InitDemand, InitSilent
  <1>2. TimelyInv
    BY <1>1, InitTimely
  <1>3. NoFalseAlarm
    BY DEF Init, NoFalseAlarm
  <1> QED
    BY <1>1, <1>2, <1>3 DEF AlarmInv

\* Every step keeps it.
LEMMA NextAlarm ==
  ASSUME HasLongest, Slack, AlarmInv, [Next]_vars
  PROVE  AlarmInv'
  <1> USE DEF AlarmInv
  <1>1. CASE Next
    <2>1. TypeOK' /\ TimerInv'
      BY <1>1, NextTyped, NextTimers
    <2>2. DemandInv' /\ SilentInv' /\ NoFalseAlarm'
      BY <1>1, <2>1, NextDemand, NextSilent, NextNoFalseAlarm
    <2>3. TimelyInv'
      BY <1>1, <2>1, <2>2, NextTimely
    <2> QED
      BY <2>1, <2>2, <2>3
  <1>2. CASE UNCHANGED vars
    <2>1. TypeOK' /\ TimerInv'
      BY <1>2 DEF vars, TypeOK, TimerInv
    <2>2. DemandInv' /\ TimelyInv'
      BY <1>2 DEF vars, DemandInv, TimelyInv, ToCome, Sending, OnDemandNow, ToMark, Left, Cost
    <2>3. SilentInv' /\ NoFalseAlarm'
      BY <1>2 DEF vars, SilentInv, NoFalseAlarm, InHandler
    <2> QED
      BY <2>1, <2>2, <2>3
  <1> QED
    BY <1>1, <1>2

\* A silence that is longer than all it may take has been reported.
LEMMA AlarmDetects ==
  ASSUME HasLongest, AlarmInv
  PROVE  AlarmIsTrue
  <1>1. TypeOK /\ NoFalseAlarm /\ SilentInv /\ TimerInv
    BY DEF AlarmInv
  <1>2. /\ CbTime \in Nat /\ quiet \in Nat /\ Longest \in Nat /\ check.left \in Nat
        /\ mark \in 0..1 /\ check.pc \in {"wait", "callback", "exited"}
    BY <1>1, Fields, LongestIs, HeartbeatAssumption
  <1>3. ASSUME quiet > Longest + 3 * CbTime, ~alarm, check.pc # "exited", req.pc # "exited"
        PROVE  FALSE
    <2>1. ~peer.answers
      BY <1>1, <1>2, <1>3 DEF TimerInv
    <2>2. InHandler \in Nat
      BY <1>2 DEF InHandler
    <2>3. /\ req.pc = "mark" /\ mark = 0 => quiet <= CbTime
          /\ req.pc = "mark" /\ mark = 1 => quiet + InHandler <= CbTime
          /\ req.pc # "mark" /\ mark = 1 => quiet + InHandler <= 2 * CbTime
      BY <1>1, <1>3, <2>1 DEF SilentInv
    <2>4. req.pc # "mark" /\ mark = 0 =>
            IF check.pc = "callback" THEN quiet + check.left <= 3 * CbTime
            ELSE quiet + check.left <= Longest + 3 * CbTime
      BY <1>1, <1>3, <2>1 DEF SilentInv
    <2>5. req.pc # "mark" /\ mark = 0
      BY <1>2, <1>3, <2>2, <2>3
    <2> QED
      BY <1>2, <1>3, <2>4, <2>5
  <1>4. Detects
    BY <1>3 DEF Detects
  <1> QED
    BY <1>1, <1>4 DEF AlarmIsTrue

\* What the handler of the heartbeat hears of the peer is true: no timeout is
\* reported while the peer answers, and a silence is reported in time
\* (start_check against start_requester), for all durations in which every
\* deadline has room for the ticker's interval, for its request, and for the
\* requests of beat() that may come before it.
THEOREM TrueAlarm ==
  ASSUME HasLongest, Slack
  PROVE  Spec => []AlarmIsTrue
  <1>1. Init => AlarmInv
    BY InitAlarm
  <1>2. AlarmInv /\ [Next]_vars => AlarmInv'
    BY NextAlarm
  <1>3. AlarmInv => AlarmIsTrue
    BY AlarmDetects
  <1> QED
    BY <1>1, <1>2, <1>3, PTL DEF Spec
==============================================================================

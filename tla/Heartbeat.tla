------------------------------ MODULE Heartbeat ------------------------------
(***************************************************************************)
(* The two tasks that heartbeat.rs starts for a session: the requester,    *)
(* which sends a request at every tick or when beat() asks for one and     *)
(* waits for its answer, and the check, which tells the handler of every   *)
(* ticker beat and of a timeout.  HeartbeatCtl is the application's hold   *)
(* on both.                                                                *)
(*                                                                         *)
(* Time is discrete and kept in count-downs.  It passes only when no task  *)
(* can go on (Busy): a task that is ready runs before its timers move on.  *)
(***************************************************************************)
EXTENDS Integers, Sequences, FiniteSets

CONSTANTS
  Interval, Tolerance,   \* HeartbeatConfig
  Settings,              \* durations set_interval and set_tolerance may store
  Delay,                 \* a peer that answers does so within Delay
  CbTime,                \* a handler returns within CbTime
  Callers,               \* callers of beat()
  MaxBeats,              \* bound: calls of beat()
  MaxMissed              \* bound: how far behind the ticker is counted

ASSUME HeartbeatAssumption ==
  /\ Interval \in Nat \ {0} /\ Tolerance \in Nat
  /\ Settings \subseteq Nat
  /\ Delay \in Nat /\ CbTime \in Nat /\ MaxBeats \in Nat /\ MaxMissed \in Nat

VARIABLES
  dur,      \* HeartbeatCtl::durations
  held,     \* the application holds the HeartbeatCtl
  caller,   \* state of each call of beat()
  beats,    \* calls so far
  demand,   \* channel of on-demand requests, capacity 1
  tick,     \* time to the ticker's next tick; 0 or less: due
  req,      \* the requester: where it is, for whom, for how long
  mark,     \* channel of latencies, capacity 1
  check,    \* the check: where it is, and the time left there
  peer,     \* whether the peer answers, and whether the stream is open
  alarm,    \* the handler was last called with None
  quiet     \* time for which the peer has been silent

vars == <<dur, held, caller, beats, demand, tick, req, mark, check, peer, alarm, quiet>>
application == <<dur, held, caller, beats>>
----------------------------------------------------------------------------
Ticker == "ticker"
Requester == [pc : {"select", "read", "mark", "exited"}, for : Callers \cup {Ticker}, age : Nat]
Check == [pc : {"wait", "callback", "exited"}, left : Nat]

\* Mutant of Deadline: the tolerance is left out.
IntervalOnly(d) == d.interval

\* Mutant of Deadline: a whole interval too long.
TwoIntervals(d) == 2 * d.interval + d.tolerance

\* The time the check waits for a mark.
Deadline(d) == d.interval + d.tolerance

\* Longer than any deadline: silence is counted no further.
Longest ==
  LET All == Settings \cup {Interval, Tolerance} IN
  CHOOSE n \in {i + t : i, t \in All} : \A i, t \in All : i + t <= n
Horizon == Longest + 3 * CbTime + Delay + 1

\* Heartbeat::start.  The first tick is due at once.
Init ==
  /\ dur = [interval |-> Interval, tolerance |-> Tolerance]
  /\ held = TRUE
  /\ caller = [c \in Callers |-> "idle"]
  /\ beats = 0
  /\ demand = <<>>
  /\ tick = 0
  /\ req = [pc |-> "select", for |-> Ticker, age |-> 0]
  /\ mark = 0
  /\ check = [pc |-> "wait", left |-> Deadline(dur)]
  /\ peer = [answers |-> TRUE, open |-> TRUE]
  /\ alarm = FALSE
  /\ quiet = 0
----------------------------------------------------------------------------
(* HeartbeatCtl.                                                           *)

Beat(c) ==
  /\ held /\ caller[c] # "send" /\ caller[c] # "wait"
  /\ beats < MaxBeats
  /\ beats' = beats + 1
  /\ caller' = [caller EXCEPT ![c] = "send"]
  /\ UNCHANGED <<dur, held, demand, tick, req, mark, check, peer, alarm, quiet>>

\* on_demand.send: it waits for room, and fails once the requester is gone.
Ask(c) ==
  /\ caller[c] = "send"
  /\ \/ /\ req.pc = "exited"
        /\ caller' = [caller EXCEPT ![c] = "failed"]
        /\ UNCHANGED demand
     \/ /\ req.pc # "exited" /\ demand = <<>>
        /\ caller' = [caller EXCEPT ![c] = "wait"]
        /\ demand' = <<c>>
  /\ UNCHANGED <<dur, held, beats, tick, req, mark, check, peer, alarm, quiet>>

SetInterval(d) ==
  /\ held
  /\ dur' = [dur EXCEPT !.interval = d]
  /\ UNCHANGED <<held, caller, beats, demand, tick, req, mark, check, peer, alarm, quiet>>

SetTolerance(d) ==
  /\ held
  /\ dur' = [dur EXCEPT !.tolerance = d]
  /\ UNCHANGED <<held, caller, beats, demand, tick, req, mark, check, peer, alarm, quiet>>

\* beat() borrows the HeartbeatCtl, so no call is under way when it is dropped.
DropCtl ==
  /\ held /\ \A c \in Callers : caller[c] \notin {"send", "wait"}
  /\ held' = FALSE
  /\ UNCHANGED <<dur, caller, beats, demand, tick, req, mark, check, peer, alarm, quiet>>
----------------------------------------------------------------------------
(* start_requester.                                                        *)

\* A request is written for f, and its answer awaited.
Request(f) == req' = [pc |-> "read", for |-> f, age |-> 0]

OnDemand ==
  /\ req.pc = "select" /\ demand # <<>>
  /\ Request(Head(demand))
  /\ demand' = Tail(demand)
  /\ UNCHANGED <<dur, held, caller, beats, tick, mark, check, peer, alarm, quiet>>

\* The ticker keeps the period it was made with, and catches up on missed ticks.
Tick ==
  /\ req.pc = "select" /\ tick <= 0
  /\ tick' = tick + Interval
  /\ Request(Ticker)
  /\ UNCHANGED <<dur, held, caller, beats, demand, mark, check, peer, alarm, quiet>>

\* The answer goes to the caller, or is to be marked.
Answered ==
  IF req.for = Ticker
  THEN /\ req' = [req EXCEPT !.pc = "mark"]
       /\ UNCHANGED caller
  ELSE /\ req' = [req EXCEPT !.pc = "select"]
       /\ caller' = [caller EXCEPT ![req.for] = "ok"]

Answer ==
  /\ req.pc = "read" /\ peer.answers /\ peer.open
  /\ Answered
  /\ UNCHANGED <<dur, held, beats, demand, tick, mark, check, peer, alarm, quiet>>

\* Mutant of MarkSend: the capacity is not heeded.
MarkSendOver ==
  /\ req.pc = "mark"
  /\ mark' = IF check.pc = "exited" THEN mark ELSE mark + 1
  /\ req' = [req EXCEPT !.pc = "select"]
  /\ UNCHANGED <<dur, held, caller, beats, demand, tick, check, peer, alarm, quiet>>

\* mark.send: it waits for room; nobody to receive is no error.
MarkSend ==
  /\ req.pc = "mark"
  /\ check.pc = "exited" \/ mark = 0
  /\ mark' = IF check.pc = "exited" THEN mark ELSE 1
  /\ req' = [req EXCEPT !.pc = "select"]
  /\ UNCHANGED <<dur, held, caller, beats, demand, tick, check, peer, alarm, quiet>>

\* Mutant of Exit: the request in the channel is forgotten.
ExitQuietly ==
  /\ req' = [req EXCEPT !.pc = "exited"]
  /\ UNCHANGED <<caller, demand>>

\* The task ends and drops its channels: whoever waits for it fails.
Exit ==
  /\ req' = [req EXCEPT !.pc = "exited"]
  /\ caller' = [c \in Callers |-> IF caller[c] = "wait" THEN "failed" ELSE caller[c]]
  /\ demand' = <<>>

\* The stream is over, or the answer has the wrong id.
RequestFails ==
  /\ req.pc = "read" /\ ~peer.open
  /\ Exit
  /\ UNCHANGED <<dur, held, beats, tick, mark, check, peer, alarm, quiet>>

WrongId ==
  /\ req.pc = "read" /\ peer.answers /\ peer.open
  /\ Exit
  /\ UNCHANGED <<dur, held, beats, tick, mark, check, peer, alarm, quiet>>

\* Mutant of RequesterDropped: only looked at between two requests.
RequesterDroppedIdle ==
  /\ ~held /\ req.pc = "select"
  /\ Exit
  /\ UNCHANGED <<dur, held, beats, tick, mark, check, peer, alarm, quiet>>

RequesterDropped ==
  /\ ~held /\ req.pc # "exited"
  /\ Exit
  /\ UNCHANGED <<dur, held, beats, tick, mark, check, peer, alarm, quiet>>
----------------------------------------------------------------------------
(* start_check.                                                            *)

Callback == check' = [pc |-> "callback", left |-> CbTime]

\* timeout_at looks at the channel before the clock.
Marked ==
  /\ check.pc = "wait" /\ mark = 1
  /\ mark' = 0
  /\ Callback
  /\ alarm' = FALSE
  /\ UNCHANGED <<application, demand, tick, req, peer, quiet>>

Timeout ==
  /\ check.pc = "wait" /\ mark = 0 /\ check.left = 0
  /\ req.pc # "exited"
  /\ Callback
  /\ alarm' = TRUE
  /\ UNCHANGED <<application, demand, tick, req, mark, peer, quiet>>

\* The requester is gone: the check ends, and tells nobody.
Closed ==
  /\ check.pc = "wait" /\ mark = 0 /\ req.pc = "exited"
  /\ check' = [check EXCEPT !.pc = "exited"]
  /\ UNCHANGED <<application, demand, tick, req, mark, peer, alarm, quiet>>

\* The deadline is set anew, from the durations as they are now.
CallbackDone ==
  /\ check.pc = "callback"
  /\ check' = [pc |-> "wait", left |-> Deadline(dur)]
  /\ UNCHANGED <<application, demand, tick, req, mark, peer, alarm, quiet>>

\* The handler returns an error: only the check ends.
CallbackFails ==
  /\ check.pc = "callback"
  /\ check' = [check EXCEPT !.pc = "exited"]
  /\ UNCHANGED <<application, demand, tick, req, mark, peer, alarm, quiet>>

CheckDropped ==
  /\ ~held /\ check.pc # "exited"
  /\ check' = [check EXCEPT !.pc = "exited"]
  /\ UNCHANGED <<application, demand, tick, req, mark, peer, alarm, quiet>>
----------------------------------------------------------------------------
(* The peer and the time.                                                  *)

GoSilent ==
  /\ peer.answers
  /\ peer' = [peer EXCEPT !.answers = FALSE]
  /\ UNCHANGED <<application, demand, tick, req, mark, check, alarm, quiet>>

StreamEnds ==
  /\ peer.open
  /\ peer' = [peer EXCEPT !.open = FALSE]
  /\ UNCHANGED <<application, demand, tick, req, mark, check, alarm, quiet>>

\* Something is due now, in a task or at the peer.
Busy ==
  \/ \E c \in Callers : caller[c] = "send" /\ (req.pc = "exited" \/ demand = <<>>)
  \/ req.pc = "select" /\ (demand # <<>> \/ tick <= 0)
  \/ req.pc = "read" /\ (~peer.open \/ (peer.answers /\ req.age >= Delay))
  \/ req.pc = "mark" /\ (check.pc = "exited" \/ mark = 0)
  \/ check.pc = "wait" /\ (mark = 1 \/ check.left = 0 \/ req.pc = "exited")
  \/ check.pc = "callback" /\ check.left = 0
  \/ ~held /\ (req.pc # "exited" \/ check.pc # "exited")

Pass ==
  /\ ~Busy
  /\ tick' = IF tick > -MaxMissed THEN tick - 1 ELSE tick
  /\ req' = [req EXCEPT !.age = IF req.pc = "read" /\ @ < Delay THEN @ + 1 ELSE @]
  /\ check' = [check EXCEPT !.left = IF @ > 0 THEN @ - 1 ELSE 0]
  /\ quiet' = IF ~peer.answers /\ quiet < Horizon THEN quiet + 1 ELSE quiet
  /\ UNCHANGED <<application, demand, mark, peer, alarm>>
----------------------------------------------------------------------------
RequesterStep == OnDemand \/ Tick \/ Answer \/ MarkSend \/ RequestFails \/ RequesterDropped
CheckStep == Marked \/ Timeout \/ Closed \/ CallbackDone \/ CheckDropped
CallerStep == \E c \in Callers : Ask(c)

Next ==
  \/ RequesterStep \/ CheckStep \/ CallerStep \/ Pass
  \/ \E c \in Callers : Beat(c)
  \/ \E d \in Settings : (d > 0 /\ SetInterval(d)) \/ SetTolerance(d)
  \/ WrongId \/ CallbackFails \/ GoSilent \/ StreamEnds \/ DropCtl

Spec == Init /\ [][Next]_vars

\* Tokio runs a task that is ready, and time goes on.
FairSpec ==
  /\ Spec
  /\ WF_vars(RequesterStep) /\ WF_vars(CheckStep) /\ WF_vars(CallerStep) /\ WF_vars(Pass)
----------------------------------------------------------------------------
\* Types, with the capacity 1 of the on-demand and the mark channels
\* (start_requester, start_check), and a ticker that is never more than one
\* interval away.
TypeOK ==
  /\ dur \in [interval : Nat, tolerance : Nat]
  /\ held \in BOOLEAN
  /\ caller \in [Callers -> {"idle", "send", "wait", "ok", "failed"}]
  /\ beats \in 0..MaxBeats
  /\ demand \in Seq(Callers) /\ Len(demand) <= 1
  /\ tick \in Int /\ tick <= Interval
  /\ req \in Requester
  /\ mark \in 0..1
  /\ check \in Check
  /\ peer \in [answers : BOOLEAN, open : BOOLEAN]
  /\ alarm \in BOOLEAN
  /\ quiet \in 0..Horizon

\* The handler is told None only when the peer has stopped to answer: a peer
\* that answers every request within Delay never misses the deadline, whatever
\* on-demand beats, slow handlers and settings that only grow come in between
\* (start_check's deadline against start_requester's ticker).
NoFalseAlarm == alarm => ~peer.answers

\* A peer that has been silent for interval + tolerance, and the time handlers
\* may have taken meanwhile, has been reported, while the check runs.
Detects ==
  quiet > Longest + 3 * CbTime => alarm \/ check.pc = "exited" \/ req.pc = "exited"

\* What the handler hears of the peer is true: it is told of a silence, and of
\* nothing else.
AlarmIsTrue == TypeOK /\ NoFalseAlarm /\ Detects

\* A call of beat() returns unless the peer is silent: it gets the latency, or
\* an error when the requester exits.
BeatReturns ==
  \A c \in Callers : caller[c] = "wait" ~> (caller[c] # "wait" \/ ~peer.answers)

\* Dropping the HeartbeatCtl ends both tasks, wherever they wait.
DropEnds == ~held ~> (req.pc = "exited" /\ check.pc = "exited")
=============================================================================

----------------------------- MODULE LaneTiming -----------------------------
(***************************************************************************)
(* The data lane against the clock: the two chained calls with their       *)
(* transport timeouts, the deadline of the claim they share and the timer  *)
(* that hands the lane on when a callback never fires.  What DataLane      *)
(* leaves to chance is counted down here, and what is read is left out.    *)
(*                                                                         *)
(* Time moves by Tick alone, and not past a callback or a timer that is    *)
(* due.  A callback is dispatched at most Delay after its call's timeout.  *)
(* Early is how much before its time Qt may fire a timer: 0 for a precise  *)
(* one, more for a coarse one, which is what QTimer::singleShot makes of   *)
(* an interval of two seconds or more.  From 2 on a timer may fire before  *)
(* the deadline it is armed a unit past.                                   *)
(***************************************************************************)
EXTENDS Claim

CONSTANTS CallTime,   \* kCallBudgetMs, the transport's timeout
          Slack,      \* kGuardSlackMs
          Delay,      \* bound on the dispatch of a callback
          Early,      \* how early a timer may fire
          MaxLoads,   \* bound on reads asked for
          MaxLosses   \* bound on callbacks that never fire

ASSUME TimingAssumption ==
  /\ {CallTime, Slack, Delay, Early, MaxLoads, MaxLosses} \subseteq Nat
  /\ CallTime > 0

(* A callback is dispatched in the time the slack leaves for it. *)
PromptDispatch == 2 * Delay < Slack

VARIABLES flight, again, loading,  \* m_dataLane
          calls,                   \* calls out: their leg, ticket and time left
          timers,                  \* lapse timers armed: their ticket and time left
          missed,                  \* history variable: the last claim whose own timer found it live
          lost,                    \* history variable: the last claim in force to lose its call
          spent

laneVars == <<flight, again, loading, calls, timers, missed, lost, spent>>

(* Mutated form of Budget: no slack. *)
BrokenBudget == 2 * CallTime

Budget == 2 * CallTime + Slack

Answered == CallTime + Delay

Call  == [leg : {1, 2}, slot : Nat, left : 0 .. Answered]
Timer == [slot : Nat, left : 0 .. Budget + 1]

Charge(what, max) == spent[what] < max /\ spent' = [spent EXCEPT ![what] = @ + 1]

(* Mutated form of LapseTime: before the deadline. *)
BrokenLapseTime == Budget - 1

LapseTime == Budget + 1

(* Given the lane as a handler left it: read, or queue behind the live read. *)
Load(free, pending, out, armed) ==
  \/ /\ Busy(free)
     /\ again' = TRUE
     /\ flight' = free /\ calls' = out /\ timers' = armed
     /\ UNCHANGED loading
  \/ /\ ~Busy(free)
     /\ again' = pending
     /\ flight' = Taken(free, Budget)
     /\ loading' = TRUE
     /\ calls' = out \cup {[leg |-> 1, slot |-> free.ticket + 1, left |-> Answered]}
     /\ timers' = armed \cup {[slot |-> free.ticket + 1, left |-> LapseTime]}

(* Mutated form of HandOn: the spinner is not lowered. *)
BrokenHandOn(free, out, armed) ==
  \/ /\ again
     /\ Load(free, FALSE, out, armed)
  \/ /\ ~again
     /\ flight' = free /\ calls' = out /\ timers' = armed
     /\ UNCHANGED <<again, loading>>

HandOn(free, out, armed) ==
  \/ /\ again
     /\ Load(free, FALSE, out, armed)
  \/ /\ ~again
     /\ loading' = FALSE
     /\ flight' = free /\ calls' = out /\ timers' = armed
     /\ UNCHANGED again

AskForRead ==
  /\ Charge("loads", MaxLoads)
  /\ Load(flight, again, calls, timers)
  /\ UNCHANGED <<missed, lost>>

LegReturns(c) ==
  /\ \/ /\ ~IsCurrent(flight, c.slot)
        /\ calls' = calls \ {c}
        /\ UNCHANGED <<flight, again, loading, timers>>
     \/ /\ IsCurrent(flight, c.slot) /\ c.leg = 1
        /\ calls' = (calls \ {c}) \cup {[c EXCEPT !.leg = 2, !.left = Answered]}
        /\ UNCHANGED <<flight, again, loading, timers>>
     \/ /\ IsCurrent(flight, c.slot) /\ c.leg = 2
        /\ HandOn(Released(flight, c.slot), calls \ {c}, timers)
  /\ UNCHANGED <<missed, lost, spent>>

LapseTimer(t) ==
  /\ t.left <= Early
  /\ \/ /\ Busy(flight)
        /\ timers' = timers \ {t}
        /\ missed' = IF t.slot = flight.ticket THEN t.slot ELSE missed
        /\ UNCHANGED <<flight, again, loading, calls>>
     \/ /\ ~Busy(flight)
        /\ HandOn(flight, calls, timers \ {t})
        /\ UNCHANGED missed
  /\ UNCHANGED <<lost, spent>>

LegIsLost(c) ==
  /\ Charge("losses", MaxLosses)
  /\ calls' = calls \ {c}
  /\ lost' = IF c.slot = flight.ticket THEN c.slot ELSE lost
  /\ UNCHANGED <<flight, again, loading, timers, missed>>

Less(n) == IF n = 0 THEN 0 ELSE n - 1

Running == flight.left > 0 \/ calls # {} \/ timers # {}

Tick ==
  /\ Running
  /\ \A x \in calls \cup timers : x.left > 0
  /\ flight' = [flight EXCEPT !.left = Less(@)]
  /\ calls' = {[c EXCEPT !.left = Less(@)] : c \in calls}
  /\ timers' = {[t EXCEPT !.left = Less(@)] : t \in timers}
  /\ UNCHANGED <<again, loading, missed, lost, spent>>

-----------------------------------------------------------------------------
LaneInit ==
  /\ flight = FreeClaim /\ again = FALSE /\ loading = FALSE
  /\ calls = {} /\ timers = {}
  /\ missed = 0 /\ lost = 0
  /\ spent = [loads |-> 0, losses |-> 0]

LaneNext ==
  \/ AskForRead
  \/ \E c \in calls : LegReturns(c)
  \/ \E t \in timers : LapseTimer(t)
  \/ \E c \in calls : LegIsLost(c)
  \/ Tick

LaneSpec == LaneInit /\ [][LaneNext]_laneVars

(* Time passes, and with it callbacks and timers come due. *)
LaneFairness ==
  /\ WF_laneVars(Tick)
  /\ WF_laneVars(\E c \in calls : LegReturns(c))
  /\ WF_laneVars(\E t \in timers : LapseTimer(t))

FairLaneSpec == LaneSpec /\ LaneFairness

-----------------------------------------------------------------------------
LaneTypeOK ==
  /\ flight \in Claims(Nat, Budget)
  /\ again \in BOOLEAN /\ loading \in BOOLEAN
  /\ calls \subseteq Call
  /\ timers \subseteq Timer
  /\ missed \in Nat /\ lost \in Nat
  /\ spent \in [loads : Nat, losses : Nat]

(* A claim never lapses under a call that will still answer: the budget      *)
(* outlasts its two calls, their timeouts and their dispatch.  A lapse is    *)
(* therefore evidence that the callback is lost (kGuardSlackMs).             *)
LapseMeansLost ==
  flight.held /\ flight.left = 0 => \A c \in calls : c.slot # flight.ticket

(* At most one call is outstanding at any time, over all claims: the tickets *)
(* are a second line behind a budget that is long enough.                    *)
OneCallLive == \A c, d \in calls : c = d

(* The timer of the claim in force is armed, and is due a unit after the     *)
(* claim lapses: not before, and no later (budgetMs + 1).                    *)
Timed ==
  \E t \in timers :
    /\ t.slot = flight.ticket
    /\ t.left <= flight.left + 1
    /\ Busy(flight) => t.left > flight.left

OwnCallOut == \E c \in calls : c.slot = flight.ticket

(* A lane that is held, shows its spinner or owes a re-run waits for the     *)
(* timer of its own claim, which no timer or reply of an earlier read uses   *)
(* up.  It takes two things to go wrong with one claim before it waits for   *)
(* nothing: the timer fired before the deadline and found it live, and its   *)
(* call is lost as well (beginLane).                                         *)
StrandedTakesBoth ==
  Busy(flight) \/ loading \/ again =>
    Timed \/ (missed = flight.ticket /\ (OwnCallOut \/ lost = flight.ticket))

(* The spinner comes down and the queued read goes out, calls lost or not,   *)
(* unless the claim they wait for has had both happen to it.                 *)
LaneComesDown ==
  loading \/ again ~> (~loading /\ ~again) \/ (missed = flight.ticket /\ lost = flight.ticket)
=============================================================================

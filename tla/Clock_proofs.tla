---------------------------- MODULE Clock_proofs ----------------------------
(***************************************************************************)
(* The proofs that count time: why guardBudgetMs() is long enough, for     *)
(* every call timeout, slack and dispatch delay (LaneTiming), and why a    *)
(* "ready" nobody confirms is taken down in time, for any networks, any    *)
(* threshold shorter than a claim, and any number of probes lost, late or  *)
(* refused (Verdict).                                                      *)
(***************************************************************************)
EXTENDS LaneTiming, Verdict, FiniteSetTheorems, TLAPS

-----------------------------------------------------------------------------
(***************************************************************************)
(* The data lane: a claim outlives both its calls by what is left of the   *)
(* slack, and its timer outlives the claim.                                *)
(***************************************************************************)
(* A call out holds the ticket in force, and leaves its claim the time of    *)
(* the leg that follows it and something over.                               *)
ClaimOutlasts ==
  \A c \in calls :
    /\ c.slot = flight.ticket
    /\ flight.held
    /\ c.leg = 1 => flight.left > c.left + Answered
    /\ c.leg = 2 => flight.left > c.left

TimerOutlasts ==
  \A t \in timers :
    /\ t.slot <= flight.ticket
    /\ t.slot = flight.ticket => flight.left = 0 \/ flight.left < t.left

LaneOrder == ClaimOutlasts /\ OneCallLive /\ TimerOutlasts

USE TimingAssumption

LEMMA LaneConstants ==
  /\ CallTime \in Nat /\ Slack \in Nat /\ Delay \in Nat /\ Early \in Nat
  /\ Budget \in Nat /\ Answered \in Nat /\ LapseTime = Budget + 1
  /\ PromptDispatch => Answered + Answered < Budget
  BY DEF Budget, Answered, LapseTime, PromptDispatch

(* A read asked for on a lane of the right shape leaves one. *)
LEMMA LoadFits ==
  ASSUME LaneTypeOK, NEW free \in Claims(Nat, Budget), NEW pending \in BOOLEAN,
         NEW out \in SUBSET calls, NEW armed \in SUBSET timers, UNCHANGED <<missed, lost>>,
         spent' \in [loads : Nat, losses : Nat], Load(free, pending, out, armed)
  PROVE  LaneTypeOK'
<1>1. CASE Busy(free) /\ flight' = free /\ calls' = out /\ timers' = armed /\ again' = TRUE
           /\ loading' = loading
  BY <1>1 DEF LaneTypeOK
<1>2. CASE ~Busy(free)
  <2> DEFINE c0 == [leg |-> 1, slot |-> free.ticket + 1, left |-> Answered]
             t0 == [slot |-> free.ticket + 1, left |-> LapseTime]
  <2>1. /\ flight' = Taken(free, Budget) /\ calls' = out \cup {c0} /\ timers' = armed \cup {t0}
        /\ again' = pending /\ loading' = TRUE
    BY <1>2 DEF Load
  <2>2. flight' \in Claims(Nat, Budget)
    BY <2>1, LaneConstants DEF Claims, Taken
  <2>3. c0 \in Call /\ t0 \in Timer
    BY LaneConstants DEF Call, Timer, Claims
  <2> QED BY <2>1, <2>2, <2>3 DEF LaneTypeOK
<1> QED BY <1>1, <1>2 DEF Load

LEMMA HandOnFits ==
  ASSUME LaneTypeOK, NEW free \in Claims(Nat, Budget), NEW out \in SUBSET calls,
         NEW armed \in SUBSET timers, UNCHANGED <<missed, lost, spent>>,
         HandOn(free, out, armed)
  PROVE  LaneTypeOK'
<1>1. spent' \in [loads : Nat, losses : Nat] /\ FALSE \in BOOLEAN
  BY DEF LaneTypeOK
<1>2. CASE again /\ Load(free, FALSE, out, armed)
  BY <1>1, <1>2, LoadFits
<1>3. CASE loading' = FALSE /\ flight' = free /\ calls' = out /\ timers' = armed /\ again' = again
  BY <1>3 DEF LaneTypeOK
<1> QED BY <1>2, <1>3 DEF HandOn

(* Time passing keeps a claim, a call and a timer what they are. *)
LEMMA TickAges ==
  ASSUME LaneTypeOK, Tick
  PROVE  /\ flight' \in Claims(Nat, Budget) /\ flight'.held = flight.held
         /\ flight'.ticket = flight.ticket /\ flight'.left = Less(flight.left)
         /\ \A d \in calls' : \E c \in calls : /\ d \in Call /\ d.slot = c.slot /\ d.leg = c.leg
                                               /\ d.left = c.left - 1
                                               /\ d = [c EXCEPT !.left = Less(@)]
         /\ \A u \in timers' : \E t \in timers : /\ u \in Timer /\ u.slot = t.slot
                                                 /\ u.left = t.left - 1
         /\ \A c \in calls : \E d \in calls' : d.slot = c.slot
         /\ \A t \in timers : \E u \in timers' : u.slot = t.slot /\ u.left = t.left - 1
<1>1. /\ flight \in Claims(Nat, Budget) /\ calls \subseteq Call /\ timers \subseteq Timer
      /\ \A c \in calls : c.left > 0
      /\ \A t \in timers : t.left > 0
  BY DEF LaneTypeOK, Tick
<1>2. /\ flight' \in Claims(Nat, Budget) /\ flight'.held = flight.held
      /\ flight'.ticket = flight.ticket /\ flight'.left = Less(flight.left)
  BY <1>1, LaneConstants DEF Tick, Claims, Less
<1>3. \A c \in calls : /\ [c EXCEPT !.left = Less(@)] \in Call
                       /\ [c EXCEPT !.left = Less(@)].slot = c.slot
                       /\ [c EXCEPT !.left = Less(@)].leg = c.leg
                       /\ [c EXCEPT !.left = Less(@)].left = c.left - 1
  BY <1>1, LaneConstants DEF Call, Less
<1>4. \A t \in timers : /\ [t EXCEPT !.left = Less(@)] \in Timer
                        /\ [t EXCEPT !.left = Less(@)].slot = t.slot
                        /\ [t EXCEPT !.left = Less(@)].left = t.left - 1
  BY <1>1, LaneConstants DEF Timer, Less
<1>5. /\ calls' = {[c EXCEPT !.left = Less(@)] : c \in calls}
      /\ timers' = {[t EXCEPT !.left = Less(@)] : t \in timers}
  BY DEF Tick
<1> QED BY <1>2, <1>3, <1>4, <1>5

LEMMA LaneStepFits == LaneTypeOK /\ [LaneNext]_laneVars => LaneTypeOK'
<1> SUFFICES ASSUME LaneTypeOK, [LaneNext]_laneVars PROVE LaneTypeOK'
  OBVIOUS
<1>t. /\ flight \in Claims(Nat, Budget) /\ again \in BOOLEAN /\ calls \subseteq Call
      /\ calls \in SUBSET calls /\ timers \in SUBSET timers
  BY DEF LaneTypeOK
<1>1. CASE AskForRead
  <2>1. spent' \in [loads : Nat, losses : Nat]
    BY <1>1 DEF AskForRead, Charge, LaneTypeOK
  <2> QED BY <1>t, <1>1, <2>1, LoadFits DEF AskForRead
<1>2. ASSUME NEW c \in calls, LegReturns(c) PROVE LaneTypeOK'
  <2>1. CASE calls' = calls \ {c} /\ UNCHANGED <<flight, again, loading, timers>>
    BY <1>2, <2>1 DEF LegReturns, LaneTypeOK
  <2>2. CASE /\ calls' = (calls \ {c}) \cup {[c EXCEPT !.leg = 2, !.left = Answered]}
             /\ UNCHANGED <<flight, again, loading, timers>>
    <3>1. [c EXCEPT !.leg = 2, !.left = Answered] \in Call
      <4>1. c \in Call /\ Answered \in 0 .. Answered
        BY <1>t, LaneConstants
      <4> QED BY <4>1 DEF Call
    <3> QED BY <1>2, <2>2, <3>1 DEF LegReturns, LaneTypeOK
  <2>3. CASE HandOn(Released(flight, c.slot), calls \ {c}, timers)
    <3>1. Released(flight, c.slot) \in Claims(Nat, Budget)
      BY <1>t DEF Released, Claims
    <3>2. UNCHANGED <<missed, lost, spent>> /\ calls \ {c} \in SUBSET calls
      BY <1>2 DEF LegReturns
    <3> QED BY <1>t, <2>3, <3>1, <3>2, HandOnFits
  <2> QED BY <1>2, <2>1, <2>2, <2>3 DEF LegReturns
<1>3. ASSUME NEW t \in timers, LapseTimer(t) PROVE LaneTypeOK'
  <2>1. CASE timers' = timers \ {t} /\ missed' = (IF t.slot = flight.ticket THEN t.slot ELSE missed)
             /\ UNCHANGED <<flight, again, loading, calls>>
    BY <1>3, <2>1 DEF LapseTimer, LaneTypeOK, Timer
  <2>2. CASE HandOn(flight, calls, timers \ {t}) /\ UNCHANGED missed
    <3>1. UNCHANGED <<missed, lost, spent>> /\ timers \ {t} \in SUBSET timers
      BY <1>3, <2>2 DEF LapseTimer
    <3> QED BY <1>t, <2>2, <3>1, HandOnFits
  <2> QED BY <1>3, <2>1, <2>2 DEF LapseTimer
<1>4. ASSUME NEW c \in calls, LegIsLost(c) PROVE LaneTypeOK'
  BY <1>t, <1>4 DEF LegIsLost, Charge, LaneTypeOK, Call
<1>5. CASE Tick
  BY <1>5, TickAges DEF Tick, LaneTypeOK
<1>6. CASE UNCHANGED laneVars
  BY <1>6 DEF laneVars, LaneTypeOK
<1> QED BY <1>1, <1>2, <1>3, <1>4, <1>5, <1>6 DEF LaneNext

LEMMA LaneInitFits == LaneInit => LaneTypeOK
<1> SUFFICES ASSUME LaneInit PROVE LaneTypeOK
  OBVIOUS
<1>1. flight \in Claims(Nat, Budget)
  BY LaneConstants DEF LaneInit, FreeClaim, Claims
<1> QED BY <1>1 DEF LaneInit, LaneTypeOK

(* The claim, its calls and its timers keep their shape, and no call or      *)
(* timer runs past its time.                                                 *)
THEOREM LaneTypeCorrect == LaneSpec => []LaneTypeOK
BY LaneInitFits, LaneStepFits, PTL DEF LaneSpec

(* Given a lane whose calls its claim outlasts, a read leaves such a lane. *)
LEMMA LoadKeeps ==
  ASSUME NEW free \in Claims(Nat, Budget), NEW pending,
         NEW out \in SUBSET Call, NEW armed \in SUBSET Timer, PromptDispatch,
         \A c \in out : /\ c.slot = free.ticket
                        /\ free.held
                        /\ c.leg = 1 => free.left > c.left + Answered
                        /\ c.leg = 2 => free.left > c.left,
         \A c, d \in out : c = d,
         \A t \in armed : /\ t.slot <= free.ticket
                          /\ t.slot = free.ticket => free.left = 0 \/ free.left < t.left,
         Load(free, pending, out, armed)
  PROVE  LaneOrder'
<1>1. CASE flight' = free /\ calls' = out /\ timers' = armed
  BY <1>1 DEF LaneOrder, ClaimOutlasts, OneCallLive, TimerOutlasts
<1>2. CASE ~Busy(free)
  <2> DEFINE c0 == [leg |-> 1, slot |-> free.ticket + 1, left |-> Answered]
             t0 == [slot |-> free.ticket + 1, left |-> LapseTime]
  <2>1. out = {}
    BY <1>2, LaneConstants DEF Busy, Claims, Call
  <2>2. flight' = Taken(free, Budget) /\ calls' = {c0} /\ timers' = armed \cup {t0}
    BY <1>2, <2>1 DEF Load
  <2>3. flight'.held /\ flight'.left = Budget /\ flight'.ticket = free.ticket + 1
    BY <2>2 DEF Taken
  <2>4. ClaimOutlasts' /\ OneCallLive'
    BY <2>2, <2>3, LaneConstants DEF ClaimOutlasts, OneCallLive
  <2>5. TimerOutlasts'
    <3>1. \A t \in armed : t.slot <= flight'.ticket /\ t.slot # flight'.ticket
      BY <2>3 DEF Claims, Timer
    <3>2. t0.slot = flight'.ticket /\ t0.slot <= flight'.ticket /\ flight'.left < t0.left
      BY <2>3, LaneConstants DEF Claims
    <3>3. timers' = armed \cup {t0}
      BY <2>2
    <3> HIDE DEF t0
    <3>4. \A t \in timers' : t \in armed \/ t = t0
      BY <3>3
    <3> QED BY <3>1, <3>2, <3>4 DEF TimerOutlasts
  <2> QED BY <2>4, <2>5 DEF LaneOrder
<1> QED BY <1>1, <1>2 DEF Load

LEMMA HandOnKeeps ==
  ASSUME NEW free \in Claims(Nat, Budget), NEW armed \in SUBSET Timer, PromptDispatch,
         \A t \in armed : /\ t.slot <= free.ticket
                          /\ t.slot = free.ticket => free.left = 0 \/ free.left < t.left,
         HandOn(free, {}, armed)
  PROVE  LaneOrder'
<1>1. CASE Load(free, FALSE, {}, armed)
  <2>1. {} \in SUBSET Call /\ \A c, d \in {} : c = d
    OBVIOUS
  <2> QED BY <1>1, <2>1, LoadKeeps
<1>2. CASE flight' = free /\ calls' = {} /\ timers' = armed
  BY <1>2 DEF LaneOrder, ClaimOutlasts, OneCallLive, TimerOutlasts
<1> QED BY <1>1, <1>2 DEF HandOn

LEMMA LegReturnKeeps ==
  ASSUME LaneTypeOK, LaneOrder, PromptDispatch, NEW c \in calls, LegReturns(c)
  PROVE  LaneOrder'
<1>1. /\ c \in Call /\ c.slot = flight.ticket /\ calls = {c} /\ calls \ {c} = {}
      /\ flight \in Claims(Nat, Budget)
  BY DEF LaneOrder, LaneTypeOK, ClaimOutlasts, OneCallLive
<1>2. CASE c.leg = 1
  <2> DEFINE d == [c EXCEPT !.leg = 2, !.left = Answered]
  <2>1. calls' = {d} /\ UNCHANGED <<flight, timers>>
    BY <1>1, <1>2 DEF LegReturns, IsCurrent
  <2>2. d.slot = c.slot /\ d.leg = 2 /\ d.left = Answered
    BY <1>1 DEF Call
  <2>3. flight.held /\ flight.left > Answered
    BY <1>1, <1>2, LaneConstants DEF LaneOrder, ClaimOutlasts, Call, Claims
  <2> HIDE DEF d
  <2> QED BY <1>1, <2>1, <2>2, <2>3 DEF LaneOrder, ClaimOutlasts, OneCallLive, TimerOutlasts
<1>3. CASE c.leg = 2
  <2> DEFINE free == Released(flight, c.slot)
  <2>1. free \in Claims(Nat, Budget) /\ free.ticket = flight.ticket /\ free.left = flight.left
    BY <1>1 DEF Released, Claims
  <2>2. HandOn(free, {}, timers)
    BY <1>1, <1>3 DEF LegReturns, IsCurrent
  <2> HIDE DEF free
  <2> QED BY <2>1, <2>2, HandOnKeeps DEF LaneOrder, LaneTypeOK, TimerOutlasts
<1> QED BY <1>1, <1>2, <1>3 DEF Call

LEMMA LapseTimerKeeps ==
  ASSUME LaneTypeOK, LaneOrder, PromptDispatch, NEW t \in timers, LapseTimer(t)
  PROVE  LaneOrder'
<1>1. CASE Busy(flight)
  BY <1>1 DEF LapseTimer, LaneOrder, ClaimOutlasts, OneCallLive, TimerOutlasts
<1>2. CASE ~Busy(flight)
  <2>1. calls = {}
    BY <1>2, LaneConstants DEF LaneOrder, LaneTypeOK, ClaimOutlasts, Busy, Claims, Call
  <2>2. HandOn(flight, {}, timers \ {t})
    BY <1>2, <2>1 DEF LapseTimer
  <2> QED BY <2>2, HandOnKeeps DEF LaneOrder, LaneTypeOK, TimerOutlasts
<1> QED BY <1>1, <1>2

LEMMA TickKeeps ==
  ASSUME LaneTypeOK, LaneOrder, Tick
  PROVE  LaneOrder'
<1>1. /\ flight \in Claims(Nat, Budget) /\ calls \subseteq Call /\ timers \subseteq Timer
      /\ \A c \in calls : c.left > 0
      /\ \A t \in timers : t.left > 0
  BY DEF LaneTypeOK, Tick
<1>2. ClaimOutlasts'
  BY <1>1, TickAges, LaneConstants DEF LaneOrder, ClaimOutlasts, Call, Claims, Less
<1>3. OneCallLive'
  BY TickAges DEF LaneOrder, OneCallLive
<1>4. TimerOutlasts'
  BY <1>1, TickAges DEF LaneOrder, TimerOutlasts, Timer, Claims, Less
<1> QED BY <1>2, <1>3, <1>4 DEF LaneOrder

LEMMA LaneStepKeeps ==
  PromptDispatch /\ LaneTypeOK /\ LaneOrder /\ [LaneNext]_laneVars => LaneOrder'
<1> SUFFICES ASSUME PromptDispatch, LaneTypeOK, LaneOrder, [LaneNext]_laneVars PROVE LaneOrder'
  OBVIOUS
<1>1. CASE AskForRead
  BY <1>1, LoadKeeps DEF AskForRead, LaneTypeOK, LaneOrder, ClaimOutlasts, OneCallLive, TimerOutlasts
<1>2. ASSUME NEW c \in calls, LegReturns(c) PROVE LaneOrder'
  BY <1>2, LegReturnKeeps
<1>3. ASSUME NEW t \in timers, LapseTimer(t) PROVE LaneOrder'
  BY <1>3, LapseTimerKeeps
<1>4. ASSUME NEW c \in calls, LegIsLost(c) PROVE LaneOrder'
  BY <1>4 DEF LegIsLost, LaneOrder, ClaimOutlasts, OneCallLive, TimerOutlasts
<1>5. CASE Tick
  BY <1>5, TickKeeps
<1>6. CASE UNCHANGED laneVars
  BY <1>6 DEF laneVars, LaneOrder, ClaimOutlasts, OneCallLive, TimerOutlasts
<1> QED BY <1>1, <1>2, <1>3, <1>4, <1>5, <1>6 DEF LaneNext

LEMMA LaneInductive == ASSUME PromptDispatch PROVE LaneSpec => []LaneOrder
<1>1. LaneInit => LaneOrder
  BY DEF LaneInit, LaneOrder, ClaimOutlasts, OneCallLive, TimerOutlasts
<1> QED BY <1>1, LaneTypeCorrect, LaneStepKeeps, PTL DEF LaneSpec

(* Where the slack covers the dispatch of both callbacks, a claim lapses     *)
(* only once its callback is lost.                                           *)
THEOREM LapseIsEvidence == ASSUME PromptDispatch PROVE LaneSpec => []LapseMeansLost
<1>1. LaneTypeOK /\ LaneOrder => LapseMeansLost
  BY LaneConstants DEF LaneOrder, LaneTypeOK, ClaimOutlasts, LapseMeansLost, Call, Claims
<1> QED BY <1>1, LaneTypeCorrect, LaneInductive, PTL

(* Then there is never a second call out beside the first. *)
THEOREM NeverTwoCalls == ASSUME PromptDispatch PROVE LaneSpec => []OneCallLive
<1>1. LaneOrder => OneCallLive
  BY DEF LaneOrder
<1> QED BY <1>1, LaneInductive, PTL

(* A claim that is held has its call out, unless that call was lost; and a   *)
(* lane that owes something has its own timer, unless the timer found the    *)
(* claim in force live.                                                      *)
Attended ==
  /\ flight.held => OwnCallOut \/ lost = flight.ticket
  /\ Busy(flight) \/ loading \/ again => Timed \/ (missed = flight.ticket /\ flight.held)

(* A read leaves its own call and its own timer; one that is queued leaves   *)
(* those of the read it is queued behind.                                    *)
LEMMA LoadAttends ==
  ASSUME NEW free \in Claims(Nat, Budget), NEW pending, NEW out, NEW armed,
         lost' = lost, missed' = missed,
         Busy(free) => /\ flight = free /\ out = calls /\ armed = timers /\ Attended,
         Load(free, pending, out, armed)
  PROVE  Attended'
<1>1. CASE Busy(free) /\ flight' = free /\ calls' = out /\ timers' = armed
  BY <1>1 DEF Attended, Timed, OwnCallOut
<1>2. CASE ~Busy(free)
  <2>1. PICK c0 : c0 = [leg |-> 1, slot |-> free.ticket + 1, left |-> Answered]
    OBVIOUS
  <2>2. PICK t0 : t0 = [slot |-> free.ticket + 1, left |-> LapseTime]
    OBVIOUS
  <2>3. c0 \in calls' /\ t0 \in timers' /\ flight' = Taken(free, Budget)
    BY <1>2, <2>1, <2>2 DEF Load
  <2>4. /\ c0.slot = flight'.ticket /\ t0.slot = flight'.ticket
        /\ t0.left = flight'.left + 1 /\ flight'.left \in Nat
    BY <2>1, <2>2, <2>3, LaneConstants DEF Taken
  <2>5. OwnCallOut' /\ Timed'
    BY <2>3, <2>4 DEF OwnCallOut, Timed
  <2> QED BY <2>5 DEF Attended
<1> QED BY <1>1, <1>2 DEF Load

LEMMA HandOnAttends ==
  ASSUME LaneTypeOK, Attended, NEW free \in Claims(Nat, Budget), NEW out, NEW armed,
         UNCHANGED <<missed, lost>>, ~Busy(free),
         free.held => \/ \E c \in out : c.slot = free.ticket
                      \/ lost = free.ticket,
         HandOn(free, out, armed)
  PROVE  Attended'
<1>1. CASE again /\ Load(free, FALSE, out, armed)
  BY <1>1, LoadAttends
<1>2. CASE ~again /\ loading' = FALSE /\ flight' = free /\ calls' = out /\ UNCHANGED again
  BY <1>2 DEF Attended, OwnCallOut
<1> QED BY <1>1, <1>2 DEF HandOn

LEMMA TimerAttends ==
  ASSUME LaneTypeOK, Attended, NEW t \in timers, LapseTimer(t)
  PROVE  Attended'
<1>1. flight \in Claims(Nat, Budget)
  BY DEF LaneTypeOK
<1>2. CASE Busy(flight)
  <2>1. /\ timers' = timers \ {t} /\ UNCHANGED <<flight, again, loading, calls, lost>>
        /\ missed' = IF t.slot = flight.ticket THEN t.slot ELSE missed
    BY <1>2 DEF LapseTimer
  <2>2. CASE t.slot = flight.ticket
    BY <1>2, <2>1, <2>2 DEF Attended, OwnCallOut, Busy
  <2>3. CASE t.slot # flight.ticket
    <3>1. Timed => Timed'
      BY <2>1, <2>3 DEF Timed
    <3> QED BY <2>1, <2>3, <3>1 DEF Attended, OwnCallOut
  <2> QED BY <2>2, <2>3
<1>3. CASE ~Busy(flight)
  <2>1. HandOn(flight, calls, timers \ {t}) /\ UNCHANGED <<missed, lost>>
    BY <1>3 DEF LapseTimer
  <2> QED BY <1>1, <1>3, <2>1, HandOnAttends DEF Attended, OwnCallOut
<1> QED BY <1>2, <1>3

LEMMA TickAttends ==
  ASSUME LaneTypeOK, Attended, Tick
  PROVE  Attended'
<1>1. flight.left \in Nat /\ \A t \in timers : t.left \in Nat /\ t.left > 0
  <2>1. flight \in Claims(Nat, Budget) /\ timers \subseteq Timer /\ \A t \in timers : t.left > 0
    BY DEF LaneTypeOK, Tick
  <2>2. flight.left \in Nat
    BY <2>1, LaneConstants DEF Claims
  <2>3. ASSUME NEW t \in timers PROVE t.left \in Nat /\ t.left > 0
    BY <2>1, LaneConstants DEF Timer
  <2> QED BY <2>2, <2>3
<1>2. UNCHANGED <<again, loading, missed, lost>>
  BY DEF Tick
<1>3. Busy(flight') => Busy(flight) /\ flight'.left = flight.left - 1
  <2>1. flight'.held = flight.held /\ flight'.left = Less(flight.left)
    BY TickAges
  <2> QED BY <1>1, <2>1 DEF Busy, Less
<1>4. OwnCallOut => OwnCallOut'
  BY TickAges DEF OwnCallOut
<1>5. Timed => Timed'
  <2> SUFFICES ASSUME Timed PROVE Timed'
    OBVIOUS
  <2>1. PICK t \in timers : /\ t.slot = flight.ticket /\ t.left <= flight.left + 1
                            /\ Busy(flight) => t.left > flight.left
    BY DEF Timed
  <2>2. PICK u \in timers' : u.slot = t.slot /\ u.left = t.left - 1
    BY TickAges
  <2>3. u.left <= flight'.left + 1
    BY <1>1, <2>1, <2>2, TickAges DEF Less
  <2>4. Busy(flight') => u.left > flight'.left
    BY <1>1, <1>3, <2>1, <2>2
  <2> QED BY <2>1, <2>2, <2>3, <2>4, TickAges DEF Timed
<1> QED BY <1>2, <1>3, <1>4, <1>5, TickAges DEF Attended

LEMMA AttendedStep == LaneTypeOK /\ Attended /\ [LaneNext]_laneVars => Attended'
<1> SUFFICES ASSUME LaneTypeOK, Attended, [LaneNext]_laneVars PROVE Attended'
  OBVIOUS
<1>1. flight \in Claims(Nat, Budget) /\ calls \subseteq Call
  BY DEF LaneTypeOK
<1>2. CASE AskForRead
  BY <1>1, <1>2, LoadAttends DEF AskForRead
<1>3. ASSUME NEW c \in calls, LegReturns(c) PROVE Attended'
  <2>1. UNCHANGED <<missed, lost>>
    BY <1>3 DEF LegReturns
  <2>2. CASE /\ ~IsCurrent(flight, c.slot) /\ calls' = calls \ {c}
             /\ UNCHANGED <<flight, again, loading, timers>>
    BY <2>1, <2>2 DEF Attended, OwnCallOut, Timed, IsCurrent
  <2>3. CASE /\ IsCurrent(flight, c.slot) /\ UNCHANGED <<flight, again, loading, timers>>
             /\ calls' = (calls \ {c}) \cup {[c EXCEPT !.leg = 2, !.left = Answered]}
    <3>1. [c EXCEPT !.leg = 2, !.left = Answered].slot = flight.ticket
      BY <1>1, <2>3 DEF IsCurrent, Call
    <3>2. OwnCallOut'
      BY <2>3, <3>1 DEF OwnCallOut
    <3> QED BY <2>1, <2>3, <3>2 DEF Attended, Timed
  <2>4. CASE IsCurrent(flight, c.slot) /\ HandOn(Released(flight, c.slot), calls \ {c}, timers)
    <3>1. PICK free : free = Released(flight, c.slot)
      OBVIOUS
    <3>2. free \in Claims(Nat, Budget) /\ ~free.held /\ ~Busy(free)
      BY <1>1, <2>4, <3>1 DEF Released, Claims, IsCurrent, Busy
    <3> QED BY <2>1, <2>4, <3>1, <3>2, HandOnAttends
  <2> QED BY <1>3, <2>2, <2>3, <2>4 DEF LegReturns
<1>4. ASSUME NEW t \in timers, LapseTimer(t) PROVE Attended'
  BY <1>4, TimerAttends
<1>5. ASSUME NEW c \in calls, LegIsLost(c) PROVE Attended'
  <2>1. /\ calls' = calls \ {c} /\ UNCHANGED <<flight, again, loading, timers, missed>>
        /\ lost' = IF c.slot = flight.ticket THEN c.slot ELSE lost
    BY <1>5 DEF LegIsLost
  <2>2. CASE c.slot = flight.ticket
    BY <2>1, <2>2 DEF Attended, Timed
  <2>3. CASE c.slot # flight.ticket
    <3>1. OwnCallOut => OwnCallOut'
      BY <2>1, <2>3 DEF OwnCallOut
    <3> QED BY <2>1, <2>3, <3>1 DEF Attended, Timed
  <2> QED BY <2>2, <2>3
<1>6. CASE Tick
  BY <1>6, TickAttends
<1>7. CASE UNCHANGED laneVars
  BY <1>7 DEF laneVars, Attended, OwnCallOut, Timed
<1> QED BY <1>2, <1>3, <1>4, <1>5, <1>6, <1>7 DEF LaneNext

(* However early a timer may fire, and however late a callback is            *)
(* dispatched, a lane that owes something is within a claim's budget and one *)
(* unit of the timer that settles it, unless the timer of the claim in force *)
(* found it live; then its call is what it waits for, unless that was lost.  *)
THEOREM SpinnerStaysTimed == LaneSpec => []StrandedTakesBoth
<1>1. LaneInit => Attended
  BY DEF LaneInit, FreeClaim, Busy, Attended
<1>2. Attended => StrandedTakesBoth
  BY DEF Attended, StrandedTakesBoth
<1> QED BY <1>1, <1>2, LaneTypeCorrect, AttendedStep, PTL DEF LaneSpec

-----------------------------------------------------------------------------
(***************************************************************************)
(* The verdict: a beat either counts as silence or asks, and it asks once  *)
(* before the threshold is reached.                                        *)
(***************************************************************************)
(* The beats since the last report are those counted as silence, and at most *)
(* the one that asked: its probe is still out, and every beat since counted. *)
Counted ==
  verdict = "ready" =>
    /\ poll /\ silent < MaxSilent
    /\ \/ unheard <= silent
       \/ /\ unheard <= silent + 1
          /\ Busy(claim)
          /\ silent >= Beats - claim.left

IInv == TypeOK /\ IsFiniteSet(probes) /\ Counted

USE VerdictAssumption

(* Among more tickets than are held there is one that is not. *)
LEMMA TicketIsUnheld ==
  ASSUME NEW slots, IsFiniteSet(slots)
  PROVE  UnheldTicket(slots) \in Nat
<1> DEFINE n == Cardinality(slots)
<1>1. n \in Nat
  BY FS_CardinalityType
<1>2. IsFiniteSet(0 .. n) /\ Cardinality(0 .. n) = n + 1
  <2> HIDE DEF n
  <2>1. 0 \in Int /\ n \in Int /\ ~(0 > n) /\ n - 0 + 1 = n + 1
    BY <1>1
  <2> QED BY <2>1, FS_Interval
<1>3. ~(0 .. n \subseteq slots)
  <2>1. SUFFICES ASSUME 0 .. n \subseteq slots PROVE FALSE
    OBVIOUS
  <2>2. Cardinality(0 .. n) <= n
    BY <2>1, FS_Subset
  <2> HIDE DEF n
  <2> QED BY <1>1, <1>2, <2>2
<1>4. PICK t \in 0 .. n : t \notin slots
  BY <1>3
<1>5. UnheldTicket(slots) \in 0 .. n
  BY <1>4 DEF UnheldTicket
<1> HIDE DEF n
<1> QED BY <1>1, <1>5

LEMMA SlotsAreFinite ==
  ASSUME NEW out, IsFiniteSet(out)
  PROVE  IsFiniteSet({c.slot : c \in out})
<1> DEFINE f == [c \in out |-> c.slot]
<1>1. f \in Surjection(out, {c.slot : c \in out})
  BY DEF Surjection
<1> QED BY <1>1, FS_Surjection

(* What asking leaves of the claim and the probes. *)
LEMMA AskFits ==
  ASSUME IInv, NEW free, Ask(free)
  PROVE  /\ claim' \in Claims(Nat, Beats) /\ claim'.held /\ claim'.left = Beats
         /\ probes' \subseteq Probe /\ IsFiniteSet(probes')
<1> DEFINE taken == TakenAgain(Beats, {p.slot : p \in probes})
           probe == [slot |-> taken.ticket, report |-> Silence]
<1>1. claim' = taken /\ probes' = probes \cup {probe}
  BY DEF Ask
<1>2. taken \in Claims(Nat, Beats) /\ taken.held /\ taken.left = Beats /\ taken.ticket \in Nat
  <2>1. UnheldTicket({p.slot : p \in probes}) \in Nat
    BY SlotsAreFinite, TicketIsUnheld DEF IInv
  <2>2. Beats \in 0 .. Beats
    OBVIOUS
  <2> QED BY <2>1, <2>2 DEF TakenAgain, Claims
<1>3. probe \in Probe
  BY <1>2 DEF Probe
<1> HIDE DEF taken, probe
<1>4. IsFiniteSet(probes')
  BY <1>1, FS_AddElement DEF IInv
<1> QED BY <1>1, <1>2, <1>3, <1>4 DEF IInv, TypeOK

LEMMA LaterIsLater ==
  ASSUME IInv, NEW beats \in {0, 1}
  PROVE  Later(beats) \in 0 .. MaxSilent + 2 /\ Later(beats) <= unheard + beats
BY DEF IInv, TypeOK, Later

LEMMA RefreshKeeps ==
  ASSUME IInv, Refresh
  PROVE  IInv'
<1>1. owed' = FALSE /\ UNCHANGED <<chain, verdict, silent, poll, unheard, outrun, truth, used>>
  BY DEF Refresh, screenVars
<1>2. CASE UNCHANGED <<claim, probes>>
  BY <1>1, <1>2 DEF IInv, TypeOK, Counted
<1>3. CASE ~Busy(claim) /\ Ask(claim)
  <2>1. Counted'
    BY <1>1, <1>3 DEF IInv, Counted
  <2> QED BY <1>1, <1>3, <2>1, AskFits DEF IInv, TypeOK
<1> QED BY <1>2, <1>3 DEF Refresh

LEMMA AnswerKeeps ==
  ASSUME IInv, NEW p \in probes, Answer(p)
  PROVE  IInv'
<1>1. /\ probes' = (probes \ {p}) \cup {[p EXCEPT !.report = truth]}
      /\ UNCHANGED <<chain, verdict, silent, poll, unheard, outrun, claim, owed, truth, used>>
  BY DEF Answer, screenVars
<1>2. [p EXCEPT !.report = truth] \in Probe
  BY DEF IInv, TypeOK, Probe
<1>3. IsFiniteSet(probes')
  BY <1>1, FS_RemoveElement, FS_AddElement DEF IInv
<1> QED BY <1>1, <1>2, <1>3 DEF IInv, TypeOK, Counted

(* Hearing nothing counts, and so makes up for the beat that asked. *)
LEMMA CallbackKeeps ==
  ASSUME IInv, NEW p \in probes, Callback(p)
  PROVE  IInv'
<1>1. /\ probes' = probes \ {p} /\ claim' = Released(claim, p.slot)
      /\ UNCHANGED <<owed, truth>>
  BY DEF Callback
<1>2. claim' \in Claims(Nat, Beats) /\ claim'.left = claim.left
  BY <1>1 DEF IInv, TypeOK, Released, Claims
<1>3. IsFiniteSet(probes') /\ probes' \subseteq Probe
  BY <1>1, FS_RemoveElement DEF IInv, TypeOK
<1>4. used' \in [truths : Nat, moves : Nat, faults : Nat]
  BY DEF Callback, Spend, IInv, TypeOK
<1>5. CASE p.report # Silence /\ p.report[chain] # Silence /\ Report(p.report[chain])
  <2>1. p.report[chain] \in Verdicts
    BY <1>5 DEF IInv, TypeOK, Probe, Reports
  <2>2. /\ verdict' = p.report[chain] /\ silent' = 0 /\ unheard' = 0 /\ chain' = chain
        /\ poll' = (verdict' # "off") /\ outrun' \in BOOLEAN
    BY <1>5 DEF Report
  <2>3. Counted'
    <3>1. verdict' = "ready" => poll'
      BY <2>2
    <3>2. silent' < MaxSilent /\ unheard' <= silent'
      BY <2>2
    <3> QED BY <3>1, <3>2 DEF Counted
  <2>4. poll' \in BOOLEAN /\ outrun' \in BOOLEAN
    BY <2>2
  <2>5. silent' \in 0 .. MaxSilent /\ unheard' \in 0 .. MaxSilent + 2
    BY <2>2
  <2>6. chain' \in Nets /\ truth' \in Reports /\ owed' \in BOOLEAN /\ verdict' \in Verdicts
    BY <1>1, <2>1, <2>2 DEF IInv, TypeOK
  <2> QED BY <1>2, <1>3, <1>4, <2>3, <2>4, <2>5, <2>6 DEF IInv, TypeOK
<1>6. CASE Hush(0)
  <2>1. /\ silent' = IF silent < MaxSilent THEN silent + 1 ELSE silent
        /\ verdict' = IF silent + 1 < MaxSilent THEN verdict ELSE "unknown"
        /\ poll' = TRUE /\ unheard' = Later(0) /\ UNCHANGED <<chain, outrun>>
    BY <1>6 DEF Hush
  <2>2. unheard' \in 0 .. MaxSilent + 2 /\ unheard' <= unheard
    BY <2>1, LaterIsLater DEF IInv, TypeOK
  <2>3. silent' \in 0 .. MaxSilent
    BY <2>1 DEF IInv, TypeOK
  <2>4. Counted'
    <3> SUFFICES ASSUME verdict' = "ready" PROVE unheard' <= silent' /\ poll' /\ silent' < MaxSilent
      BY DEF Counted
    <3>1. verdict = "ready" /\ silent + 1 < MaxSilent /\ silent' = silent + 1
      BY <2>1 DEF IInv, TypeOK
    <3>2. unheard <= silent + 1
      BY <3>1 DEF IInv, TypeOK, Counted
    <3> QED BY <2>1, <2>2, <3>1, <3>2 DEF IInv, TypeOK
  <2>5. verdict' \in Verdicts \cup {Unread}
    BY <2>1 DEF IInv, TypeOK, Verdicts
  <2> QED BY <1>1, <1>2, <1>3, <1>4, <2>1, <2>2, <2>3, <2>4, <2>5 DEF IInv, TypeOK
<1> QED BY <1>5, <1>6 DEF Callback

LEMMA LossKeeps ==
  ASSUME IInv, NEW p \in probes, LoseCallback(p)
  PROVE  IInv'
<1>1. /\ probes' = probes \ {p}
      /\ used' \in [truths : Nat, moves : Nat, faults : Nat]
      /\ UNCHANGED <<chain, verdict, silent, poll, unheard, outrun, claim, owed, truth>>
  BY DEF LoseCallback, screenVars, Spend, IInv, TypeOK
<1>2. IsFiniteSet(probes')
  BY <1>1, FS_RemoveElement DEF IInv
<1> QED BY <1>1, <1>2 DEF IInv, TypeOK, Counted

LEMMA OlderFits ==
  ASSUME IInv
  PROVE  /\ Older(claim) \in Claims(Nat, Beats) /\ Older(claim).held = claim.held
         /\ Older(claim).left = IF claim.left = 0 THEN 0 ELSE claim.left - 1
BY DEF IInv, TypeOK, Older, Claims

(* The claim outlasts the count, so a beat cannot ask twice within it. *)
LEMMA PollKeeps ==
  ASSUME IInv, poll, PollVerifiedProxy(Older(claim)), UNCHANGED <<owed, truth>>,
         used' \in [truths : Nat, moves : Nat, faults : Nat]
  PROVE  IInv'
<1>1. claim.left \in 0 .. Beats /\ silent \in 0 .. MaxSilent /\ unheard \in 0 .. MaxSilent + 2
  BY DEF IInv, TypeOK, Claims
<1>2. Later(1) \in 0 .. MaxSilent + 2 /\ Later(1) <= unheard + 1
  BY LaterIsLater
<1>3. CASE Busy(Older(claim)) /\ Hush(1) /\ claim' = Older(claim) /\ UNCHANGED probes
  <2>1. /\ silent' = IF silent < MaxSilent THEN silent + 1 ELSE silent
        /\ verdict' = IF silent + 1 < MaxSilent THEN verdict ELSE "unknown"
        /\ poll' = TRUE /\ unheard' = Later(1) /\ UNCHANGED <<chain, outrun>>
    BY <1>3 DEF Hush
  <2>2. Busy(claim) /\ claim'.left = claim.left - 1 /\ claim' \in Claims(Nat, Beats)
    <3>1. claim'.held = claim.held /\ claim'.left = IF claim.left = 0 THEN 0 ELSE claim.left - 1
      BY <1>3, OlderFits
    <3>2. claim'.held /\ claim'.left > 0
      BY <1>3 DEF Busy
    <3> QED BY <1>1, <1>3, <3>1, <3>2, OlderFits DEF Busy
  <2>3. Counted'
    <3> SUFFICES ASSUME verdict' = "ready" PROVE Counted'
      BY DEF Counted
    <3>1. verdict = "ready" /\ silent + 1 < MaxSilent /\ silent' = silent + 1
      BY <1>1, <2>1
    <3>2. CASE unheard <= silent
      BY <1>1, <1>2, <2>1, <3>1, <3>2 DEF Counted
    <3>3. CASE unheard <= silent + 1 /\ silent >= Beats - claim.left
      <4>1. unheard' <= silent' + 1
        BY <1>1, <1>2, <2>1, <3>1, <3>3
      <4>2. silent' >= Beats - claim'.left
        BY <1>1, <2>2, <3>1, <3>3
      <4> QED BY <1>3, <2>1, <3>1, <4>1, <4>2 DEF Counted
    <3> QED BY <3>1, <3>2, <3>3 DEF IInv, Counted
  <2>4. verdict' \in Verdicts \cup {Unread} /\ silent' \in 0 .. MaxSilent
    BY <1>1, <2>1 DEF IInv, TypeOK, Verdicts
  <2> QED BY <1>2, <1>3, <2>1, <2>2, <2>3, <2>4 DEF IInv, TypeOK
<1>4. CASE ~Busy(Older(claim)) /\ Ask(Older(claim)) /\ unheard' = Later(1)
           /\ UNCHANGED <<chain, verdict, silent, poll, outrun>>
  <2>1. claim'.held /\ claim'.left = Beats /\ claim' \in Claims(Nat, Beats)
        /\ probes' \subseteq Probe /\ IsFiniteSet(probes')
    BY <1>4, AskFits
  <2>2. Counted'
    <3> SUFFICES ASSUME verdict' = "ready" PROVE Counted'
      BY DEF Counted
    <3>1. verdict = "ready" /\ poll /\ silent < MaxSilent
      BY <1>4 DEF IInv, Counted
    <3>2. ~(Busy(claim) /\ silent >= Beats - claim.left)
      BY <1>1, <1>4, <3>1, OlderFits DEF Busy
    <3>3. unheard <= silent
      BY <3>1, <3>2 DEF IInv, Counted
    <3>4. unheard' <= silent' + 1 /\ silent' >= Beats - claim'.left /\ Busy(claim')
      BY <1>1, <1>2, <1>4, <2>1, <3>3 DEF Busy
    <3> QED BY <1>4, <3>1, <3>4 DEF Counted
  <2> QED BY <1>2, <1>4, <2>1, <2>2 DEF IInv, TypeOK
<1> QED BY <1>3, <1>4 DEF PollVerifiedProxy

LEMMA BeatKeeps ==
  ASSUME IInv, Beat
  PROVE  IInv'
<1>1. UNCHANGED <<owed, truth>> /\ used' \in [truths : Nat, moves : Nat, faults : Nat]
  BY DEF Beat, Spend, IInv, TypeOK
<1>2. CASE poll /\ PollVerifiedProxy(Older(claim))
  BY <1>1, <1>2, PollKeeps
<1>3. CASE ~poll /\ claim' = Older(claim) /\ UNCHANGED <<screenVars, probes>>
  <2>1. UNCHANGED <<chain, verdict, silent, poll, unheard, outrun, probes>> /\ claim' \in Claims(Nat, Beats)
    BY <1>3, OlderFits DEF screenVars
  <2> QED BY <1>1, <1>3, <2>1 DEF IInv, TypeOK, Counted
<1> QED BY <1>2, <1>3 DEF Beat

LEMMA WorldKeeps ==
  ASSUME IInv,
         \/ \E net \in Nets : MoveChain(net)
         \/ \E net \in Chains, v \in Verdicts : TruthMoves(net, v)
         \/ Notice
  PROVE  IInv'
<1>1. used' \in [truths : Nat, moves : Nat, faults : Nat]
  BY DEF MoveChain, TruthMoves, Notice, Spend, IInv, TypeOK
<1>2. CASE \E net \in Nets : MoveChain(net)
  <2>1. /\ chain' \in Nets /\ verdict' = Unread /\ silent' = 0 /\ unheard' = 0 /\ owed' = TRUE
        /\ outrun' = FALSE /\ UNCHANGED <<poll, claim, probes, truth>>
    BY <1>2 DEF MoveChain
  <2>2. Counted'
    BY <2>1 DEF Counted, Verdicts
  <2>3. silent' \in 0 .. MaxSilent /\ unheard' \in 0 .. MaxSilent + 2
    BY <2>1
  <2>4. {poll', owed', outrun'} \subseteq BOOLEAN
    BY <2>1 DEF IInv, TypeOK
  <2> QED BY <1>1, <2>1, <2>2, <2>3, <2>4 DEF IInv, TypeOK
<1>3. CASE \E net \in Chains, v \in Verdicts : TruthMoves(net, v)
  <2>1. truth' \in Reports /\ owed' \in BOOLEAN
        /\ UNCHANGED <<chain, verdict, silent, poll, unheard, outrun, claim, probes>>
    BY <1>3 DEF TruthMoves, screenVars, IInv, TypeOK, Reports, Nets
  <2> QED BY <1>1, <2>1 DEF IInv, TypeOK, Counted
<1>4. CASE Notice
  BY <1>1, <1>4 DEF Notice, screenVars, IInv, TypeOK, Counted
<1> QED BY <1>2, <1>3, <1>4

LEMMA InitFits == Init => IInv
<1> SUFFICES ASSUME Init PROVE IInv
  OBVIOUS
<1>1. claim \in Claims(Nat, Beats) /\ IsFiniteSet(probes) /\ probes \subseteq Probe
  BY FS_EmptySet DEF Init, Claims, FreeClaim
<1>2. TypeOK
  <2>1. silent \in 0 .. MaxSilent /\ unheard \in 0 .. MaxSilent + 2
    BY DEF Init
  <2>2. chain \in Nets /\ verdict \in Verdicts \cup {Unread} /\ truth \in Reports
    BY DEF Init, Nets
  <2>3. {poll, owed, outrun} \subseteq BOOLEAN /\ used \in [truths : Nat, moves : Nat, faults : Nat]
    BY DEF Init
  <2> QED BY <1>1, <2>1, <2>2, <2>3 DEF TypeOK
<1>3. Counted
  BY DEF Init, Counted, Verdicts
<1> QED BY <1>1, <1>2, <1>3 DEF IInv

LEMMA StepKeeps == IInv /\ [Next]_vars => IInv'
<1> SUFFICES ASSUME IInv, [Next]_vars PROVE IInv'
  OBVIOUS
<1>1. CASE Refresh
  BY <1>1, RefreshKeeps
<1>2. CASE \E p \in probes : Answer(p)
  BY <1>2, AnswerKeeps
<1>3. CASE \E p \in probes : Callback(p)
  BY <1>3, CallbackKeeps
<1>4. CASE \E p \in probes : LoseCallback(p)
  BY <1>4, LossKeeps
<1>5. CASE Beat
  BY <1>5, BeatKeeps
<1>6. CASE \/ \E net \in Nets : MoveChain(net)
           \/ \E net \in Chains, v \in Verdicts : TruthMoves(net, v)
           \/ Notice
  BY <1>6, WorldKeeps
<1>7. CASE UNCHANGED vars
  BY <1>7 DEF vars, screenVars, IInv, TypeOK, Counted
<1> QED BY <1>1, <1>2, <1>3, <1>4, <1>5, <1>6, <1>7 DEF Next

LEMMA Inductive == Spec => []IInv
BY InitFits, StepKeeps, PTL DEF Spec

(* The verdict, its count and its probes stay in their types. *)
THEOREM TypeCorrect == Spec => []TypeOK
<1>1. IInv => TypeOK
  BY DEF IInv
<1> QED BY <1>1, Inductive, PTL

(* Whatever becomes of the probes, "ready" is on screen no more than         *)
(* MaxSilent beats after eth_rpc last said it, for every threshold that a    *)
(* claim outlasts (refreshVerifiedProxy, pollVerifiedProxy,                  *)
(* applyVerifiedProxy).                                                      *)
THEOREM ReadyIsAlwaysConfirmed == Spec => []ReadyIsConfirmed
<1>1. IInv => ReadyIsConfirmed
  BY DEF IInv, TypeOK, Counted, ReadyIsConfirmed
<1> QED BY <1>1, Inductive, PTL

(* What eth_rpc would say of a network is known; a verdict other than "off"  *)
(* is polled for; and where nothing is queued or polled for and the report   *)
(* was not out of date, a screen that is behind is left to a claim.          *)
Watched ==
  /\ \A net \in Chains : truth[net] \in Verdicts
  /\ verdict \notin {"off", Unread} => poll
  /\ chain # NoChain /\ verdict # truth[chain] => owed \/ poll \/ outrun \/ claim.held

(* The refresh that finds the claim live leaves its question to the probe.   *)
LEMMA RefreshWatches ==
  ASSUME IInv, Watched, Refresh
  PROVE  Watched'
<1>1. UNCHANGED <<chain, verdict, poll, truth>>
  BY DEF Refresh, screenVars
<1>2. claim'.held
  BY AskFits DEF Refresh, Busy
<1> QED BY <1>1, <1>2 DEF Watched

(* A callback leaves a verdict to poll for, or the poll itself; and what it  *)
(* reports is right, or out of date already.                                 *)
LEMMA CallbackWatches ==
  ASSUME IInv, Watched, NEW p \in probes, Callback(p)
  PROVE  Watched'
<1>1. truth' = truth
  BY DEF Callback
<1>2. CASE Hush(0)
  BY <1>1, <1>2 DEF Hush, Watched
<1>3. CASE p.report # Silence /\ p.report[chain] # Silence /\ Report(p.report[chain])
  <2>1. /\ verdict' = p.report[chain] /\ chain' = chain
        /\ poll' = (verdict' # "off") /\ outrun' = (verdict' # truth[chain])
    BY <1>3 DEF Report
  <2>2. verdict' # "off" => poll'
    BY <2>1
  <2>3. verdict' # truth'[chain'] => outrun'
    BY <1>1, <2>1
  <2> QED BY <1>1, <2>2, <2>3 DEF Watched
<1> QED BY <1>2, <1>3 DEF Callback

(* A beat polls on, asks, or only ages the claim. *)
LEMMA BeatWatches ==
  ASSUME IInv, Watched, Beat
  PROVE  Watched'
<1>1. UNCHANGED <<owed, truth>>
  BY DEF Beat
<1>2. CASE Hush(1)
  BY <1>1, <1>2 DEF Hush, Watched
<1>3. CASE Ask(Older(claim)) /\ UNCHANGED <<chain, verdict, silent, poll, outrun>>
  BY <1>1, <1>3, AskFits DEF Watched
<1>4. CASE claim' = Older(claim) /\ UNCHANGED screenVars
  BY <1>1, <1>4, OlderFits DEF screenVars, Watched
<1> QED BY <1>2, <1>3, <1>4 DEF Beat, PollVerifiedProxy

(* A record that leaves "off", or comes to it, is announced; one that moves  *)
(* between the other verdicts is polled for.                                 *)
LEMMA TruthWatches ==
  ASSUME IInv, Watched, NEW net \in Chains, NEW v \in Verdicts, TruthMoves(net, v)
  PROVE  Watched'
<1>1. /\ truth' = [truth EXCEPT ![net] = v] /\ truth \in Reports
      /\ owed' = (owed \/ "off" \in {v, truth[net]})
      /\ UNCHANGED <<chain, verdict, silent, poll, outrun, claim>>
  BY DEF TruthMoves, screenVars, IInv, TypeOK
<1>2. \A other \in Chains : truth'[other] = IF other = net THEN v ELSE truth[other]
  BY <1>1 DEF Reports, Nets
<1>3. (owed => owed') /\ (truth[net] = "off" => owed')
  BY <1>1
<1>4. ASSUME chain # NoChain, verdict # truth'[chain]
      PROVE  owed' \/ poll \/ outrun \/ claim.held
  <2>1. chain \in Chains
    BY <1>4 DEF IInv, TypeOK, Nets
  <2>2. CASE verdict # truth[chain]
    BY <1>3, <1>4, <2>2 DEF Watched
  <2>3. CASE verdict = truth[chain]
    <3>1. net = chain /\ verdict # Unread
      BY <1>2, <1>4, <2>1, <2>3 DEF Watched
    <3> QED BY <1>3, <2>3, <3>1 DEF Watched
  <2> QED BY <2>2, <2>3
<1> QED BY <1>1, <1>2, <1>4 DEF Watched

LEMMA WatchedStep == IInv /\ Watched /\ [Next]_vars => Watched'
<1> SUFFICES ASSUME IInv, Watched, [Next]_vars PROVE Watched'
  OBVIOUS
<1>1. CASE Refresh
  BY <1>1, RefreshWatches
<1>2. CASE \E p \in probes : Answer(p)
  BY <1>2 DEF Answer, screenVars, Watched
<1>3. CASE \E p \in probes : Callback(p)
  BY <1>3, CallbackWatches
<1>4. CASE \E p \in probes : LoseCallback(p)
  BY <1>4 DEF LoseCallback, screenVars, Watched
<1>5. CASE Beat
  BY <1>5, BeatWatches
<1>6. CASE \E net \in Nets : MoveChain(net)
  BY <1>6 DEF MoveChain, Watched
<1>7. CASE \E net \in Chains, v \in Verdicts : TruthMoves(net, v)
  BY <1>7, TruthWatches
<1>8. CASE Notice
  BY <1>8 DEF Notice, screenVars, Watched
<1>9. CASE UNCHANGED vars
  BY <1>9 DEF vars, screenVars, Watched
<1> QED BY <1>1, <1>2, <1>3, <1>4, <1>5, <1>6, <1>7, <1>8, <1>9 DEF Next

(* A verdict that is not "off" is always polled for, and a screen that is    *)
(* behind eth_rpc always has something that will ask again, or a probe out,  *)
(* unless the probe of the claim in force was lost or the report on screen   *)
(* was out of date when it was applied.                                      *)
THEOREM WatchAlwaysGoesOn == Spec => []WatchGoesOn
<1>1. Init => Watched
  BY DEF Init, Verdicts, Watched
<1>2. Watched => WatchGoesOn
  BY DEF Watched, WatchGoesOn, ProbeLost
<1> QED BY <1>1, <1>2, Inductive, WatchedStep, PTL DEF Spec
=============================================================================

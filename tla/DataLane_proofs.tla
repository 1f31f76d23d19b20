-------------------------- MODULE DataLane_proofs --------------------------
(***************************************************************************)
(* Proofs about DataLane for every set of accounts and chains and every    *)
(* bound: type correctness, that the screen only ever shows the selection  *)
(* on it, that rows never go back, and that the lane implements Screen.    *)
(*                                                                         *)
(* The inductive invariant is stated over the values a handler has in hand *)
(* (screen, generation, lane, calls) rather than over the variables, since *)
(* one handler computes them and then enters LoadBalancesAndHistory with   *)
(* them: LoadKeeps and HandOnKeeps are used at each of its callers.        *)
(***************************************************************************)
EXTENDS DataLane, TLAPS

(* A claim's calls are no younger than its ticket, their generation and the world. *)
CallsKnown(gen, l, out, w) ==
  \A c \in out : /\ c.slot <= l.flight.ticket
                 /\ c.gen <= gen
                 /\ c.asked <= w

(* A call of the present generation was made for the account on screen. *)
GenNamesAccount(s, gen, out) == \A c \in out : c.gen = gen => c.who = s.account

(* Two calls never hold the ticket in force. *)
SingleFlight(l, out) ==
  \A c, d \in out : c.slot = l.flight.ticket /\ d.slot = l.flight.ticket => c = d

(* What the call in force will answer is no older than what may be shown. *)
AskedSince(gen, l, out, fl) ==
  \A c \in out : c.slot = l.flight.ticket /\ c.gen = gen => c.asked >= fl[c.leg]

FloorSeen(fl, w) == fl.balances <= w /\ fl.history <= w

ShowsSelection(s) ==
  /\ s.balances # Unknown => s.balances.who = s.account /\ s.balances.chain = s.chain
  /\ s.history \notin {Unknown, NoRows} =>
       s.history.who = s.account /\ s.history.chain = s.chain
  /\ s.history = NoRows => s.account = NoAccount

Typed(s, sw, gen, l, out, fl, w) ==
  /\ s \in ScopedStates
  /\ sw \in BOOLEAN
  /\ gen \in Nat
  /\ l \in Lane
  /\ out \subseteq Call
  /\ fl \in [balances : Nat, history : Nat]
  /\ w \in Nat

Sound(s, sw, gen, l, out, fl, w) ==
  /\ Typed(s, sw, gen, l, out, fl, w)
  /\ CallsKnown(gen, l, out, w)
  /\ GenNamesAccount(s, gen, out)
  /\ SingleFlight(l, out)
  /\ AskedSince(gen, l, out, fl)
  /\ FloorSeen(fl, w)
  /\ ShowsSelection(s)

RestTyped ==
  /\ dataLoading \in BOOLEAN
  /\ balancesLoading \in BOOLEAN
  /\ due \in BOOLEAN
  /\ used \in [moves : Nat, losses : Nat, late : Nat]

IInv == RestTyped /\ Sound(screen, sweep, dataGen, lane, calls, floor, world)

USE ScopeAssumption, BoundAssumption

-----------------------------------------------------------------------------
(***************************************************************************)
(* The shared parts of the handlers.                                       *)
(***************************************************************************)

LEMMA NobodyKeeps ==
  ASSUME NEW s, NEW sw, NEW gen, NEW l, NEW out, NEW fl,
         Sound(s, sw, gen, l, out, fl, world),
         s.account = NoAccount, NothingToRead(s, l, out)
  PROVE  /\ Sound(screen', sweep', gen, lane', calls', fl, world)
         /\ dataLoading' \in BOOLEAN /\ balancesLoading' \in BOOLEAN
  BY DEF NothingToRead, Sound, Typed, CallsKnown, GenNamesAccount, SingleFlight, AskedSince,
         FloorSeen, ShowsSelection, ApplyNoAccount, ScopedStates, Whos, Nets

LEMMA CoalesceKeeps ==
  ASSUME NEW s, NEW sw, NEW gen, NEW l, NEW out, NEW fl,
         Sound(s, sw, gen, l, out, fl, world),
         CoalesceBehindLive(s, sw, l, out)
  PROVE  Sound(screen', sweep', gen, lane', calls', fl, world)
  BY DEF CoalesceBehindLive, Sound, Typed, CallsKnown, GenNamesAccount, SingleFlight, AskedSince,
         FloorSeen, ShowsSelection, Lane

LEMMA IssueKeeps ==
  ASSUME NEW s, NEW sw, NEW gen, NEW l, NEW out, NEW fl,
         Sound(s, sw, gen, l, out, fl, world),
         s.account # NoAccount, IssueRead(s, sw, gen, l, out)
  PROVE  /\ Sound(screen', sweep', gen, lane', calls', fl, world)
         /\ dataLoading' \in BOOLEAN /\ balancesLoading' \in BOOLEAN
<1> DEFINE new == [leg |-> "balances", who |-> s.account, gen |-> gen,
                   slot |-> l.flight.ticket + 1, asked |-> world]
<1>1. /\ screen' = s /\ sweep' = sw /\ calls' = out \cup {new}
      /\ lane' = [l EXCEPT !.flight = Taken(@, 1), !.timer = "armed"]
      /\ dataLoading' = TRUE /\ balancesLoading' = TRUE
  BY DEF IssueRead
<1>2. new \in Call /\ new.slot = l.flight.ticket + 1 /\ l.flight.ticket \in Nat
  BY DEF Sound, Typed, Call, Lane, Claims, ScopedStates, Whos
<1>3. lane' \in Lane /\ lane'.flight.ticket = l.flight.ticket + 1
  <2>1. l \in [flight : Claims(Nat, 1), again : BOOLEAN, timer : LapseTimers]
    BY DEF Sound, Typed, Lane
  <2>2. /\ Taken(l.flight, 1) \in Claims(Nat, 1)
        /\ Taken(l.flight, 1).ticket = l.flight.ticket + 1
    BY <1>2 DEF Claims, Taken
  <2>3. lane' = [l EXCEPT !.flight = Taken(l.flight, 1), !.timer = "armed"]
    BY <1>1
  <2> QED BY <2>1, <2>2, <2>3 DEF Lane, LapseTimers
<1>4. \A c \in out : c.slot # lane'.flight.ticket /\ c.slot <= lane'.flight.ticket
  BY <1>2, <1>3 DEF Sound, Typed, CallsKnown, Call
<1>5. Typed(screen', sweep', gen, lane', calls', fl, world)
  BY <1>1, <1>2, <1>3 DEF Sound, Typed
<1>6. CallsKnown(gen, lane', calls', world)
  BY <1>1, <1>2, <1>3, <1>4 DEF Sound, Typed, CallsKnown
<1>7. GenNamesAccount(screen', gen, calls')
  BY <1>1 DEF Sound, GenNamesAccount
<1>8. SingleFlight(lane', calls')
  BY <1>1, <1>4 DEF SingleFlight
<1>9. AskedSince(gen, lane', calls', fl)
  BY <1>1, <1>4 DEF AskedSince, Sound, FloorSeen
<1> QED
  BY <1>1, <1>5, <1>6, <1>7, <1>8, <1>9 DEF Sound

LEMMA LoadKeeps ==
  ASSUME NEW s, NEW sw, NEW gen, NEW l, NEW out, NEW fl,
         Sound(s, sw, gen, l, out, fl, world), RestTyped,
         LoadBalancesAndHistory(s, sw, gen, l, out)
  PROVE  /\ Sound(screen', sweep', gen, lane', calls', fl, world)
         /\ dataLoading' \in BOOLEAN /\ balancesLoading' \in BOOLEAN
<1>1. CASE s.account = NoAccount /\ NothingToRead(s, l, out)
  BY <1>1, NobodyKeeps
<1>2. CASE s.account # NoAccount /\ CoalesceBehindLive(s, sw, l, out)
  BY <1>2, CoalesceKeeps DEF CoalesceBehindLive, RestTyped
<1>3. CASE s.account # NoAccount /\ IssueRead(s, sw, gen, l, out)
  BY <1>3, IssueKeeps
<1> QED
  BY <1>1, <1>2, <1>3 DEF LoadBalancesAndHistory

LEMMA HandOnKeeps ==
  ASSUME NEW s, NEW sw, NEW gen, NEW l, NEW out, NEW fl,
         Sound(s, sw, gen, l, out, fl, world), RestTyped,
         HandOn(s, sw, gen, l, out)
  PROVE  /\ Sound(screen', sweep', gen, lane', calls', fl, world)
         /\ dataLoading' \in BOOLEAN /\ balancesLoading' \in BOOLEAN
<1>1. CASE l.again /\ LoadBalancesAndHistory(s, sw, gen, [l EXCEPT !.again = FALSE], out)
  <2>1. Sound(s, sw, gen, [l EXCEPT !.again = FALSE], out, fl, world)
    BY DEF Sound, Typed, CallsKnown, SingleFlight, AskedSince, Lane
  <2> QED BY <1>1, <2>1, LoadKeeps
<1>2. CASE /\ screen' = s /\ sweep' = sw /\ lane' = l /\ calls' = out
           /\ dataLoading' = FALSE /\ balancesLoading' = FALSE
  BY <1>2
<1> QED BY <1>1, <1>2 DEF HandOn

(* Entering another scope under the next generation: no call out names it. *)
LEMMA MoveKeeps ==
  ASSUME NEW who \in Whos, NEW net \in Nets, IInv
  PROVE  Sound(EnterScope(screen, who, net), sweep, GenAfter(who, net), lane, calls,
               FloorAfter(who, net), world)
<1>1. CASE ~Moves(screen, who, net)
  BY <1>1 DEF IInv, EnterScope, GenAfter, FloorAfter
<1>2. CASE Moves(screen, who, net)
  <2>1. /\ EnterScope(screen, who, net) = Blank(who, net)
        /\ GenAfter(who, net) = dataGen + 1
        /\ FloorAfter(who, net) = [balances |-> world, history |-> world]
    BY <1>2 DEF EnterScope, GenAfter, FloorAfter
  <2>2. \A c \in calls : c.gen # dataGen + 1 /\ c.gen <= dataGen + 1
    BY DEF IInv, Sound, Typed, CallsKnown, Call
  <2>3. Blank(who, net) \in ScopedStates /\ ShowsSelection(Blank(who, net))
    BY DEF Blank, ScopedStates, ShowsSelection
  <2> QED
    BY <2>1, <2>2, <2>3 DEF IInv, Sound, Typed, CallsKnown, GenNamesAccount, SingleFlight,
                            AskedSince, FloorSeen
<1> QED BY <1>1, <1>2

-----------------------------------------------------------------------------
(***************************************************************************)
(* The invariant, one lemma per kind of step.                              *)
(***************************************************************************)

LEMMA InitSound == Init => IInv
<1> SUFFICES ASSUME Init PROVE IInv
  OBVIOUS
<1>1. screen \in ScopedStates /\ ShowsSelection(screen)
  BY DEF Init, Blank, ScopedStates, Whos, Nets, ShowsSelection
<1>2. lane \in Lane
  BY DEF Init, Lane, Claims, FreeClaim, LapseTimers
<1>3. RestTyped /\ Typed(screen, sweep, dataGen, lane, calls, floor, world)
  BY <1>1, <1>2 DEF Init, RestTyped, Typed
<1>4. FloorSeen(floor, world)
  BY DEF Init, FloorSeen
<1> QED
  BY <1>1, <1>3, <1>4 DEF Init, IInv, Sound, CallsKnown, GenNamesAccount, SingleFlight, AskedSince

LEMMA SpendTyped ==
  ASSUME RestTyped, NEW what \in {"moves", "losses", "late"}, Spend(what)
  PROVE  used' \in [moves : Nat, losses : Nat, late : Nat]
  BY DEF RestTyped, Spend

LEMMA SelectAccountKeeps ==
  ASSUME IInv, NEW who \in Accounts, SelectAccount(who)
  PROVE  IInv'
<1>1. who \in Whos /\ screen.chain \in Nets
  BY DEF IInv, Sound, Typed, ScopedStates, Whos
<1>2. Sound(EnterScope(screen, who, screen.chain), sweep, GenAfter(who, screen.chain), lane, calls,
            FloorAfter(who, screen.chain), world)
  BY <1>1, MoveKeeps
<1>3. /\ Sound(screen', sweep', dataGen', lane', calls', floor', world')
      /\ dataLoading' \in BOOLEAN /\ balancesLoading' \in BOOLEAN
  BY <1>2, LoadKeeps DEF SelectAccount, IInv
<1>4. RestTyped'
  BY <1>3, SpendTyped DEF SelectAccount, IInv, RestTyped
<1> QED BY <1>3, <1>4 DEF IInv

LEMMA SelectChainKeeps ==
  ASSUME IInv, NEW net \in Chains, SelectChain(net)
  PROVE  IInv'
<1>1. screen.account \in Whos /\ net \in Nets
  BY DEF IInv, Sound, Typed, ScopedStates, Nets
<1>2. Sound(screen', sweep', dataGen', lane', calls', floor', world')
  BY <1>1, MoveKeeps DEF SelectChain, laneVars
<1>3. RestTyped'
  BY SpendTyped DEF SelectChain, IInv, RestTyped, laneVars
<1> QED BY <1>2, <1>3 DEF IInv

LEMMA RefreshMovesKeeps ==
  ASSUME IInv, NEW who \in Whos, NEW net \in Nets, RefreshMovesSelection(who, net)
  PROVE  IInv'
<1>1. Sound(screen', sweep', dataGen', lane', calls', floor', world')
  BY MoveKeeps DEF RefreshMovesSelection, laneVars
<1>2. RestTyped'
  BY SpendTyped DEF RefreshMovesSelection, IInv, RestTyped, laneVars
<1> QED BY <1>1, <1>2 DEF IInv

LEMMA RereadKeeps ==
  ASSUME IInv, Reread
  PROVE  IInv'
<1>1. /\ Sound(screen', sweep', dataGen', lane', calls', floor', world')
      /\ dataLoading' \in BOOLEAN /\ balancesLoading' \in BOOLEAN
  BY LoadKeeps DEF Reread, IInv
<1>2. RestTyped'
  BY <1>1 DEF Reread, IInv, RestTyped
<1> QED BY <1>1, <1>2 DEF IInv

LEMMA LapseTimerKeeps ==
  ASSUME IInv, LapseTimer
  PROVE  IInv'
<1>1. ASSUME NEW timer \in LapseTimers
      PROVE  Sound(screen, sweep, dataGen, [lane EXCEPT !.timer = timer], calls, floor, world)
  BY DEF IInv, Sound, Typed, Lane, CallsKnown, SingleFlight, AskedSince
<1>2. /\ Sound(screen', sweep', dataGen', lane', calls', floor', world')
      /\ dataLoading' \in BOOLEAN /\ balancesLoading' \in BOOLEAN
  <2>1. CASE Busy(lane.flight)
    <3>1. "early" \in LapseTimers
      BY DEF LapseTimers
    <3>2. Sound(screen, sweep, dataGen, [lane EXCEPT !.timer = "early"], calls, floor, world)
      BY <1>1, <3>1
    <3>3. /\ lane' = [lane EXCEPT !.timer = "early"]
          /\ UNCHANGED <<screen, sweep, dataGen, dataLoading, balancesLoading, calls, floor, world>>
      BY <2>1 DEF LapseTimer
    <3> QED BY <3>2, <3>3 DEF IInv, RestTyped
  <2>2. CASE ~Busy(lane.flight)
    <3>1. "none" \in LapseTimers
      BY DEF LapseTimers
    <3>2. Sound(screen, sweep, dataGen, [lane EXCEPT !.timer = "none"], calls, floor, world)
      BY <1>1, <3>1
    <3> QED BY <2>2, <3>2, HandOnKeeps DEF LapseTimer, IInv
  <2> QED BY <2>1, <2>2
<1>3. RestTyped'
  BY <1>2 DEF LapseTimer, IInv, RestTyped
<1> QED BY <1>2, <1>3 DEF IInv

(* A call less: the invariant speaks of every call, so it survives. *)
LEMMA FewerCalls ==
  ASSUME IInv, NEW out, out \subseteq calls
  PROVE  Sound(screen, sweep, dataGen, lane, out, floor, world)
  BY DEF IInv, Sound, Typed, CallsKnown, GenNamesAccount, SingleFlight, AskedSince

LEMMA EnvironmentKeeps ==
  ASSUME IInv,
         \/ LapseAfterLoss
         \/ LapseBeforeReply
         \/ \E c \in calls : LoseCallback(c)
         \/ WorldMoves
         \/ Notice
  PROVE  IInv'
<1>1. CASE LapseAfterLoss \/ LapseBeforeReply
  <2>1. ClaimLapses /\ RestTyped'
    BY <1>1, SpendTyped DEF LapseAfterLoss, LapseBeforeReply, ClaimLapses, IInv, RestTyped
  <2>2. Lapsed(lane.flight) \in Claims(Nat, 1) /\ Lapsed(lane.flight).ticket = lane.flight.ticket
    BY DEF IInv, Sound, Typed, Lane, Claims, Lapsed
  <2>3. lane' \in Lane /\ lane'.flight.ticket = lane.flight.ticket
    BY <2>1, <2>2 DEF ClaimLapses, IInv, Sound, Typed, Lane
  <2> QED
    BY <2>1, <2>3 DEF ClaimLapses, shownVars, IInv, Sound, Typed, CallsKnown, GenNamesAccount,
                      SingleFlight, AskedSince, FloorSeen, ShowsSelection
<1>2. CASE \E c \in calls : LoseCallback(c)
  <2>1. PICK c \in calls : LoseCallback(c)
    BY <1>2
  <2>2. Sound(screen, sweep, dataGen, lane, calls', floor, world)
    BY <2>1, FewerCalls DEF LoseCallback
  <2> QED
    BY <2>1, <2>2, SpendTyped DEF LoseCallback, shownVars, IInv, RestTyped
<1>3. CASE WorldMoves
  BY <1>3 DEF WorldMoves, shownVars, laneVars, IInv, RestTyped, Sound, Typed, CallsKnown,
              GenNamesAccount, SingleFlight, AskedSince, FloorSeen, ShowsSelection, Call
<1>4. CASE Notice
  BY <1>4, SpendTyped DEF Notice, shownVars, laneVars, IInv, RestTyped
<1> QED BY <1>1, <1>2, <1>3, <1>4

-----------------------------------------------------------------------------
(***************************************************************************)
(* The two callbacks.                                                      *)
(***************************************************************************)

LEMMA BalancesCallbackKeeps ==
  ASSUME IInv, NEW c \in calls, NEW reply \in BalancesReplies(c), c.leg = "balances",
         BalancesCallback(c, reply), UNCHANGED <<dataGen, due, world, used>>
  PROVE  IInv'
<1> DEFINE next == [c EXCEPT !.leg = "history", !.asked = world]
<1>1. /\ c \in Call /\ c.slot = lane.flight.ticket
      /\ next \in Call /\ next.slot = c.slot /\ next.gen = c.gen /\ next.who = c.who
      /\ next.asked = world /\ next.leg = "history"
  BY DEF IInv, Sound, Typed, Call, BalancesCallback, Owns, IsCurrent
<1>2. calls' = (calls \ {c}) \cup {next} /\ lane' = lane /\ sweep' = sweep
      /\ dataLoading' = dataLoading /\ balancesLoading' = FALSE
  BY DEF BalancesCallback
<1>3. \A d \in calls \ {c} : d.slot # lane.flight.ticket
  BY <1>1 DEF IInv, Sound, SingleFlight
<1>4. /\ calls' \subseteq Call
      /\ CallsKnown(dataGen, lane, calls', world)
      /\ SingleFlight(lane, calls')
  <2> HIDE DEF next
  <2>1. calls' \subseteq Call
    BY <1>1, <1>2 DEF IInv, Sound, Typed
  <2>2. CallsKnown(dataGen, lane, calls', world)
    BY <1>1, <1>2 DEF IInv, Sound, Typed, CallsKnown
  <2>3. SingleFlight(lane, calls')
    BY <1>2, <1>3 DEF SingleFlight
  <2> QED BY <2>1, <2>2, <2>3
<1>5. /\ screen' \in ScopedStates /\ screen'.account = screen.account
      /\ ShowsSelection(screen')
      /\ floor' \in [balances : Nat, history : Nat]
      /\ floor'.history = floor.history /\ floor'.balances <= world
  <2>1. CASE Publishes(c, reply)
    <3>1. PICK v \in Answers(c) : reply = BalancesReply(c.who, screen.chain, v)
      BY <2>1 DEF Publishes, BalancesReplies, Refusal
    <3>2. v \in Nat /\ v <= world
      BY <1>1, <3>1 DEF Answers, IInv, Sound, Typed, Call
    <3>3. reply.figure \in Figure /\ reply.figure.who = screen.account
          /\ reply.figure.chain = screen.chain /\ reply.figure.read = v
      BY <1>1, <2>1, <3>1, <3>2 DEF Publishes, AnswersFor, BalancesReply, Figure, Whos, IInv, Sound,
                                    Typed, ScopedStates, Call
    <3>4. /\ screen' = [screen EXCEPT !.balances = reply.figure, !.fresh = TRUE]
          /\ floor' = [floor EXCEPT !.balances = reply.figure.read]
      BY <2>1 DEF BalancesCallback, Publishes, ApplyBalances
    <3> QED
      BY <3>2, <3>3, <3>4 DEF IInv, Sound, Typed, ScopedStates, ShowsSelection, FloorSeen
  <2>2. CASE ~Publishes(c, reply)
    <3>1. screen' = screen \/ screen' = [screen EXCEPT !.balances = Unknown, !.fresh = TRUE]
      BY <2>2 DEF BalancesCallback, Publishes, ApplyBalances
    <3>2. floor' = floor
      BY <2>2 DEF BalancesCallback
    <3> QED
      BY <3>1, <3>2 DEF IInv, Sound, Typed, ScopedStates, ShowsSelection, FloorSeen
  <2> QED BY <2>1, <2>2
<1>6. GenNamesAccount(screen', dataGen, calls')
  BY <1>1, <1>2, <1>5 DEF IInv, Sound, GenNamesAccount
<1>7. AskedSince(dataGen, lane, calls', floor')
  BY <1>1, <1>2, <1>3, <1>5 DEF IInv, Sound, AskedSince, FloorSeen
<1>8. FloorSeen(floor', world)
  BY <1>5 DEF IInv, Sound, FloorSeen
<1> QED
  BY <1>2, <1>4, <1>5, <1>6, <1>7, <1>8 DEF IInv, RestTyped, Sound, Typed

LEMMA HistoryCallbackKeeps ==
  ASSUME IInv, NEW c \in calls, NEW reply \in HistoryReplies(c), c.leg = "history",
         HistoryCallback(c, reply), UNCHANGED <<dataGen, due, world, used>>
  PROVE  IInv'
<1> DEFINE s  == IF c.gen = dataGen THEN ApplyHistory(screen, reply) ELSE screen
           sw == IF c.gen = dataGen THEN SweepAfter(sweep, screen, reply) ELSE sweep
           l  == [lane EXCEPT !.flight = Released(@, c.slot)]
<1>1. c \in Call /\ c.slot = lane.flight.ticket
  BY DEF IInv, Sound, Typed, HistoryCallback, Owns, IsCurrent
<1>2. HandOn(s, sw, dataGen, l, calls \ {c})
  BY DEF HistoryCallback
<1>3. l \in Lane /\ l.flight.ticket = lane.flight.ticket
  <2>1. Released(lane.flight, c.slot) \in Claims(Nat, 1)
        /\ Released(lane.flight, c.slot).ticket = lane.flight.ticket
    BY DEF IInv, Sound, Typed, Lane, Claims, Released
  <2> QED BY <2>1 DEF IInv, Sound, Typed, Lane
<1>4. \A d \in calls \ {c} : d.slot # lane.flight.ticket
  BY <1>1 DEF IInv, Sound, SingleFlight
<1>5. /\ s \in ScopedStates /\ s.account = screen.account
      /\ ShowsSelection(s) /\ sw \in BOOLEAN
      /\ floor' \in [balances : Nat, history : Nat]
      /\ FloorSeen(floor', world)
  <2>1. CASE Publishes(c, reply)
    <3>1. PICK v \in Answers(c), due0 \in BOOLEAN :
            reply = HistoryReply(c.who, screen.chain, v, due0)
      BY <2>1 DEF Publishes, HistoryReplies, Refusal
    <3>2. v \in Nat /\ v <= world
      BY <1>1, <3>1 DEF Answers, IInv, Sound, Typed, Call
    <3>3. reply.figure \in Rows /\ reply.figure.who = screen.account
          /\ reply.figure.chain = screen.chain /\ reply.figure.read = v
          /\ reply.figure.stillDue \in BOOLEAN
      BY <1>1, <2>1, <3>1, <3>2 DEF Publishes, AnswersFor, HistoryReply, Rows, Whos, IInv, Sound,
                                    Typed, ScopedStates, Call
    <3>4. /\ s = [screen EXCEPT !.history = reply.figure]
          /\ sw = reply.figure.stillDue
          /\ floor' = [floor EXCEPT !.history = reply.figure.read]
      BY <2>1 DEF HistoryCallback, Publishes, ApplyHistory, SweepAfter
    <3> QED
      BY <3>2, <3>3, <3>4 DEF IInv, Sound, Typed, ScopedStates, ShowsSelection, FloorSeen
  <2>2. CASE ~Publishes(c, reply)
    <3>1. s = screen \/ s = [screen EXCEPT !.history = Unknown]
      BY <2>2 DEF Publishes, ApplyHistory
    <3>2. floor' = floor /\ sw = sweep
      BY <2>2 DEF HistoryCallback, Publishes, SweepAfter
    <3> QED
      BY <3>1, <3>2 DEF IInv, Sound, Typed, ScopedStates, ShowsSelection
  <2> QED BY <2>1, <2>2
<1>6. Sound(s, sw, dataGen, l, calls \ {c}, floor', world)
  BY <1>3, <1>4, <1>5 DEF IInv, Sound, Typed, CallsKnown, GenNamesAccount, SingleFlight, AskedSince
<1>7. /\ Sound(screen', sweep', dataGen, lane', calls', floor', world)
      /\ dataLoading' \in BOOLEAN /\ balancesLoading' \in BOOLEAN
  <2> HIDE DEF s, sw, l
  <2> QED BY <1>2, <1>6, HandOnKeeps DEF IInv
<1> QED
  BY <1>7 DEF IInv, RestTyped

LEMMA CallbackKeeps ==
  ASSUME IInv, NEW c \in calls, Callback(c)
  PROVE  IInv'
<1>1. CASE DropCallback(c)
  <2>1. Sound(screen, sweep, dataGen, lane, calls', floor, world)
    BY <1>1, FewerCalls DEF DropCallback
  <2> QED BY <1>1, <2>1 DEF Callback, DropCallback, IInv, RestTyped
<1>2. CASE c.leg = "balances" /\ \E reply \in BalancesReplies(c) : BalancesCallback(c, reply)
  BY <1>2, BalancesCallbackKeeps DEF Callback
<1>3. CASE c.leg = "history" /\ \E reply \in HistoryReplies(c) : HistoryCallback(c, reply)
  BY <1>3, HistoryCallbackKeeps DEF Callback
<1> QED BY <1>1, <1>2, <1>3 DEF Callback

LEMMA StepKeeps == IInv /\ [Next]_vars => IInv'
<1> SUFFICES ASSUME IInv, [Next]_vars PROVE IInv'
  OBVIOUS
<1>1. ASSUME NEW who \in Accounts, SelectAccount(who) PROVE IInv'
  BY <1>1, SelectAccountKeeps
<1>2. ASSUME NEW net \in Chains, SelectChain(net) PROVE IInv'
  BY <1>2, SelectChainKeeps
<1>3. ASSUME NEW who \in Whos, NEW net \in Nets, RefreshMovesSelection(who, net) PROVE IInv'
  BY <1>3, RefreshMovesKeeps
<1>4. CASE Reread
  BY <1>4, RereadKeeps
<1>5. ASSUME NEW c \in calls, Callback(c) PROVE IInv'
  BY <1>5, CallbackKeeps
<1>6. CASE LapseTimer
  BY <1>6, LapseTimerKeeps
<1>7. CASE \/ LapseAfterLoss
           \/ LapseBeforeReply
           \/ \E c \in calls : LoseCallback(c)
           \/ WorldMoves
           \/ Notice
  BY <1>7, EnvironmentKeeps
<1>8. CASE UNCHANGED vars
  BY <1>8 DEF vars, shownVars, laneVars, IInv, RestTyped, Sound, Typed, CallsKnown,
              GenNamesAccount, SingleFlight, AskedSince, FloorSeen, ShowsSelection
<1> QED
  BY <1>1, <1>2, <1>3, <1>4, <1>5, <1>6, <1>7, <1>8 DEF Next

LEMMA Invariance == Spec => []IInv
  BY InitSound, StepKeeps, PTL DEF Spec

(* Every variable keeps its type, for any number of accounts, chains, moves, *)
(* notices, losses and late replies.                                         *)
THEOREM TypeCorrect == Spec => []TypeOK
<1>1. IInv => TypeOK
  BY DEF IInv, RestTyped, Sound, Typed, TypeOK
<1> QED BY <1>1, Invariance, PTL

(* No figure is ever on screen under another selection's name. *)
THEOREM OnlyTheSelection == Spec => []ScreenIsSelections
<1>1. IInv => ScreenIsSelections
  BY DEF IInv, Sound, ShowsSelection, ScreenIsSelections
<1> QED BY <1>1, Invariance, PTL

-----------------------------------------------------------------------------
(***************************************************************************)
(* DataLane implements Screen.                                             *)
(***************************************************************************)

(* What a read does to the screen: nothing, unless nobody is selected. *)
LEMMA LoadShows ==
  ASSUME NEW s, NEW sw, NEW gen, NEW l, NEW out, LoadBalancesAndHistory(s, sw, gen, l, out)
  PROVE  screen' = s \/ (s.account = NoAccount /\ screen' = ApplyNoAccount(s))
  BY DEF LoadBalancesAndHistory, NothingToRead, CoalesceBehindLive, IssueRead

LEMMA HandOnShows ==
  ASSUME NEW s, NEW sw, NEW gen, NEW l, NEW out, HandOn(s, sw, gen, l, out)
  PROVE  screen' = s \/ (s.account = NoAccount /\ screen' = ApplyNoAccount(s))
  BY LoadShows DEF HandOn

PromiseStep == [Promise!Next]_(Promise!vars)

LEMMA StutterShows ==
  ASSUME UNCHANGED <<screen, floor, world>>
  PROVE  PromiseStep
  BY DEF PromiseStep, Promise!vars, Promise!selection, Promise!figures

LEMMA NobodyShows ==
  ASSUME screen \in ScopedStates, screen.account = NoAccount,
         screen' = ApplyNoAccount(screen), UNCHANGED <<floor, world>>
  PROVE  PromiseStep
<1>1. Promise!ShowNobody
  BY DEF Promise!ShowNobody, Promise!selection, Promise!figures, ApplyNoAccount, ScopedStates
<1> QED BY <1>1 DEF PromiseStep, Promise!Next

LEMMA MoveShows ==
  ASSUME screen \in ScopedStates, NEW who \in Whos, NEW net \in Nets,
         screen' = EnterScope(screen, who, net), floor' = FloorAfter(who, net), UNCHANGED world
  PROVE  PromiseStep
<1>1. CASE ~Moves(screen, who, net)
  BY <1>1, StutterShows DEF EnterScope, FloorAfter
<1>2. CASE Moves(screen, who, net)
  <2>1. screen' = Blank(who, net) /\ floor' = [balances |-> world, history |-> world]
    BY <1>2 DEF EnterScope, FloorAfter
  <2>2. Promise!MoveSelection
    BY <1>2, <2>1 DEF Promise!MoveSelection, Promise!selection, Promise!figures, Blank, Moves,
                      Whos, Nets
  <2> QED BY <2>2 DEF PromiseStep, Promise!Next
<1> QED BY <1>1, <1>2

LEMMA BalancesShow ==
  ASSUME IInv, NEW c \in calls, NEW reply \in BalancesReplies(c), c.leg = "balances",
         BalancesCallback(c, reply), UNCHANGED world
  PROVE  PromiseStep
<1>1. c \in Call /\ (c.gen = dataGen => screen.account = c.who)
      /\ (c.gen = dataGen => floor.balances <= c.asked)
  BY DEF IInv, Sound, Typed, GenNamesAccount, AskedSince, BalancesCallback, Owns, IsCurrent
<1>2. CASE Publishes(c, reply)
  <2>1. PICK v \in Answers(c) : reply = BalancesReply(c.who, screen.chain, v)
    BY <1>2 DEF Publishes, BalancesReplies, Refusal
  <2>2. v \in floor.balances .. world
    BY <1>1, <1>2, <2>1 DEF Publishes, Answers, IInv, Sound, Typed, Call
  <2>3. /\ screen' = [screen EXCEPT !.balances = reply.figure, !.fresh = TRUE]
        /\ floor' = [floor EXCEPT !.balances = reply.figure.read]
    BY <1>2 DEF BalancesCallback, Publishes, ApplyBalances
  <2>4. reply.figure = [who |-> screen.account, chain |-> screen.chain, read |-> v]
        /\ screen.account \in Accounts
    BY <1>1, <1>2, <2>1 DEF Publishes, BalancesReply, Call
  <2>5. Promise!ShowBalances
    BY <2>2, <2>3, <2>4 DEF Promise!ShowBalances, Promise!selection, IInv, Sound, Typed, ScopedStates
  <2> QED BY <2>5 DEF PromiseStep, Promise!Next
<1>3. CASE ~Publishes(c, reply) /\ screen' = screen
  BY <1>3, StutterShows DEF BalancesCallback
<1>4. CASE ~Publishes(c, reply) /\ screen' # screen
  <2>1. /\ screen' = [screen EXCEPT !.balances = Unknown, !.fresh = TRUE]
        /\ floor' = floor /\ c.gen = dataGen
    BY <1>4 DEF BalancesCallback, Publishes, ApplyBalances
  <2>2. Promise!RefuseBalances
    BY <1>1, <2>1 DEF Promise!RefuseBalances, Promise!selection, IInv, Sound, Typed, ScopedStates, Call
  <2> QED BY <2>2 DEF PromiseStep, Promise!Next
<1> QED BY <1>2, <1>3, <1>4

LEMMA HistoryShows ==
  ASSUME IInv, NEW c \in calls, NEW reply \in HistoryReplies(c), c.leg = "history",
         HistoryCallback(c, reply), UNCHANGED world
  PROVE  PromiseStep
<1>1. c \in Call /\ (c.gen = dataGen => screen.account = c.who)
      /\ (c.gen = dataGen => floor.history <= c.asked)
  BY DEF IInv, Sound, Typed, GenNamesAccount, AskedSince, HistoryCallback, Owns, IsCurrent
<1>2. CASE c.gen # dataGen
  <2>1. floor' = floor /\ (screen' = screen \/ (screen.account = NoAccount
                                               /\ screen' = ApplyNoAccount(screen)))
    BY <1>2, HandOnShows DEF HistoryCallback, Publishes
  <2> QED BY <2>1, StutterShows, NobodyShows DEF IInv, Sound, Typed
<1>3. CASE c.gen = dataGen
  <2>1. screen.account \in Accounts
    BY <1>1, <1>3 DEF Call
  <2>2. ApplyHistory(screen, reply).account = screen.account
    BY DEF ApplyHistory, IInv, Sound, Typed, ScopedStates
  <2>3. screen' = ApplyHistory(screen, reply)
    BY <1>3, <2>1, <2>2, HandOnShows DEF HistoryCallback
  <2>4. CASE Publishes(c, reply)
    <3>1. PICK v \in Answers(c), d \in BOOLEAN : reply = HistoryReply(c.who, screen.chain, v, d)
      BY <2>4 DEF Publishes, HistoryReplies, Refusal
    <3>2. v \in floor.history .. world
      BY <1>1, <1>3, <3>1 DEF Answers, IInv, Sound, Typed, Call
    <3>3. /\ screen' = [screen EXCEPT !.history = reply.figure]
          /\ floor' = [floor EXCEPT !.history = reply.figure.read]
      BY <2>3, <2>4 DEF HistoryCallback, Publishes, ApplyHistory
    <3>4. reply.figure = [who |-> screen.account, chain |-> screen.chain, read |-> v,
                          stillDue |-> d]
      BY <1>1, <1>3, <3>1 DEF HistoryReply
    <3>5. Promise!ShowHistory
      BY <2>1, <3>2, <3>3, <3>4 DEF Promise!ShowHistory, Promise!selection, IInv, Sound, Typed,
                                    ScopedStates
    <3> QED BY <3>5 DEF PromiseStep, Promise!Next
  <2>5. CASE ~Publishes(c, reply) /\ screen' = screen
    BY <2>5, StutterShows DEF HistoryCallback
  <2>6. CASE ~Publishes(c, reply) /\ screen' # screen
    <3>1. screen' = [screen EXCEPT !.history = Unknown] /\ floor' = floor
      BY <1>3, <2>3, <2>6 DEF HistoryCallback, Publishes, ApplyHistory
    <3>2. Promise!RefuseHistory
      BY <2>1, <3>1 DEF Promise!RefuseHistory, Promise!selection, IInv, Sound, Typed, ScopedStates
    <3> QED BY <3>2 DEF PromiseStep, Promise!Next
  <2> QED BY <2>4, <2>5, <2>6
<1> QED BY <1>2, <1>3

LEMMA StepShows == IInv /\ [Next]_vars => PromiseStep
<1> SUFFICES ASSUME IInv, [Next]_vars PROVE PromiseStep
  OBVIOUS
<1>t. screen \in ScopedStates
  BY DEF IInv, Sound, Typed
<1>1. ASSUME NEW who \in Accounts, SelectAccount(who) PROVE PromiseStep
  <2>1. who \in Whos /\ screen.chain \in Nets /\ who # NoAccount
    BY <1>t DEF Whos, ScopedStates
  <2>2. EnterScope(screen, who, screen.chain).account = who
    BY DEF EnterScope, Moves, Blank
  <2>3. screen' = EnterScope(screen, who, screen.chain)
    BY <1>1, <2>1, <2>2, LoadShows DEF SelectAccount
  <2> QED BY <1>t, <1>1, <2>1, <2>3, MoveShows DEF SelectAccount
<1>2. ASSUME NEW net \in Chains, SelectChain(net) PROVE PromiseStep
  <2>1. screen.account \in Whos /\ net \in Nets
    BY <1>t DEF ScopedStates, Nets
  <2> QED BY <1>t, <1>2, <2>1, MoveShows DEF SelectChain
<1>3. ASSUME NEW who \in Whos, NEW net \in Nets, RefreshMovesSelection(who, net) PROVE PromiseStep
  BY <1>t, <1>3, MoveShows DEF RefreshMovesSelection
<1>4. CASE Reread
  <2>1. UNCHANGED <<floor, world>>
        /\ (screen' = screen \/ (screen.account = NoAccount /\ screen' = ApplyNoAccount(screen)))
    BY <1>4, LoadShows DEF Reread
  <2> QED BY <1>t, <2>1, StutterShows, NobodyShows
<1>5. ASSUME NEW c \in calls, Callback(c) PROVE PromiseStep
  <2>1. CASE DropCallback(c)
    BY <1>5, <2>1, StutterShows DEF DropCallback, Callback
  <2>2. CASE c.leg = "balances" /\ \E reply \in BalancesReplies(c) : BalancesCallback(c, reply)
    BY <1>5, <2>2, BalancesShow DEF Callback
  <2>3. CASE c.leg = "history" /\ \E reply \in HistoryReplies(c) : HistoryCallback(c, reply)
    BY <1>5, <2>3, HistoryShows DEF Callback
  <2> QED BY <1>5, <2>1, <2>2, <2>3 DEF Callback
<1>6. CASE LapseTimer
  <2>1. UNCHANGED <<floor, world>>
        /\ (screen' = screen \/ (screen.account = NoAccount /\ screen' = ApplyNoAccount(screen)))
    BY <1>6, HandOnShows DEF LapseTimer
  <2> QED BY <1>t, <2>1, StutterShows, NobodyShows
<1>7. CASE WorldMoves
  <2>1. Promise!WorldMoves
    BY <1>7 DEF WorldMoves, shownVars, Promise!WorldMoves, Promise!selection, Promise!figures
  <2> QED BY <2>1 DEF PromiseStep, Promise!Next
<1>8. CASE \/ LapseAfterLoss
           \/ LapseBeforeReply
           \/ \E c \in calls : LoseCallback(c)
           \/ Notice
           \/ UNCHANGED vars
  BY <1>8, StutterShows DEF LapseAfterLoss, LapseBeforeReply, ClaimLapses, LoseCallback, Notice,
                            vars, shownVars
<1> QED
  BY <1>1, <1>2, <1>3, <1>4, <1>5, <1>6, <1>7, <1>8 DEF Next

(* The guarded lane keeps what Screen promises: every step of it is a step   *)
(* of Screen or leaves the screen as it was.                                 *)
THEOREM KeepsThePromise == Spec => PromiseSpec
<1>1. Init => Promise!Init
  BY DEF Init, Promise!Init, Promise!selection, Promise!figures, Blank
<1>2. IInv /\ [Next]_vars => [Promise!Next]_(Promise!vars)
  BY StepShows DEF PromiseStep
<1> QED BY <1>1, <1>2, Invariance, PTL DEF Spec, PromiseSpec, Promise!Spec

(* A figure that appears was read since the selection was made, and no       *)
(* earlier than one this selection has already shown.                        *)
THEOREM RowsNeverGoBack == Spec => NoOlderRows
<1> DEFINE RowsStep == /\ Newer(screen'.balances, floor.balances, screen.balances)
                       /\ Newer(screen'.history, floor.history, screen.history)
<1>1. IInv /\ PromiseStep => RowsStep
  <2> SUFFICES ASSUME IInv, PromiseStep PROVE RowsStep
    OBVIOUS
  <2>1. floor.balances \in Nat /\ floor.history \in Nat /\ world \in Nat
    BY DEF IInv, Sound, Typed
  <2>2. CASE Promise!ShowBalances
    BY <2>1, <2>2 DEF Promise!ShowBalances, Newer
  <2>3. CASE Promise!ShowHistory
    BY <2>1, <2>3 DEF Promise!ShowHistory, Newer
  <2>4. CASE \/ Promise!MoveSelection
             \/ Promise!ShowNobody
             \/ Promise!RefuseBalances
             \/ Promise!RefuseHistory
             \/ Promise!WorldMoves
             \/ UNCHANGED Promise!vars
    BY <2>4 DEF Promise!MoveSelection, Promise!ShowNobody, Promise!RefuseBalances,
                Promise!RefuseHistory, Promise!WorldMoves, Promise!vars, Promise!figures, Newer
  <2> QED BY <2>2, <2>3, <2>4 DEF PromiseStep, Promise!Next
<1>2. IInv /\ [Next]_vars => [RowsStep]_vars
  BY <1>1, StepShows
<1> QED BY <1>2, Invariance, PTL DEF Spec, NoOlderRows

-----------------------------------------------------------------------------
(***************************************************************************)
(* The lapse timer.                                                        *)
(***************************************************************************)

(* A timer that is spent was spent on a claim that is still held. *)
Timed(l, loading) ==
  Busy(l.flight) \/ loading \/ l.again =>
    l.timer = "armed" \/ (l.timer = "early" /\ l.flight.held)

(* A claim that is held has its call out. *)
Served(l, out) == l.flight.held => \E c \in out : c.slot = l.flight.ticket

LEMMA AttendedIsServed == Attended = Served(lane, calls) /\ Attended' = Served(lane', calls')
BY DEF Attended, OwnCallOut, Owns, IsCurrent, Served

(* A read entered with the timer where it is needed leaves it so: one behind *)
(* a live claim finds it there, and any other arms it or raises no spinner.  *)
(* And no read takes a held claim's call from it.                            *)
LEMMA LoadArms ==
  ASSUME NEW s, NEW sw, NEW gen, NEW l \in Lane, NEW out,
         Timed(l, FALSE),
         LoadBalancesAndHistory(s, sw, gen, l, out)
  PROVE  Timed(lane', dataLoading' \/ balancesLoading') /\ (Served(l, out) => Served(lane', calls'))
<1>1. CASE NothingToRead(s, l, out)
  BY <1>1 DEF NothingToRead, Timed, Served
<1>2. CASE Busy(l.flight) /\ CoalesceBehindLive(s, sw, l, out)
  BY <1>2 DEF CoalesceBehindLive, Timed, Served, Lane
<1>3. CASE IssueRead(s, sw, gen, l, out)
  <2>1. PICK c : c = [leg |-> "balances", who |-> s.account, gen |-> gen,
                      slot |-> l.flight.ticket + 1, asked |-> world]
    OBVIOUS
  <2>2. PICK flight : flight = Taken(l.flight, 1)
    OBVIOUS
  <2>3. c \in calls' /\ lane' = [l EXCEPT !.flight = flight, !.timer = "armed"]
    BY <1>3, <2>1, <2>2 DEF IssueRead
  <2>4. lane'.flight.ticket = l.flight.ticket + 1 /\ lane'.timer = "armed"
    BY <2>2, <2>3 DEF Lane, Taken
  <2> QED BY <2>1, <2>3, <2>4 DEF Timed, Served
<1> QED BY <1>1, <1>2, <1>3 DEF LoadBalancesAndHistory

LEMMA HandOnArms ==
  ASSUME NEW s, NEW sw, NEW gen, NEW l \in Lane, NEW out,
         ~Busy(l.flight), HandOn(s, sw, gen, l, out)
  PROVE  Timed(lane', dataLoading' \/ balancesLoading') /\ (Served(l, out) => Served(lane', calls'))
<1>1. CASE l.again /\ LoadBalancesAndHistory(s, sw, gen, [l EXCEPT !.again = FALSE], out)
  <2> DEFINE k == [l EXCEPT !.again = FALSE]
  <2>1. k \in Lane /\ ~k.again /\ k.flight = l.flight
    BY DEF Lane
  <2> HIDE DEF k
  <2>2. Timed(k, FALSE) /\ Served(k, out) = Served(l, out)
    BY <2>1 DEF Timed, Served
  <2> QED BY <1>1, <2>1, <2>2, LoadArms DEF k
<1>2. CASE /\ ~l.again /\ lane' = l /\ calls' = out
           /\ dataLoading' = FALSE /\ balancesLoading' = FALSE
  BY <1>2 DEF Timed, Served
<1> QED BY <1>1, <1>2 DEF HandOn

Neglects == \E c \in calls : Owns(c.slot) /\ LoseCallback(c)

LEMMA StepArms ==
  ASSUME IInv, LapseIsArmed, [Next]_vars
  PROVE  LapseIsArmed' /\ (Attended => Attended' \/ Neglects)
<1> DEFINE Kept == /\ Timed(lane', dataLoading' \/ balancesLoading')
                   /\ Served(lane, calls) => Served(lane', calls')
<1>t. /\ lane \in Lane /\ lane.flight \in Claims(Nat, 1) /\ calls \subseteq Call
      /\ Timed(lane, dataLoading \/ balancesLoading) /\ Timed(lane, FALSE)
  BY DEF IInv, Sound, Typed, RestTyped, Lane, LapseIsArmed, Timed
<1>k. Kept => LapseIsArmed' /\ (Attended => Attended' \/ Neglects)
  BY AttendedIsServed DEF Timed, LapseIsArmed
<1>1. ASSUME NEW who \in Accounts, SelectAccount(who) PROVE Kept
  BY <1>t, <1>1, LoadArms DEF SelectAccount
<1>2. ASSUME Reread PROVE Kept
  BY <1>t, <1>2, LoadArms DEF Reread
<1>3. ASSUME NEW c \in calls, Callback(c) PROVE Kept
  <2>1. CASE DropCallback(c)
    BY <1>t, <2>1 DEF DropCallback, Timed, Served, Owns, IsCurrent
  <2>2. CASE \E reply \in BalancesReplies(c) : BalancesCallback(c, reply)
    <3>1. PICK next : next = [c EXCEPT !.leg = "history", !.asked = world]
      OBVIOUS
    <3>2. next.slot = c.slot
      BY <1>t, <3>1 DEF Call
    <3>3. /\ lane' = lane /\ dataLoading' = dataLoading /\ balancesLoading' = FALSE
          /\ next \in calls' /\ c.slot = lane.flight.ticket
      BY <2>2, <3>1 DEF BalancesCallback, Owns, IsCurrent
    <3> QED BY <1>t, <3>2, <3>3 DEF Timed, Served
  <2>3. CASE \E reply \in HistoryReplies(c) : HistoryCallback(c, reply)
    <3>1. PICK reply \in HistoryReplies(c) : HistoryCallback(c, reply)
      BY <2>3
    <3> DEFINE l == [lane EXCEPT !.flight = Released(@, c.slot)]
    <3>2. l \in Lane /\ ~l.flight.held
      <4>1. Released(lane.flight, c.slot) \in Claims(Nat, 1) /\ ~Released(lane.flight, c.slot).held
        BY <1>t, <3>1 DEF Claims, Released, HistoryCallback, Owns, IsCurrent
      <4> QED BY <1>t, <4>1 DEF Lane
    <3> HIDE DEF l
    <3>3. ~Busy(l.flight) /\ Served(l, calls \ {c})
      BY <3>2 DEF Busy, Served
    <3> QED BY <3>1, <3>2, <3>3, HandOnArms DEF HistoryCallback, l
  <2> QED BY <1>3, <2>1, <2>2, <2>3 DEF Callback
<1>4. ASSUME LapseTimer PROVE Kept
  <2>1. CASE Busy(lane.flight)
    <3>1. /\ lane' = [lane EXCEPT !.timer = "early"]
          /\ UNCHANGED <<dataLoading, balancesLoading, calls>>
      BY <1>4, <2>1 DEF LapseTimer
    <3>2. lane'.flight = lane.flight /\ lane'.timer = "early" /\ lane.flight.held
      BY <1>t, <2>1, <3>1 DEF Lane, Busy
    <3> QED BY <3>1, <3>2 DEF Timed, Served
  <2>2. CASE ~Busy(lane.flight)
    <3> DEFINE l == [lane EXCEPT !.timer = "none"]
    <3>1. l \in Lane /\ l.flight = lane.flight
      BY <1>t DEF Lane, LapseTimers
    <3> HIDE DEF l
    <3>2. Served(lane, calls) = Served(l, calls)
      BY <3>1 DEF Served
    <3> QED BY <1>4, <2>2, <3>1, <3>2, HandOnArms DEF LapseTimer, l
  <2> QED BY <2>1, <2>2
<1>5. ASSUME LapseAfterLoss \/ LapseBeforeReply PROVE Kept
  <2>1. /\ lane' = [lane EXCEPT !.flight = Lapsed(@)]
        /\ UNCHANGED <<dataLoading, balancesLoading, calls>>
    BY <1>5 DEF LapseAfterLoss, LapseBeforeReply, ClaimLapses
  <2>2. /\ lane'.flight.held = lane.flight.held /\ lane'.flight.ticket = lane.flight.ticket
        /\ ~Busy(lane'.flight) /\ lane'.timer = lane.timer /\ lane'.again = lane.again
    BY <1>t, <2>1 DEF Lane, Claims, Lapsed, Busy
  <2> QED BY <1>t, <2>1, <2>2 DEF Timed, Served
<1>6. ASSUME NEW c \in calls, LoseCallback(c)
      PROVE  LapseIsArmed' /\ (Attended => Attended' \/ Neglects)
  <2>1. UNCHANGED <<lane, dataLoading, balancesLoading>> /\ calls' = calls \ {c}
    BY <1>6 DEF LoseCallback
  <2>2. CASE Owns(c.slot)
    BY <1>6, <2>1, <2>2 DEF LapseIsArmed, Neglects
  <2>3. CASE ~Owns(c.slot)
    BY <2>1, <2>3 DEF LapseIsArmed, Attended, OwnCallOut, Owns, IsCurrent
  <2> QED BY <2>2, <2>3
<1>7. ASSUME \/ \E net \in Chains : SelectChain(net)
             \/ \E who \in Whos, net \in Nets : RefreshMovesSelection(who, net)
             \/ WorldMoves
             \/ Notice
             \/ UNCHANGED vars
      PROVE  Kept
  <2>1. UNCHANGED <<lane, dataLoading, balancesLoading, calls>>
    BY <1>7 DEF SelectChain, RefreshMovesSelection, WorldMoves, Notice, vars, laneVars
  <2> QED BY <1>t, <2>1 DEF Timed, Served
<1> HIDE DEF Kept
<1> QED
  BY <1>k, <1>1, <1>2, <1>3, <1>4, <1>5, <1>6, <1>7 DEF Next

(* Whatever moves, lapses and is lost, a lane that is held, shows a spinner  *)
(* or owes a re-run has its lapse timer to come, or had it spent on a claim  *)
(* that is still held; and a held claim has its own call out until that very *)
(* call is lost.  A spinner with nothing left to lower it takes an early     *)
(* timer and a lost call both, of one claim (beginLane, handOnLane, owns()). *)
THEOREM LapseStaysArmed == Spec => []LapseIsArmed /\ LossAloneNeglects
<1>1. Init => LapseIsArmed
  BY DEF Init, LapseIsArmed, Busy, FreeClaim
<1>2. IInv /\ LapseIsArmed /\ [Next]_vars
        => /\ LapseIsArmed'
           /\ [Attended => Attended' \/ \E c \in calls : Owns(c.slot) /\ LoseCallback(c)]_vars
  BY StepArms DEF Neglects
<1> QED BY <1>1, <1>2, Invariance, PTL DEF Spec, LossAloneNeglects

-----------------------------------------------------------------------------
(***************************************************************************)
(* The receipt sweep.                                                      *)
(***************************************************************************)

SweepAnswered ==
  \/ screen'.account = NoAccount
  \/ screen'.history \notin {Unknown, NoRows} /\ ~screen'.history.stillDue

(* A read leaves the screen and the sweep it was entered with, unless nobody *)
(* is selected, and then nobody is on screen after it.                       *)
LEMMA LoadSweeps ==
  ASSUME NEW s \in ScopedStates, NEW sw, NEW gen, NEW l, NEW out,
         LoadBalancesAndHistory(s, sw, gen, l, out)
  PROVE  (screen' = s /\ sweep' = sw) \/ screen'.account = NoAccount
  BY DEF LoadBalancesAndHistory, NothingToRead, CoalesceBehindLive, IssueRead, ApplyNoAccount,
         ScopedStates

LEMMA HandOnSweeps ==
  ASSUME NEW s \in ScopedStates, NEW sw, NEW gen, NEW l, NEW out, HandOn(s, sw, gen, l, out)
  PROVE  (screen' = s /\ sweep' = sw) \/ screen'.account = NoAccount
  BY LoadSweeps DEF HandOn

(* The sweep a reply leaves is the one before it, or what the rows it puts   *)
(* on screen say.                                                            *)
LEMMA ReplySweeps ==
  ASSUME IInv, NEW c \in calls, NEW reply \in HistoryReplies(c)
  PROVE  /\ ApplyHistory(screen, reply) \in ScopedStates
         /\ LET h == ApplyHistory(screen, reply).history
            IN  \/ SweepAfter(sweep, screen, reply) = sweep
                \/ h \notin {Unknown, NoRows} /\ SweepAfter(sweep, screen, reply) = h.stillDue
<1>1. screen \in ScopedStates /\ c \in Call /\ world \in Nat
  BY DEF IInv, Sound, Typed
<1>2. CASE reply = Refusal
  BY <1>1, <1>2 DEF Refusal, ApplyHistory, SweepAfter, AnswersFor, ScopedStates
<1>3. CASE reply # Refusal
  <2>1. PICK v \in Answers(c), d \in BOOLEAN : reply = HistoryReply(c.who, screen.chain, v, d)
    BY <1>3 DEF HistoryReplies
  <2>2. reply.ok /\ reply.figure \in Rows
    BY <1>1, <2>1 DEF HistoryReply, Rows, Answers, Call, ScopedStates, Whos
  <2>3. reply.figure \notin {Unknown, NoRows}
    BY <2>2
  <2>4. CASE AnswersFor(reply, screen)
    BY <1>1, <2>2, <2>3, <2>4 DEF ApplyHistory, SweepAfter, ScopedStates
  <2>5. CASE ~AnswersFor(reply, screen)
    BY <1>1, <2>5 DEF ApplyHistory, SweepAfter
  <2> QED BY <2>4, <2>5
<1> QED BY <1>2, <1>3

LEMMA StepSweeps == IInv /\ [Next]_vars => (sweep /\ ~sweep' => SweepAnswered)
<1> SUFFICES ASSUME IInv, [Next]_vars, sweep, ~sweep' PROVE SweepAnswered
  OBVIOUS
<1>t. screen \in ScopedStates /\ sweep \in BOOLEAN
  BY DEF IInv, Sound, Typed
<1>1. ASSUME NEW who \in Accounts, SelectAccount(who) PROVE SweepAnswered
  <2>1. who \in Whos /\ screen.chain \in Nets
    BY <1>t DEF ScopedStates, Whos
  <2>2. EnterScope(screen, who, screen.chain) \in ScopedStates
    BY <1>t, <2>1 DEF EnterScope, Blank, ScopedStates
  <2>3. sweep' = sweep \/ screen'.account = NoAccount
    BY <1>1, <2>2, LoadSweeps DEF SelectAccount
  <2> QED BY <2>3 DEF SweepAnswered
<1>2. CASE Reread
  <2>1. sweep' = sweep \/ screen'.account = NoAccount
    BY <1>t, <1>2, LoadSweeps DEF Reread
  <2> QED BY <2>1 DEF SweepAnswered
<1>3. ASSUME NEW c \in calls, Callback(c) PROVE SweepAnswered
  <2>1. CASE DropCallback(c) \/ \E reply \in BalancesReplies(c) : BalancesCallback(c, reply)
    BY <2>1 DEF DropCallback, BalancesCallback
  <2>2. CASE \E reply \in HistoryReplies(c) : HistoryCallback(c, reply)
    <3>1. PICK reply \in HistoryReplies(c) : HistoryCallback(c, reply)
      BY <2>2
    <3> DEFINE s  == IF c.gen = dataGen THEN ApplyHistory(screen, reply) ELSE screen
               sw == IF c.gen = dataGen THEN SweepAfter(sweep, screen, reply) ELSE sweep
    <3>2. /\ s \in ScopedStates
          /\ sw = sweep \/ (s.history \notin {Unknown, NoRows} /\ sw = s.history.stillDue)
      BY <1>t, ReplySweeps
    <3>3. (screen' = s /\ sweep' = sw) \/ screen'.account = NoAccount
      BY <3>1, <3>2, HandOnSweeps DEF HistoryCallback
    <3> HIDE DEF s, sw
    <3>4. CASE screen' = s /\ sweep' = sw
      <4>1. sw # sweep
        BY <3>4
      <4>2. screen'.history \notin {Unknown, NoRows} /\ sweep' = screen'.history.stillDue
        BY <3>2, <3>4, <4>1
      <4> QED BY <4>2 DEF SweepAnswered
    <3> QED BY <3>3, <3>4 DEF SweepAnswered
  <2> QED BY <1>3, <2>1, <2>2 DEF Callback
<1>4. CASE LapseTimer
  <2>1. sweep' = sweep \/ screen'.account = NoAccount
    BY <1>t, <1>4, HandOnSweeps DEF LapseTimer
  <2> QED BY <2>1 DEF SweepAnswered
<1>5. CASE \/ \E net \in Chains : SelectChain(net)
           \/ \E who \in Whos, net \in Nets : RefreshMovesSelection(who, net)
           \/ LapseAfterLoss
           \/ LapseBeforeReply
           \/ \E c \in calls : LoseCallback(c)
           \/ WorldMoves
           \/ Notice
           \/ UNCHANGED vars
  BY <1>5 DEF SelectChain, RefreshMovesSelection, LapseAfterLoss, LapseBeforeReply, ClaimLapses,
              LoseCallback, WorldMoves, Notice, vars, shownVars
<1> QED
  BY <1>1, <1>2, <1>3, <1>4, <1>5 DEF Next

(* The sweep of unsettled receipts stops on an answer for the selection on   *)
(* screen, or for want of an account: no refused, late or foreign reply ends *)
(* it (loadBalancesAndHistory's second callback, sweepVerdict).              *)
THEOREM SweepNeedsAnAnswer == Spec => SweepStopsOnAnswer
<1>1. IInv /\ [Next]_vars => [sweep /\ ~sweep' => SweepAnswered]_vars
  BY StepSweeps
<1> QED BY <1>1, Invariance, PTL DEF Spec, SweepStopsOnAnswer, SweepAnswered

-----------------------------------------------------------------------------
(***************************************************************************)
(* What is not fresh is being read, or will be.                            *)
(***************************************************************************)
Coming(s, gen, l, out) ==
  \/ s.fresh \/ l.again
  \/ \E c \in out : c.slot = l.flight.ticket /\ c.leg = "balances" /\ c.gen = gen

(* However it ends, a read that is asked for leaves one on its way. *)
LEMMA LoadReads ==
  ASSUME NEW s \in ScopedStates, NEW sw, NEW gen, NEW l \in Lane, NEW out,
         LoadBalancesAndHistory(s, sw, gen, l, out)
  PROVE  Coming(screen', gen, lane', calls')
<1>1. CASE NothingToRead(s, l, out)
  BY <1>1 DEF NothingToRead, ApplyNoAccount, ScopedStates, Coming
<1>2. CASE CoalesceBehindLive(s, sw, l, out)
  BY <1>2 DEF CoalesceBehindLive, Lane, Coming
<1>3. CASE IssueRead(s, sw, gen, l, out)
  <2>1. PICK c : c = [leg |-> "balances", who |-> s.account, gen |-> gen,
                      slot |-> l.flight.ticket + 1, asked |-> world]
    OBVIOUS
  <2>2. PICK flight : flight = Taken(l.flight, 1)
    OBVIOUS
  <2>3. c \in calls' /\ lane' = [l EXCEPT !.flight = flight, !.timer = "armed"]
    BY <1>3, <2>1, <2>2 DEF IssueRead
  <2>4. lane'.flight.ticket = l.flight.ticket + 1
    BY <2>2, <2>3 DEF Lane, Taken
  <2> QED BY <2>1, <2>3, <2>4 DEF Coming
<1> QED BY <1>1, <1>2, <1>3 DEF LoadBalancesAndHistory

LEMMA HandOnReads ==
  ASSUME NEW s \in ScopedStates, NEW sw, NEW gen, NEW l \in Lane, NEW out, NEW owed \in BOOLEAN,
         owed \/ Coming(s, gen, l, out), HandOn(s, sw, gen, l, out)
  PROVE  owed \/ Coming(screen', gen, lane', calls')
<1>1. CASE l.again
  <2>1. PICK m : m = [l EXCEPT !.again = FALSE]
    OBVIOUS
  <2> QED BY <1>1, <2>1, LoadReads DEF HandOn, Lane
<1>2. CASE ~l.again
  BY <1>2 DEF HandOn
<1> QED BY <1>1, <1>2

(* A reply the lane takes makes the selection fresh, unless it was asked for *)
(* under another; one it does not take was not the one to wait for.          *)
LEMMA ReplyReads ==
  ASSUME IInv, StaleIsReread, NEW c \in calls, Callback(c)
  PROVE  StaleIsReread'
<1>t. /\ screen \in ScopedStates /\ lane \in Lane /\ lane.flight \in Claims(Nat, 1)
      /\ c \in Call /\ due \in BOOLEAN
      /\ c.gen = dataGen => c.who = screen.account
  BY DEF IInv, Sound, Typed, RestTyped, GenNamesAccount, Lane
<1>1. UNCHANGED <<dataGen, due, used>>
  BY DEF Callback
<1>2. SUFFICES ASSUME ~(used.losses > 0) PROVE due \/ Coming(screen', dataGen', lane', calls')
  BY <1>1 DEF StaleIsReread, Coming, Owns, IsCurrent
<1>3. due \/ Coming(screen, dataGen, lane, calls)
  BY <1>2 DEF StaleIsReread, Coming, Owns, IsCurrent
<1>4. CASE DropCallback(c)
  BY <1>1, <1>3, <1>4 DEF DropCallback, Owns, IsCurrent, Coming
<1>5. ASSUME NEW reply \in BalancesReplies(c), c.leg = "balances", BalancesCallback(c, reply)
      PROVE  due \/ Coming(screen', dataGen', lane', calls')
  <2>1. lane' = lane /\ calls \ {c} \subseteq calls'
    BY <1>5 DEF BalancesCallback
  <2>2. CASE c.gen = dataGen
    <3>1. AnswersFor(reply, screen)
      BY <1>t, <1>5, <2>2 DEF BalancesReplies, Refusal, BalancesReply, AnswersFor
    <3>2. screen' = ApplyBalances(screen, reply)
      BY <1>5, <2>2 DEF BalancesCallback
    <3>3. screen'.fresh
      BY <1>t, <3>1, <3>2 DEF ApplyBalances, ScopedStates
    <3> QED BY <3>3 DEF Coming
  <2>3. CASE c.gen # dataGen
    BY <1>1, <1>3, <1>5, <2>1, <2>3 DEF BalancesCallback, Coming
  <2> QED BY <2>2, <2>3
<1>6. ASSUME NEW reply \in HistoryReplies(c), c.leg = "history", HistoryCallback(c, reply)
      PROVE  due \/ Coming(screen', dataGen', lane', calls')
  <2>1. PICK s : s = IF c.gen = dataGen THEN ApplyHistory(screen, reply) ELSE screen
    OBVIOUS
  <2>2. PICK l : l = [lane EXCEPT !.flight = Released(@, c.slot)]
    OBVIOUS
  <2>3. PICK sw : HandOn(s, sw, dataGen, l, calls \ {c})
    BY <1>6, <2>1, <2>2 DEF HistoryCallback
  <2>4. s \in ScopedStates /\ s.fresh = screen.fresh
    <3>1. ApplyHistory(screen, reply) \in ScopedStates
      BY ReplySweeps
    <3>2. ApplyHistory(screen, reply).fresh = screen.fresh
      BY <1>t DEF ApplyHistory, ScopedStates
    <3> QED BY <1>t, <2>1, <3>1, <3>2
  <2>5. l \in Lane /\ l.again = lane.again /\ l.flight.ticket = lane.flight.ticket
    <3>1. Released(lane.flight, c.slot) \in Claims(Nat, 1)
          /\ Released(lane.flight, c.slot).ticket = lane.flight.ticket
      BY <1>t DEF Released, Claims
    <3> QED BY <1>t, <2>2, <3>1 DEF Lane
  <2>6. due \/ Coming(s, dataGen, l, calls \ {c})
    BY <1>3, <1>6, <2>4, <2>5 DEF Coming
  <2> QED BY <1>t, <1>1, <2>3, <2>4, <2>5, <2>6, HandOnReads
<1> QED BY <1>4, <1>5, <1>6 DEF Callback

LEMMA StepReads == IInv /\ StaleIsReread /\ [Next]_vars => StaleIsReread'
<1> SUFFICES ASSUME IInv, StaleIsReread, [Next]_vars PROVE StaleIsReread'
  OBVIOUS
<1>t. /\ screen \in ScopedStates /\ lane \in Lane /\ lane.flight \in Claims(Nat, 1) /\ due \in BOOLEAN
      /\ used \in [moves : Nat, losses : Nat, late : Nat]
  BY DEF IInv, Sound, Typed, RestTyped, Lane
<1>1. ASSUME NEW who \in Accounts, SelectAccount(who) PROVE StaleIsReread'
  <2>1. PICK s : s = EnterScope(screen, who, screen.chain)
    OBVIOUS
  <2>2. s \in ScopedStates
    BY <1>t, <2>1 DEF EnterScope, Blank, ScopedStates, Whos
  <2>3. LoadBalancesAndHistory(s, sweep, dataGen', lane, calls)
    BY <1>1, <2>1 DEF SelectAccount
  <2> QED BY <1>t, <2>2, <2>3, LoadReads DEF StaleIsReread, Coming, Owns, IsCurrent
<1>2. CASE \/ \E net \in Chains : SelectChain(net)
           \/ \E who \in Whos, net \in Nets : RefreshMovesSelection(who, net)
           \/ Notice
  BY <1>2 DEF SelectChain, RefreshMovesSelection, Notice, StaleIsReread
<1>3. CASE Reread
  <2>1. LoadBalancesAndHistory(screen, sweep, dataGen', lane, calls)
    BY <1>3 DEF Reread
  <2> QED BY <1>t, <2>1, LoadReads DEF StaleIsReread, Coming, Owns, IsCurrent
<1>4. ASSUME NEW c \in calls, Callback(c) PROVE StaleIsReread'
  BY <1>4, ReplyReads
<1>5. CASE LapseAfterLoss \/ LapseBeforeReply
  <2>1. /\ lane' = [lane EXCEPT !.flight = Lapsed(@)]
        /\ UNCHANGED <<screen, dataGen, calls, due>> /\ used'.losses = used.losses
    BY <1>t, <1>5 DEF LapseAfterLoss, LapseBeforeReply, ClaimLapses, Spend, shownVars
  <2>2. lane'.flight.ticket = lane.flight.ticket /\ lane'.again = lane.again
    <3>1. Lapsed(lane.flight).ticket = lane.flight.ticket
      BY <1>t DEF Lapsed, Claims
    <3> QED BY <1>t, <2>1, <3>1 DEF Lane
  <2> QED BY <2>1, <2>2 DEF StaleIsReread, Owns, IsCurrent
<1>6. CASE LapseTimer
  <2>1. CASE Busy(lane.flight)
    <3>1. /\ lane' = [lane EXCEPT !.timer = "early"]
          /\ UNCHANGED <<screen, dataGen, calls, due, used>>
      BY <1>6, <2>1 DEF LapseTimer
    <3>2. lane'.flight = lane.flight /\ lane'.again = lane.again
      BY <1>t, <3>1 DEF Lane
    <3> QED BY <3>1, <3>2 DEF StaleIsReread, Owns, IsCurrent
  <2>2. CASE ~Busy(lane.flight)
    <3>1. PICK l : l = [lane EXCEPT !.timer = "none"]
      OBVIOUS
    <3>2. l \in Lane /\ l.again = lane.again /\ l.flight = lane.flight
      BY <1>t, <3>1 DEF Lane, LapseTimers
    <3>3. HandOn(screen, sweep, dataGen, l, calls) /\ UNCHANGED <<dataGen, due, used>>
      BY <1>6, <2>2, <3>1 DEF LapseTimer
    <3>4. used.losses > 0 \/ due \/ Coming(screen, dataGen, l, calls)
      BY <3>2 DEF StaleIsReread, Coming, Owns, IsCurrent
    <3>5. used.losses > 0 \/ due \/ Coming(screen', dataGen, lane', calls')
      BY <1>t, <3>2, <3>3, <3>4, HandOnReads
    <3> QED BY <3>3, <3>5 DEF StaleIsReread, Coming, Owns, IsCurrent
  <2> QED BY <2>1, <2>2
<1>7. CASE \E c \in calls : LoseCallback(c)
  <2>1. used'.losses > 0
    BY <1>t, <1>7 DEF LoseCallback, Spend
  <2> QED BY <2>1 DEF StaleIsReread
<1>8. CASE WorldMoves \/ UNCHANGED vars
  BY <1>8 DEF WorldMoves, vars, shownVars, laneVars, StaleIsReread, Owns, IsCurrent
<1> QED BY <1>1, <1>2, <1>3, <1>4, <1>5, <1>6, <1>7, <1>8 DEF Next

(* With no callback lost, no selection stays unread with nothing on its way  *)
(* to read it, whatever moves, lapses and late replies come between.         *)
THEOREM StaleIsAlwaysReread == Spec => []StaleIsReread
<1>1. Init => StaleIsReread
  BY DEF Init, StaleIsReread
<1> QED BY <1>1, Invariance, StepReads, PTL DEF Spec
=============================================================================

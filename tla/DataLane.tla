------------------------------ MODULE DataLane ------------------------------
(***************************************************************************)
(* The balances-then-history read of the selected account, as the backend  *)
(* half of the view runs it: one guarded asynchronous lane, the selection  *)
(* that may move under it, and the scoped values its two replies publish.  *)
(*                                                                         *)
(* Everything runs on one thread, so a handler is one atomic action.  A    *)
(* call is a member of `calls` from the moment it goes out until its       *)
(* callback fires; the transport may also lose it, and then the callback   *)
(* never fires.  The claim the two calls run under lapses at its deadline, *)
(* here at any moment after it was taken: an over-approximation of every   *)
(* delay (LaneTiming times it).                                            *)
(***************************************************************************)
EXTENDS Claim, Scope, FiniteSets

CONSTANTS MaxWorld,    \* bound on changes of the chains' own state
          MaxMoves,    \* bound on moves of the selection and events that ask for a re-read
          MaxLosses,   \* bound on callbacks that never fire
          MaxLate      \* bound on callbacks that outlive their claim

ASSUME BoundAssumption == {MaxWorld, MaxMoves, MaxLosses, MaxLate} \subseteq Nat

VARIABLES
  screen,           \* the published ScopedState
  sweep,            \* sweepingReceipts, and m_pendingPoll running
  dataGen,          \* m_dataGen
  lane,             \* m_dataLane and its lapse timer
  dataLoading, balancesLoading,
  calls,            \* calls whose callback has not fired
  due,              \* a refresh is running or queued, or a re-read is queued
  world,            \* history variable: version of the chains' state
  floor,            \* history variable: oldest version a figure may now show
  used              \* what has been spent of the bounds

shownVars == <<screen, sweep, dataGen, floor>>
laneVars  == <<lane, dataLoading, balancesLoading, calls>>
vars      == <<shownVars, laneVars, due, world, used>>

Call == [leg : {"balances", "history"}, who : Accounts, gen : Nat, slot : Nat, asked : Nat]

Lane == [flight : Claims(Nat, 1), again : BOOLEAN, timer : LapseTimers]

Owns(slot) == IsCurrent(lane.flight, slot)

Spend(what) == used' = [used EXCEPT ![what] = @ + 1]

(***************************************************************************)
(* The handlers' shared parts.  Each is called with the values the handler *)
(* has already computed: the screen, the sweep, the lane and the calls     *)
(* left outstanding.                                                       *)
(***************************************************************************)
NothingToRead(s, l, out) ==
  /\ screen' = ApplyNoAccount(s)
  /\ sweep' = FALSE
  /\ dataLoading' = FALSE
  /\ balancesLoading' = FALSE
  /\ lane' = l
  /\ calls' = out

(* Mutated form of CoalesceBehindLive: the read behind a live one is dropped. *)
BrokenCoalesce(s, sw, l, out) ==
  /\ lane' = l
  /\ screen' = s
  /\ sweep' = sw
  /\ calls' = out
  /\ UNCHANGED <<dataLoading, balancesLoading>>

CoalesceBehindLive(s, sw, l, out) ==
  /\ lane' = [l EXCEPT !.again = TRUE]
  /\ screen' = s
  /\ sweep' = sw
  /\ calls' = out
  /\ UNCHANGED <<dataLoading, balancesLoading>>

IssueRead(s, sw, gen, l, out) ==
  /\ lane' = [l EXCEPT !.flight = Taken(@, 1), !.timer = "armed"]
  /\ screen' = s
  /\ sweep' = sw
  /\ dataLoading' = TRUE
  /\ balancesLoading' = TRUE
  /\ calls' = out \cup {[leg |-> "balances", who |-> s.account, gen |-> gen,
                         slot |-> l.flight.ticket + 1, asked |-> world]}

LoadBalancesAndHistory(s, sw, gen, l, out) ==
  \/ s.account = NoAccount /\ NothingToRead(s, l, out)
  \/ s.account # NoAccount /\ Busy(l.flight) /\ CoalesceBehindLive(s, sw, l, out)
  \/ s.account # NoAccount /\ ~Busy(l.flight) /\ IssueRead(s, sw, gen, l, out)

HandOn(s, sw, gen, l, out) ==
  \/ /\ l.again
     /\ LoadBalancesAndHistory(s, sw, gen, [l EXCEPT !.again = FALSE], out)
  \/ /\ ~l.again
     /\ dataLoading' = FALSE
     /\ balancesLoading' = FALSE
     /\ screen' = s
     /\ sweep' = sw
     /\ lane' = l
     /\ calls' = out

(* Mutated form of GenAfter: the generation does not move. *)
BrokenGenAfter(who, net) == dataGen

(* publishSelection: the withdrawal and the generation move together. *)
GenAfter(who, net) == IF Moves(screen, who, net) THEN dataGen + 1 ELSE dataGen

FloorAfter(who, net) ==
  IF Moves(screen, who, net) THEN [balances |-> world, history |-> world] ELSE floor

(***************************************************************************)
(* The person, and the refreshes that move the selection.                  *)
(***************************************************************************)
(* An account can be picked once a roster is on screen: with one selected,   *)
(* or before the refresh that published the first roster selects from it.    *)
SelectAccount(who) ==
  /\ used.moves < MaxMoves
  /\ screen.account # NoAccount \/ due
  /\ LET gen == GenAfter(who, screen.chain)
     IN  /\ dataGen' = gen
         /\ LoadBalancesAndHistory(EnterScope(screen, who, screen.chain), sweep, gen, lane, calls)
  /\ floor' = FloorAfter(who, screen.chain)
  /\ Spend("moves")
  /\ UNCHANGED <<due, world>>

(* A moved cursor is followed by refresh(), run now or queued behind the     *)
(* refresh that is running; either way its read of the balances is due.      *)
SelectChain(net) ==
  /\ used.moves < MaxMoves
  /\ net # screen.chain
  /\ screen' = EnterScope(screen, screen.account, net)
  /\ dataGen' = GenAfter(screen.account, net)
  /\ floor' = FloorAfter(screen.account, net)
  /\ due' = TRUE
  /\ Spend("moves")
  /\ UNCHANGED <<sweep, laneVars, world>>

(* Inside a running refresh the registry read may move the chain and the     *)
(* roster read the account, before the refresh reaches its balances read.    *)
RefreshMovesSelection(who, net) ==
  /\ used.moves < MaxMoves
  /\ due
  /\ Moves(screen, who, net)
  /\ who = screen.account \/ net = screen.chain
  /\ screen' = EnterScope(screen, who, net)
  /\ dataGen' = GenAfter(who, net)
  /\ floor' = FloorAfter(who, net)
  /\ Spend("moves")
  /\ UNCHANGED <<sweep, laneVars, due, world>>

(* The balances read at the end of a refresh, or the one a settled receipt   *)
(* or a receipt sweep asks for.                                              *)
Reread ==
  /\ due
  /\ due' = FALSE
  /\ LoadBalancesAndHistory(screen, sweep, dataGen, lane, calls)
  /\ UNCHANGED <<dataGen, floor, world, used>>

(***************************************************************************)
(* The two callbacks.  The version a reply carries was read somewhere      *)
(* between the call going out and its callback firing.                     *)
(***************************************************************************)
Answers(c) == c.asked .. world

DropCallback(c) ==
  /\ ~Owns(c.slot)
  /\ calls' = calls \ {c}
  /\ UNCHANGED <<lane, dataLoading, balancesLoading, screen, sweep, floor>>

Publishes(c, reply) == c.gen = dataGen /\ AnswersFor(reply, screen) /\ reply.ok

BalancesCallback(c, reply) ==
  /\ Owns(c.slot)
  /\ balancesLoading' = FALSE
  /\ screen' = IF c.gen = dataGen THEN ApplyBalances(screen, reply) ELSE screen
  /\ floor' = IF Publishes(c, reply) THEN [floor EXCEPT !.balances = reply.figure.read]
                                     ELSE floor
  /\ calls' = (calls \ {c}) \cup {[c EXCEPT !.leg = "history", !.asked = world]}
  /\ UNCHANGED <<lane, dataLoading, sweep>>

HistoryCallback(c, reply) ==
  /\ Owns(c.slot)
  /\ LET s  == IF c.gen = dataGen THEN ApplyHistory(screen, reply) ELSE screen
         sw == IF c.gen = dataGen THEN SweepAfter(sweep, screen, reply) ELSE sweep
     IN  HandOn(s, sw, dataGen, [lane EXCEPT !.flight = Released(@, c.slot)], calls \ {c})
  /\ floor' = IF Publishes(c, reply) THEN [floor EXCEPT !.history = reply.figure.read]
                                     ELSE floor

BalancesReplies(c) ==
  {Refusal} \cup {BalancesReply(c.who, screen.chain, v) : v \in Answers(c)}

HistoryReplies(c) ==
  {Refusal} \cup {HistoryReply(c.who, screen.chain, v, d) : v \in Answers(c), d \in BOOLEAN}

Callback(c) ==
  /\ \/ DropCallback(c)
     \/ c.leg = "balances" /\ \E reply \in BalancesReplies(c) : BalancesCallback(c, reply)
     \/ c.leg = "history" /\ \E reply \in HistoryReplies(c) : HistoryCallback(c, reply)
  /\ UNCHANGED <<dataGen, due, world, used>>

(***************************************************************************)
(* The deadline, its timer, and the environment.                           *)
(***************************************************************************)
ClaimLapses ==
  /\ Busy(lane.flight)
  /\ lane' = [lane EXCEPT !.flight = Lapsed(@)]
  /\ UNCHANGED <<shownVars, dataLoading, balancesLoading, calls, due, world>>

LapseAfterLoss ==
  /\ \A c \in calls : ~Owns(c.slot)
  /\ ClaimLapses
  /\ UNCHANGED used

LapseBeforeReply ==
  /\ \E c \in calls : Owns(c.slot)
  /\ used.late < MaxLate
  /\ ClaimLapses
  /\ Spend("late")

(* Mutated form of LapseTimer: it only runs what is queued. *)
BrokenTimerKeepsSpinner ==
  /\ lane.timer = "armed"
  /\ ~Busy(lane.flight)
  /\ lane.again
  /\ HandOn(screen, sweep, dataGen, [lane EXCEPT !.timer = "none"], calls)
  /\ UNCHANGED <<dataGen, floor, due, world, used>>

(* Mutated form of LapseTimer: it lowers the spinner and runs nothing. *)
BrokenTimerKeepsRerun ==
  /\ lane.timer = "armed"
  /\ ~Busy(lane.flight)
  /\ lane' = [lane EXCEPT !.timer = "none"]
  /\ dataLoading' = FALSE
  /\ balancesLoading' = FALSE
  /\ UNCHANGED <<shownVars, calls, due, world, used>>

LapseTimer ==
  /\ lane.timer = "armed"
  /\ \/ /\ Busy(lane.flight)
        /\ lane' = [lane EXCEPT !.timer = "early"]
        /\ UNCHANGED <<screen, sweep, dataLoading, balancesLoading, calls>>
     \/ /\ ~Busy(lane.flight)
        /\ HandOn(screen, sweep, dataGen, [lane EXCEPT !.timer = "none"], calls)
  /\ UNCHANGED <<dataGen, floor, due, world, used>>

LoseCallback(c) ==
  /\ used.losses < MaxLosses
  /\ calls' = calls \ {c}
  /\ Spend("losses")
  /\ UNCHANGED <<shownVars, lane, dataLoading, balancesLoading, due, world>>

WorldMoves ==
  /\ world < MaxWorld
  /\ world' = world + 1
  /\ UNCHANGED <<shownVars, laneVars, due, used>>

(* balances_updated, tx_status_changed, a settled sweep, accounts_changed... *)
Notice ==
  /\ used.moves < MaxMoves
  /\ ~due
  /\ due' = TRUE
  /\ Spend("moves")
  /\ UNCHANGED <<shownVars, laneVars, world>>

-----------------------------------------------------------------------------
Init ==
  /\ screen = Blank(NoAccount, NoChain)
  /\ sweep = FALSE
  /\ dataGen = 0
  /\ lane = [flight |-> FreeClaim, again |-> FALSE, timer |-> "none"]
  /\ dataLoading = FALSE
  /\ balancesLoading = FALSE
  /\ calls = {}
  /\ due = TRUE
  /\ world = 0
  /\ floor = [balances |-> 0, history |-> 0]
  /\ used = [moves |-> 0, losses |-> 0, late |-> 0]

Next ==
  \/ \E who \in Accounts : SelectAccount(who)
  \/ \E net \in Chains : SelectChain(net)
  \/ \E who \in Whos, net \in Nets : RefreshMovesSelection(who, net)
  \/ Reread
  \/ \E c \in calls : Callback(c)
  \/ LapseAfterLoss
  \/ LapseBeforeReply
  \/ LapseTimer
  \/ \E c \in calls : LoseCallback(c)
  \/ WorldMoves
  \/ Notice

Spec == Init /\ [][Next]_vars

(* The transport answers or times out every call it has not lost, a          *)
(* deadline passes, Qt fires its timers and drains its queue.  Nothing       *)
(* obliges the person, the chains or an event source to do anything.         *)
Fairness ==
  /\ WF_vars(Reread)
  /\ WF_vars(\E c \in calls : Callback(c))
  /\ WF_vars(LapseAfterLoss)
  /\ WF_vars(LapseTimer)

FairSpec == Spec /\ Fairness

-----------------------------------------------------------------------------
(***************************************************************************)
(* Properties.                                                             *)
(***************************************************************************)
TypeOK ==
  /\ screen \in ScopedStates
  /\ sweep \in BOOLEAN
  /\ dataGen \in Nat
  /\ lane \in Lane
  /\ dataLoading \in BOOLEAN
  /\ balancesLoading \in BOOLEAN
  /\ calls \subseteq Call
  /\ due \in BOOLEAN
  /\ world \in Nat
  /\ floor \in [balances : Nat, history : Nat]
  /\ used \in [moves : Nat, losses : Nat, late : Nat]

(* No figure is ever on screen under another selection's name, and "no rows" *)
(* is never shown for an account nothing has read: the withdrawal in         *)
(* publishSelection() and the generation and scope checks of both callbacks. *)
ScreenIsSelections ==
  /\ screen.balances # Unknown =>
       screen.balances.who = screen.account /\ screen.balances.chain = screen.chain
  /\ screen.history \notin {Unknown, NoRows} =>
       screen.history.who = screen.account /\ screen.history.chain = screen.chain
  /\ screen.history = NoRows => screen.account = NoAccount

(* A figure that appears was read after the selection was last made and is   *)
(* no older than what that selection has shown: a reply the lane no longer   *)
(* owns, or one from an earlier visit to the same account, brings nothing    *)
(* back (owns() and the m_dataGen check of the two callbacks).               *)
Newer(figure, oldest, shown) == figure \in {Unknown, NoRows, shown} \/ figure.read >= oldest

NoOlderRows ==
  [][/\ Newer(screen'.balances, floor.balances, screen.balances)
     /\ Newer(screen'.history, floor.history, screen.history)]_vars

(* Only an answer stops the receipt sweep: a successful read of the          *)
(* selection on screen saying that nothing is due, or there being no         *)
(* account.  A refused read, or one for another selection, never does.       *)
SweepStopsOnAnswer ==
  [][sweep /\ ~sweep' =>
       \/ screen'.account = NoAccount
       \/ screen'.history \notin {Unknown, NoRows} /\ ~screen'.history.stillDue]_vars

OwnCallOut == \E c \in calls : Owns(c.slot)

(* The lapse timer fired early and the call that could have made up for it   *)
(* is lost: nothing in the code is left to hand the lane on.                 *)
Stranded == lane.timer = "early" /\ lane.flight.held /\ ~OwnCallOut

(* A lane that is held, shows a spinner or owes a re-run has its lapse timer *)
(* to come, or had it spent early on a claim that is still held (beginLane,  *)
(* handOnLane).                                                              *)
LapseIsArmed ==
  Busy(lane.flight) \/ dataLoading \/ balancesLoading \/ lane.again =>
    lane.timer = "armed" \/ (lane.timer = "early" /\ lane.flight.held)

(* A claim that is held has its own call out, and no step but the loss of    *)
(* that call ends it: a reply passes the claim on or gives it up.            *)
Attended == lane.flight.held => OwnCallOut

LossAloneNeglects ==
  [][Attended => Attended' \/ \E c \in calls : Owns(c.slot) /\ LoseCallback(c)]_vars

(* A selection that is not fresh is being read, or will be: a refresh is due,*)
(* a re-run is owed, or a call made under this very selection is out whose   *)
(* reply the lane still takes.  No move, lapse or late reply loses the read  *)
(* (loadBalancesAndHistory, handOnLane, owns()).                             *)
StaleIsReread ==
  screen.fresh \/ used.losses > 0 \/ due \/ lane.again
    \/ \E c \in calls : Owns(c.slot) /\ c.leg = "balances" /\ c.gen = dataGen

(* The spinner comes down after a lost callback or an early timer, and stays *)
(* up only after both on one claim, until something asks for a read again:   *)
(* what backend.cpp:156 relies on the timer for, it has in every other case. *)
SpinnerComesDown == dataLoading ~> ~dataLoading \/ (Stranded /\ ~due)

(* A re-read queued behind a live call goes out, that call answered or lost, *)
(* with the same one exception.                                              *)
QueuedReadGoesOut == lane.again ~> ~lane.again \/ (Stranded /\ ~due)

(* With no callback lost, whatever is selected becomes fresh. *)
EventuallyFresh == []<>(screen.fresh \/ used.losses > 0)

(* The lane implements the abstract screen. *)
Promise == INSTANCE Screen WITH
  account <- screen.account, chain <- screen.chain, fresh <- screen.fresh,
  balances <- screen.balances, history <- screen.history

PromiseSpec == Promise!Spec
=============================================================================

------------------------------ MODULE QuoteLane ------------------------------
(***************************************************************************)
(* The quote of the Send form: a second lane beside the data lane, on      *)
(* which the person's edits and the re-pricing timer share one call and    *)
(* one queued re-run.  Edits come from the view, whose idea of the         *)
(* selection lags behind the backend's; the reply is checked against two   *)
(* generations and against the selection it names.                         *)
(*                                                                         *)
(* A request is the form and the selection the view saw when it worded it. *)
(* A published quote is the request it priced (quoteJson and               *)
(* quoteRequestJson only ever move together).                              *)
(***************************************************************************)
EXTENDS Claim, Sequences

CONSTANTS Selections,  \* accounts and chains that can be selected
          Forms,       \* what the form can hold
          Incomplete,  \* the forms that describe no send
          None,        \* "": no request, no quote, no refusal
          MaxMoves,    \* bound on moves of the selection
          MaxEdits,    \* bound on edits, visits and departures
          MaxTurns,    \* bound on verdict changes and sends of another app
          MaxFaults    \* bound on callbacks that never fire or outlive their claim

Requests == [at : Selections, form : Forms]

ASSUME QuoteAssumption ==
  /\ None \notin Requests
  /\ Incomplete \subseteq Forms
  /\ {MaxMoves, MaxEdits, MaxTurns, MaxFaults} \subseteq Nat

VARIABLES
  at,          \* the selection of the backend
  seen,        \* the selection of the view
  toView,      \* selections on their way to the view, in the order made
  form, open,  \* the view's form, and whether the Send page is visible
  request,     \* m_quoteRequest
  price,       \* quoteRequestJson, quoteStale and sendError: what has been published
  dataGen, quoteGen,
  lane,        \* m_quoteLane, its lapse timer, and m_quoteAgainInteractive
  loading,     \* quoteLoading
  ticking,     \* m_quotePoll runs
  calls,       \* prepare_send calls whose callback has not fired
  pending,     \* a send awaits a human
  edit,        \* history variable: what has come of the last edit
  used

viewVars == <<seen, form, open>>
laneVars == <<lane, loading, calls>>
vars == <<at, toView, viewVars, request, price, dataGen, quoteGen, laneVars, ticking, pending, edit, used>>

Call == [req : Requests, dataGen : Nat, quoteGen : Nat, slot : Nat, interactive : BOOLEAN]

Price == [quote : Requests \cup {None}, stale : BOOLEAN, error : Requests \cup {None}]

Lane == [flight : Claims(Nat, 1), again : BOOLEAN, interactive : BOOLEAN, timer : LapseTimers]

Spend(what, max) == used[what] < max /\ used' = [used EXCEPT ![what] = @ + 1]

Owns(c) == IsCurrent(lane.flight, c.slot)

DescribesASend(r) == r # None /\ r.form \notin Incomplete

Withdrawn(p) == [p EXCEPT !.quote = None, !.stale = FALSE]

EnterQuoteRequest(p, r) == IF p.quote = r THEN p ELSE Withdrawn(p)

(* Mutated form of Queued: the last to queue decides whose the re-run is. *)
BrokenQueued(l, interactive) == [l EXCEPT !.again = TRUE, !.interactive = interactive]

Queued(l, interactive) == [l EXCEPT !.again = TRUE, !.interactive = @ \/ interactive]

(***************************************************************************)
(* runQuote, given what has been published and the lane and calls as the   *)
(* handler left them.                                                      *)
(***************************************************************************)
(* Mutated form of GenAfter: a request that returns to an earlier one is taken for it. *)
BrokenGenAfter(r) == quoteGen

GenAfter(r) == IF r # request THEN quoteGen + 1 ELSE quoteGen

Issue(r, interactive, l, out) ==
  LET taken == TakenAgain(1, {c.slot : c \in out})
  IN  /\ lane' = [l EXCEPT !.flight = taken, !.timer = "armed"]
      /\ loading' = TRUE
      /\ calls' = out \cup {[req |-> r, dataGen |-> dataGen, quoteGen |-> GenAfter(r),
                             slot |-> taken.ticket, interactive |-> interactive]}

RunQuote(r, interactive, p, l, out) ==
  /\ request' = r
  /\ quoteGen' = GenAfter(r)
  /\ price' = LET entered == EnterQuoteRequest(p, r)
              IN  IF interactive THEN [entered EXCEPT !.error = None] ELSE entered
  /\ \/ /\ ~DescribesASend(r)
        /\ loading' = FALSE
        /\ lane' = l /\ calls' = out
     \/ /\ DescribesASend(r) /\ Busy(l.flight)
        /\ lane' = Queued(l, interactive)
        /\ calls' = out
        /\ UNCHANGED loading
     \/ /\ DescribesASend(r) /\ ~Busy(l.flight)
        /\ Issue(r, interactive, l, out)

HandOn(p, l, out) ==
  \/ /\ l.again
     /\ RunQuote(request, l.interactive, p, [l EXCEPT !.again = FALSE, !.interactive = FALSE], out)
  \/ /\ ~l.again
     /\ loading' = FALSE
     /\ price' = p /\ lane' = l /\ calls' = out
     /\ UNCHANGED <<request, quoteGen>>

(***************************************************************************)
(* The view: the form is re-priced whenever what it describes changes      *)
(* while the page is visible, and the timer runs while it is.              *)
(***************************************************************************)
Edited(r) == IF DescribesASend(r) THEN "out" ELSE "none"

Reprice(where, what) ==
  LET r == [at |-> where, form |-> what]
  IN  /\ RunQuote(r, TRUE, price, lane, calls)
      /\ edit' = Edited(r)

EditForm(f) ==
  /\ open
  /\ f # form
  /\ Spend("edits", MaxEdits)
  /\ form' = f
  /\ Reprice(seen, f)
  /\ UNCHANGED <<at, toView, seen, open, dataGen, ticking, pending>>

ViewCatchesUp ==
  /\ toView # <<>>
  /\ seen' = Head(toView)
  /\ toView' = Tail(toView)
  /\ \/ open /\ Reprice(Head(toView), form)
     \/ ~open /\ UNCHANGED <<request, price, quoteGen, laneVars, edit>>
  /\ UNCHANGED <<at, form, open, dataGen, ticking, pending, used>>

(* quote, then setQuoteAutoRefresh(true). *)
OpenPage ==
  /\ ~open
  /\ Spend("edits", MaxEdits)
  /\ open' = TRUE
  /\ ticking' = TRUE
  /\ Reprice(seen, form)
  /\ UNCHANGED <<at, toView, seen, form, dataGen, pending>>

(* setQuoteAutoRefresh(false). *)
ClosePage ==
  /\ open
  /\ Spend("edits", MaxEdits)
  /\ open' = FALSE
  /\ ticking' = FALSE
  /\ quoteGen' = quoteGen + 1
  /\ request' = None
  /\ price' = Withdrawn(price)
  /\ edit' = "none"
  /\ UNCHANGED <<at, toView, seen, form, dataGen, laneVars, pending>>

(***************************************************************************)
(* The timer, the reply, and the lane.                                     *)
(***************************************************************************)
(* Mutated form of Tick: only a figure on screen is re-priced. *)
BrokenTick ==
  /\ ticking
  /\ price.quote # None
  /\ ~pending
  /\ RunQuote(request, FALSE, price, lane, calls)
  /\ UNCHANGED <<at, toView, viewVars, dataGen, ticking, pending, edit, used>>

Tick ==
  /\ ticking
  /\ request # None
  /\ ~pending
  /\ RunQuote(request, FALSE, price, lane, calls)
  /\ UNCHANGED <<at, toView, viewVars, dataGen, ticking, pending, edit, used>>

(* The reply prices the request it was asked for, or refuses it. *)
ApplyQuote(c, priced) ==
  CASE priced /\ c.req.at = at          -> [price EXCEPT !.quote = c.req, !.stale = FALSE]
    [] priced /\ c.req.at # at          -> Withdrawn(price)
    [] ~priced /\ c.interactive         -> [Withdrawn(price) EXCEPT !.error = c.req]
    [] ~priced /\ ~c.interactive        -> [price EXCEPT !.stale = TRUE]

Applies(c) == c.dataGen = dataGen /\ c.quoteGen = quoteGen

Callback(c, priced) ==
  /\ \/ /\ ~Owns(c)
        /\ calls' = calls \ {c}
        /\ UNCHANGED <<request, price, quoteGen, lane, loading, edit>>
     \/ /\ Owns(c)
        /\ HandOn(IF Applies(c) THEN ApplyQuote(c, priced) ELSE price,
                  [lane EXCEPT !.flight = Released(@, c.slot)], calls \ {c})
        /\ edit' = IF Applies(c) /\ (priced \/ c.interactive) /\ edit = "out" THEN "answered" ELSE edit
  /\ UNCHANGED <<at, toView, viewVars, dataGen, ticking, pending, used>>

Lapse ==
  /\ Busy(lane.flight)
  /\ lane' = [lane EXCEPT !.flight = Lapsed(@)]
  /\ UNCHANGED <<at, toView, viewVars, request, price, dataGen, quoteGen, loading, calls, ticking, pending, edit>>

LapseAfterLoss == Lapse /\ (\A c \in calls : ~Owns(c)) /\ UNCHANGED used

LapseBeforeReply == Lapse /\ (\E c \in calls : Owns(c)) /\ Spend("faults", MaxFaults)

LapseTimer ==
  /\ lane.timer = "armed"
  /\ \/ /\ Busy(lane.flight)
        /\ lane' = [lane EXCEPT !.timer = "early"]
        /\ UNCHANGED <<request, price, quoteGen, loading, calls>>
     \/ /\ ~Busy(lane.flight)
        /\ HandOn(price, [lane EXCEPT !.timer = "none"], calls)
  /\ UNCHANGED <<at, toView, viewVars, dataGen, ticking, pending, edit, used>>

LoseCallback(c) ==
  /\ Spend("faults", MaxFaults)
  /\ calls' = calls \ {c}
  /\ UNCHANGED <<at, toView, viewVars, request, price, dataGen, quoteGen, lane, loading, ticking, pending, edit>>

(***************************************************************************)
(* What else takes a quote down, or holds the timer up.                    *)
(***************************************************************************)
(* publishSelection: m_quoteRequest stays. *)
MoveSelection(to) ==
  /\ to # at
  /\ Spend("moves", MaxMoves)
  /\ at' = to
  /\ toView' = Append(toView, to)
  /\ dataGen' = dataGen + 1 /\ quoteGen' = quoteGen + 1
  /\ price' = [Withdrawn(price) EXCEPT !.error = None]
  /\ edit' = "none"
  /\ UNCHANGED <<viewVars, request, laneVars, ticking, pending>>

(* applyVerdict, when mode or state change. *)
VerdictChanges ==
  /\ Spend("turns", MaxTurns)
  /\ price' = Withdrawn(price)
  /\ UNCHANGED <<at, toView, viewVars, request, dataGen, quoteGen, laneVars, ticking, pending, edit>>

SendPends ==
  /\ ~pending
  /\ Spend("turns", MaxTurns)
  /\ pending' = TRUE
  /\ UNCHANGED <<at, toView, viewVars, request, price, dataGen, quoteGen, laneVars, ticking, edit>>

SendSettles ==
  /\ pending
  /\ pending' = FALSE
  /\ UNCHANGED <<at, toView, viewVars, request, price, dataGen, quoteGen, laneVars, ticking, edit, used>>

-----------------------------------------------------------------------------
Init ==
  /\ at \in Selections /\ seen = at /\ toView = <<>>
  /\ form \in Incomplete /\ open = FALSE
  /\ request = None
  /\ price = [quote |-> None, stale |-> FALSE, error |-> None]
  /\ dataGen = 0 /\ quoteGen = 0
  /\ lane = [flight |-> FreeClaim, again |-> FALSE, interactive |-> FALSE, timer |-> "none"]
  /\ loading = FALSE /\ calls = {}
  /\ ticking = FALSE /\ pending = FALSE
  /\ edit = "none"
  /\ used = [moves |-> 0, edits |-> 0, turns |-> 0, faults |-> 0]

Next ==
  \/ \E f \in Forms : EditForm(f)
  \/ ViewCatchesUp
  \/ OpenPage
  \/ ClosePage
  \/ Tick
  \/ \E c \in calls, priced \in BOOLEAN : Callback(c, priced)
  \/ LapseAfterLoss
  \/ LapseBeforeReply
  \/ LapseTimer
  \/ \E c \in calls : LoseCallback(c)
  \/ \E to \in Selections : MoveSelection(to)
  \/ VerdictChanges
  \/ SendPends
  \/ SendSettles

Spec == Init /\ [][Next]_vars

(* The transport answers or times out what it has not lost, deadlines pass,  *)
(* timers fire, property changes reach the view, and the sender settles or   *)
(* expires a send; of the replies the lane waits for, not every one is a     *)
(* refusal.  The person owes nothing.                                        *)
Fairness ==
  /\ WF_vars(ViewCatchesUp)
  /\ WF_vars(Tick)
  /\ WF_vars(\E c \in calls, priced \in BOOLEAN : Callback(c, priced))
  /\ SF_vars(\E c \in calls : Owns(c) /\ Callback(c, TRUE))
  /\ WF_vars(LapseAfterLoss)
  /\ WF_vars(LapseTimer)
  /\ WF_vars(SendSettles)

FairSpec == Spec /\ Fairness

-----------------------------------------------------------------------------
TypeOK ==
  /\ {at, seen} \subseteq Selections /\ toView \in Seq(Selections)
  /\ form \in Forms
  /\ {open, loading, ticking, pending} \subseteq BOOLEAN
  /\ request \in Requests \cup {None}
  /\ price \in Price
  /\ {dataGen, quoteGen} \subseteq Nat
  /\ lane \in Lane
  /\ calls \subseteq Call
  /\ edit \in {"none", "out", "answered"}
  /\ used \in [moves : Nat, edits : Nat, turns : Nat, faults : Nat]

(* The figures on screen priced the request the form was last sent with, for *)
(* the selection on screen, and so does the wording of a refusal until the   *)
(* form is closed: a reply for the form as it was, or for the account as it  *)
(* was, changes neither (the two generations of the callback, answersFor,    *)
(* and the withdrawals of enterQuoteRequest and enterScope).                 *)
QuoteIsForms ==
  /\ price.quote # None => price.quote = request /\ price.quote.at = at
  /\ price.error # None => price.error = request \/ request = None

(* A figure is on screen only on an open page whose view knows the account   *)
(* and chain selected, and it priced what that page's form holds for them:   *)
(* the view and the backend agree wherever a price shows, however the moves, *)
(* the edits and the replies cross.  And with no move still to be heard of,  *)
(* what is asked for is the form and the selection as they are.              *)
QuoteIsOnTheForm ==
  /\ price.quote # None => open /\ seen = at /\ price.quote = [at |-> at, form |-> form]
  /\ open /\ toView = <<>> => request = [at |-> at, form |-> form]

(* A lane that is held, shows its spinner or owes a re-run has its lapse     *)
(* timer to come, or had it spent early on a claim that is still held; and   *)
(* the timer that re-prices runs exactly while the page is open, to take     *)
(* such a lane again (beginLane, handOnLane, setQuoteAutoRefresh).           *)
LapseIsArmed ==
  /\ Busy(lane.flight) \/ loading \/ lane.again =>
       lane.timer = "armed" \/ (lane.timer = "early" /\ lane.flight.held)
  /\ ticking <=> open

(* A claim that is held has its own call out, and no step but the loss of    *)
(* that call ends it: a reply passes the claim on or gives it up.            *)
Attended == lane.flight.held => \E c \in calls : Owns(c)

LossAloneNeglects ==
  [][Attended => Attended' \/ \E c \in calls : Owns(c) /\ LoseCallback(c)]_vars

(* An edit that has had no answer has a call of its own out, or a re-run     *)
(* queued as its own: no tick of the timer stands in for it, since a tick's  *)
(* refusal is not put into words (m_quoteAgainInteractive).                  *)
EditIsHeard ==
  edit = "out" /\ used.faults = 0 =>
    \/ \E c \in calls : Owns(c) /\ Applies(c) /\ c.interactive
    \/ lane.again /\ lane.interactive

(* A form that describes a send is priced while it stays open, whatever is   *)
(* lost and whatever takes a figure down: the edit's own call may never      *)
(* answer and a withdrawn figure has nobody to ask for it again but the      *)
(* timer, which re-prices what was last asked for.                           *)
FormIsPriced ==
  open /\ DescribesASend(request) ~> ~open \/ ~DescribesASend(request) \/ price.quote = request
=============================================================================

-------------------------- MODULE QuoteLane_proofs --------------------------
(***************************************************************************)
(* Why the figures on screen are those of the form, for any selections and *)
(* forms and any number of edits, moves, verdicts, sends and faults: the   *)
(* generation of the quote moves whenever the request does, so a call of   *)
(* the current one asked what the form was last sent with.  And why an     *)
(* edit is always heard while no callback is lost or late.                 *)
(***************************************************************************)
EXTENDS QuoteLane, FiniteSetTheorems, TLAPS

CallsFit ==
  \A c \in calls : c.quoteGen <= quoteGen /\ (c.quoteGen = quoteGen => c.req = request)

(* What may be published, or handed on to be. *)
PriceFits(p) ==
  /\ p \in Price
  /\ p.quote # None => p.quote = request /\ p.quote.at = at
  /\ p.error # None => p.error = request \/ request = None

IInv == TypeOK /\ IsFiniteSet(calls) /\ CallsFit /\ QuoteIsForms

USE QuoteAssumption

(* Among more tickets than are held there is one that is not. *)
LEMMA TicketIsUnheld ==
  ASSUME NEW slots, IsFiniteSet(slots)
  PROVE  UnheldTicket(slots) \in Nat /\ UnheldTicket(slots) \notin slots
<1> DEFINE n == Cardinality(slots)
<1>1. n \in Nat
  BY FS_CardinalityType
<1>2. IsFiniteSet(0 .. n) /\ Cardinality(0 .. n) = n + 1
  <2> HIDE DEF n
  <2>1. 0 \in Int /\ n \in Int /\ ~(0 > n) /\ n - 0 + 1 = n + 1
    BY <1>1
  <2> QED BY <2>1, FS_Interval
<1>3. ~(0 .. n \subseteq slots)
  <2>1. SUFFICES ASSUME 0 .. n \subseteq slots PROVE FALSE
    OBVIOUS
  <2>2. Cardinality(0 .. n) <= n
    BY <2>1, FS_Subset
  <2> HIDE DEF n
  <2> QED BY <1>1, <1>2, <2>2
<1>4. PICK t \in 0 .. n : t \notin slots
  BY <1>3
<1>5. UnheldTicket(slots) \in 0 .. n /\ UnheldTicket(slots) \notin slots
  BY <1>4 DEF UnheldTicket
<1> HIDE DEF n
<1> QED BY <1>1, <1>5

LEMMA SlotsAreFinite ==
  ASSUME NEW out, IsFiniteSet(out)
  PROVE  IsFiniteSet({c.slot : c \in out})
<1> DEFINE f == [c \in out |-> c.slot]
<1>1. f \in Surjection(out, {c.slot : c \in out})
  BY DEF Surjection
<1> QED BY <1>1, FS_Surjection

(* What is published already may be, and so may it with its figures taken down. *)
LEMMA WithdrawnFits ==
  ASSUME NEW p, PriceFits(p)
  PROVE  /\ Withdrawn(p) \in Price /\ Withdrawn(p).quote = None
         /\ Withdrawn(p).error = p.error /\ PriceFits(Withdrawn(p))
<1>1. /\ Withdrawn(p) \in Price /\ Withdrawn(p).quote = None
      /\ Withdrawn(p).error = p.error
  BY DEF PriceFits, Price, Withdrawn
<1> QED BY <1>1 DEF PriceFits

LEMMA EnteredFits ==
  ASSUME NEW p, PriceFits(p), NEW r \in Requests \cup {None}
  PROVE  LET e == EnterQuoteRequest(p, r)
         IN  /\ e \in Price /\ e.error = p.error
             /\ e.quote # None => e.quote = r /\ e.quote.at = at
<1>1. CASE p.quote = r
  BY <1>1 DEF EnterQuoteRequest, PriceFits
<1>2. CASE p.quote # r
  BY <1>2, WithdrawnFits DEF EnterQuoteRequest
<1> QED BY <1>1, <1>2

(* runQuote, with what its caller has made of the price, the lane and the calls. *)
LEMMA RunQuoteFits ==
  ASSUME IInv, NEW r \in Requests \cup {None}, NEW interactive \in BOOLEAN,
         NEW p, PriceFits(p), NEW l \in Lane, NEW out \in SUBSET calls,
         interactive \/ r = request,
         at' = at, RunQuote(r, interactive, p, l, out)
  PROVE  /\ request' \in Requests \cup {None} /\ price' \in Price
         /\ quoteGen' \in Nat /\ lane' \in Lane /\ loading' \in BOOLEAN
         /\ calls' \subseteq Call
         /\ IsFiniteSet(calls') /\ CallsFit' /\ QuoteIsForms'
<1> DEFINE e == EnterQuoteRequest(p, r)
           taken == TakenAgain(1, {c.slot : c \in out})
           call == [req |-> r, dataGen |-> dataGen, quoteGen |-> GenAfter(r),
                    slot |-> taken.ticket, interactive |-> interactive]
<1>1. /\ request' = r /\ quoteGen' = GenAfter(r)
      /\ price' = IF interactive THEN [e EXCEPT !.error = None] ELSE e
  BY DEF RunQuote
<1>2. /\ e \in Price /\ e.error = p.error
      /\ e.quote # None => e.quote = r /\ e.quote.at = at
  BY EnteredFits
<1>3. /\ price' \in Price
      /\ price'.quote = e.quote
      /\ price'.error = IF interactive THEN None ELSE e.error
  <2> HIDE DEF e
  <2>1. [e EXCEPT !.error = None] \in Price
    BY <1>2 DEF Price
  <2>2. [e EXCEPT !.error = None].quote = e.quote /\ [e EXCEPT !.error = None].error = None
    BY <1>2 DEF Price
  <2> QED BY <1>1, <1>2, <2>1, <2>2
<1>4. QuoteIsForms'
  <2> HIDE DEF e
  <2> QED BY <1>1, <1>2, <1>3 DEF QuoteIsForms, PriceFits
<1>5. /\ quoteGen \in Nat /\ quoteGen' \in Nat
      /\ (r = request /\ quoteGen' = quoteGen) \/ quoteGen' = quoteGen + 1
  BY <1>1 DEF IInv, TypeOK, GenAfter
<1>6. /\ IsFiniteSet(out) /\ out \subseteq Call
      /\ \A c \in out : /\ c.quoteGen <= quoteGen' /\ c.quoteGen \in Nat
                        /\ c.quoteGen = quoteGen' => c.req = request'
  <2>1. IsFiniteSet(out) /\ out \subseteq Call
    BY FS_Subset DEF IInv, TypeOK
  <2>2. \A c \in out : /\ c.quoteGen \in Nat /\ c.quoteGen <= quoteGen
                       /\ c.quoteGen = quoteGen => c.req = request
    BY <2>1 DEF IInv, CallsFit, Call
  <2> HIDE DEF e
  <2>3. \A c \in out : /\ c.quoteGen <= quoteGen'
                       /\ c.quoteGen = quoteGen' => c.req = r
    BY <1>5, <2>2
  <2> QED BY <1>1, <2>1, <2>2, <2>3
<1>7. CASE calls' = out /\ lane' \in {l, Queued(l, interactive)} /\ loading' \in {FALSE, loading}
  <2>1. Queued(l, interactive) \in Lane
    BY DEF Queued, Lane
  <2> QED BY <1>1, <1>3, <1>4, <1>5, <1>6, <1>7, <2>1 DEF IInv, TypeOK, CallsFit, Call
<1>8. CASE r # None /\ Issue(r, interactive, l, out)
  <2>1. /\ lane' = [l EXCEPT !.flight = taken, !.timer = "armed"]
        /\ loading' = TRUE
        /\ calls' = out \cup {call}
    BY <1>8 DEF Issue
  <2>2. taken \in Claims(Nat, 1) /\ taken.ticket \in Nat
    BY <1>6, SlotsAreFinite, TicketIsUnheld DEF TakenAgain, Claims
  <2>3. lane' \in Lane
    <3> HIDE DEF taken
    <3> QED BY <2>1, <2>2 DEF Lane, LapseTimers
  <2>4. /\ call \in Call /\ call.quoteGen = quoteGen' /\ call.req = request'
    BY <1>1, <1>5, <1>8, <2>2 DEF Call, IInv, TypeOK
  <2> HIDE DEF call, taken, e
  <2>5. IsFiniteSet(calls')
    BY <1>6, <2>1, FS_AddElement
  <2>6. CallsFit'
    BY <1>5, <1>6, <2>1, <2>4 DEF CallsFit
  <2> QED BY <1>1, <1>3, <1>4, <1>5, <1>6, <2>1, <2>3, <2>4, <2>5, <2>6 DEF Call
<1> QED BY <1>7, <1>8 DEF RunQuote, DescribesASend

LEMMA HandOnFits ==
  ASSUME IInv, NEW p, PriceFits(p), NEW l \in Lane, NEW out \in SUBSET calls,
         at' = at, HandOn(p, l, out)
  PROVE  /\ request' \in Requests \cup {None} /\ price' \in Price
         /\ quoteGen' \in Nat /\ lane' \in Lane /\ loading' \in BOOLEAN
         /\ calls' \subseteq Call
         /\ IsFiniteSet(calls') /\ CallsFit' /\ QuoteIsForms'
<1>1. request \in Requests \cup {None} /\ l.interactive \in BOOLEAN
  BY DEF IInv, TypeOK, Lane
<1>2. [l EXCEPT !.again = FALSE, !.interactive = FALSE] \in Lane
  BY DEF Lane
<1>3. CASE RunQuote(request, l.interactive, p, [l EXCEPT !.again = FALSE, !.interactive = FALSE], out)
  BY <1>1, <1>2, <1>3, RunQuoteFits
<1>4. CASE /\ loading' = FALSE
           /\ price' = p /\ lane' = l /\ calls' = out
           /\ UNCHANGED <<request, quoteGen>>
  <2>1. IsFiniteSet(calls')
    BY <1>4, FS_Subset DEF IInv
  <2>2. CallsFit' /\ QuoteIsForms'
    BY <1>4 DEF IInv, CallsFit, QuoteIsForms, PriceFits
  <2> QED BY <1>4, <2>1, <2>2 DEF IInv, TypeOK, Call, PriceFits
<1> QED BY <1>3, <1>4 DEF HandOn

LEMMA PublishedFits == IInv => PriceFits(price)
BY DEF IInv, TypeOK, QuoteIsForms, PriceFits

(* What every handler of an edit or of the timer leaves alone, or spends. *)
UsedOK == used' \in [moves : Nat, edits : Nat, turns : Nat, faults : Nat]

LEMMA RepriceFits ==
  ASSUME IInv, NEW where \in Selections, NEW what \in Forms, at' = at, Reprice(where, what)
  PROVE  /\ request' \in Requests \cup {None} /\ price' \in Price
         /\ quoteGen' \in Nat /\ lane' \in Lane /\ loading' \in BOOLEAN
         /\ calls' \subseteq Call /\ edit' \in {"none", "out", "answered"}
         /\ IsFiniteSet(calls') /\ CallsFit' /\ QuoteIsForms'
<1> DEFINE r == [at |-> where, form |-> what]
<1>1. r \in Requests
  BY DEF Requests
<1>2. RunQuote(r, TRUE, price, lane, calls) /\ edit' = Edited(r)
  BY DEF Reprice
<1>3. lane \in Lane /\ PriceFits(price)
  BY PublishedFits DEF IInv, TypeOK
<1> HIDE DEF r
<1>4. edit' \in {"none", "out", "answered"}
  BY <1>2 DEF Edited
<1> QED BY <1>1, <1>2, <1>3, <1>4, RunQuoteFits

LEMMA EditKeeps ==
  ASSUME IInv, NEW f \in Forms, EditForm(f)
  PROVE  IInv'
<1>1. /\ Reprice(seen, f) /\ form' = f
      /\ UNCHANGED <<at, toView, seen, open, dataGen, ticking, pending>>
  BY DEF EditForm
<1>2. UsedOK
  BY DEF EditForm, Spend, UsedOK, IInv, TypeOK
<1>3. seen \in Selections
  BY DEF IInv, TypeOK
<1> QED BY <1>1, <1>2, <1>3, RepriceFits DEF IInv, TypeOK, UsedOK

LEMMA HeadsAndTails ==
  ASSUME NEW S, NEW q \in Seq(S), q # <<>>
  PROVE  Head(q) \in S /\ Tail(q) \in Seq(S)
OBVIOUS

LEMMA ViewKeeps ==
  ASSUME IInv, ViewCatchesUp
  PROVE  IInv'
<1>1. /\ seen' = Head(toView) /\ toView' = Tail(toView)
      /\ UNCHANGED <<at, form, open, dataGen, ticking, pending, used>>
  BY DEF ViewCatchesUp
<1>2. seen' \in Selections /\ toView' \in Seq(Selections)
  <2>1. toView \in Seq(Selections) /\ toView # <<>>
    BY DEF ViewCatchesUp, IInv, TypeOK
  <2> QED BY <1>1, <2>1, HeadsAndTails
<1>3. CASE Reprice(Head(toView), form)
  <2>1. Head(toView) \in Selections /\ form \in Forms
    BY <1>1, <1>2 DEF IInv, TypeOK
  <2> QED BY <1>1, <1>2, <1>3, <2>1, RepriceFits DEF IInv, TypeOK
<1>4. CASE UNCHANGED <<request, price, quoteGen, laneVars, edit>>
  BY <1>1, <1>2, <1>4 DEF IInv, TypeOK, laneVars, CallsFit, QuoteIsForms
<1> QED BY <1>3, <1>4 DEF ViewCatchesUp

LEMMA OpenKeeps ==
  ASSUME IInv, OpenPage
  PROVE  IInv'
<1>1. /\ Reprice(seen, form) /\ open' = TRUE /\ ticking' = TRUE
      /\ UNCHANGED <<at, toView, seen, form, dataGen, pending>>
  BY DEF OpenPage
<1>2. UsedOK
  BY DEF OpenPage, Spend, UsedOK, IInv, TypeOK
<1>3. seen \in Selections /\ form \in Forms
  BY DEF IInv, TypeOK
<1> QED BY <1>1, <1>2, <1>3, RepriceFits DEF IInv, TypeOK, UsedOK

(* A new generation leaves every call that is out behind it. *)
LEMMA LeftBehind ==
  ASSUME IInv, quoteGen' = quoteGen + 1, calls' = calls
  PROVE  CallsFit' /\ quoteGen' \in Nat
<1>1. quoteGen \in Nat /\ \A c \in calls : c.quoteGen \in Nat /\ c.quoteGen <= quoteGen
  BY DEF IInv, TypeOK, CallsFit, Call
<1>2. \A c \in calls : c.quoteGen <= quoteGen + 1 /\ c.quoteGen # quoteGen + 1
  BY <1>1
<1> QED BY <1>1, <1>2 DEF CallsFit

LEMMA CloseKeeps ==
  ASSUME IInv, ClosePage
  PROVE  IInv'
<1>1. /\ open' = FALSE /\ ticking' = FALSE /\ quoteGen' = quoteGen + 1
      /\ request' = None /\ price' = Withdrawn(price) /\ edit' = "none"
      /\ UNCHANGED <<at, toView, seen, form, dataGen, lane, loading, calls, pending>>
  BY DEF ClosePage, laneVars
<1>2. UsedOK
  <2>1. used \in [moves : Nat, edits : Nat, turns : Nat, faults : Nat]
    BY DEF IInv, TypeOK
  <2> QED BY <2>1 DEF ClosePage, Spend, UsedOK
<1>3. CallsFit' /\ quoteGen' \in Nat
  BY <1>1, LeftBehind
<1>4. price' \in Price /\ QuoteIsForms'
  BY <1>1, PublishedFits, WithdrawnFits DEF QuoteIsForms
<1> QED BY <1>1, <1>2, <1>3, <1>4 DEF IInv, TypeOK, UsedOK

LEMMA TickKeeps ==
  ASSUME IInv, Tick
  PROVE  IInv'
<1>1. /\ RunQuote(request, FALSE, price, lane, calls)
      /\ UNCHANGED <<at, toView, viewVars, dataGen, ticking, pending, edit, used>>
  BY DEF Tick
<1>2. request \in Requests \cup {None} /\ lane \in Lane /\ PriceFits(price)
  BY PublishedFits DEF IInv, TypeOK
<1> QED BY <1>1, <1>2, RunQuoteFits DEF IInv, TypeOK, viewVars

(* A reply of the current generation answers for what the form was last sent *)
(* with, and figures go up only for the selection on screen.                 *)
LEMMA ReplyFits ==
  ASSUME IInv, NEW c \in calls, NEW priced \in BOOLEAN, Applies(c)
  PROVE  PriceFits(ApplyQuote(c, priced))
<1>1. c.req \in Requests /\ c.req = request /\ c.interactive \in BOOLEAN /\ PriceFits(price)
  BY PublishedFits DEF IInv, TypeOK, Call, CallsFit, Applies
<1>2. CASE priced /\ c.req.at = at
  <2>1. ApplyQuote(c, priced) = [price EXCEPT !.quote = c.req, !.stale = FALSE]
    BY <1>2 DEF ApplyQuote
  <2> QED BY <1>1, <1>2, <2>1 DEF PriceFits, Price
<1>3. CASE priced /\ c.req.at # at
  <2>1. ApplyQuote(c, priced) = Withdrawn(price)
    BY <1>3 DEF ApplyQuote
  <2> QED BY <1>1, <2>1, WithdrawnFits
<1>4. CASE ~priced /\ c.interactive
  <2>1. ApplyQuote(c, priced) = [Withdrawn(price) EXCEPT !.error = c.req]
    BY <1>4 DEF ApplyQuote
  <2>2. Withdrawn(price) \in Price /\ Withdrawn(price).quote = None
    BY <1>1, WithdrawnFits
  <2> QED BY <1>1, <2>1, <2>2 DEF PriceFits, Price
<1>5. CASE ~priced /\ ~c.interactive
  <2>1. ApplyQuote(c, priced) = [price EXCEPT !.stale = TRUE]
    BY <1>5 DEF ApplyQuote
  <2> QED BY <1>1, <2>1 DEF PriceFits, Price
<1> QED BY <1>1, <1>2, <1>3, <1>4, <1>5

LEMMA CallbackKeeps ==
  ASSUME IInv, NEW c \in calls, NEW priced \in BOOLEAN, Callback(c, priced)
  PROVE  IInv'
<1>1. UNCHANGED <<at, toView, viewVars, dataGen, ticking, pending, used>>
  BY DEF Callback
<1>2. CASE calls' = calls \ {c} /\ UNCHANGED <<request, price, quoteGen, lane, loading, edit>>
  <2>1. IsFiniteSet(calls')
    BY <1>2, FS_RemoveElement DEF IInv
  <2> QED BY <1>1, <1>2, <2>1 DEF IInv, TypeOK, viewVars, CallsFit, QuoteIsForms
<1>3. CASE /\ HandOn(IF Applies(c) THEN ApplyQuote(c, priced) ELSE price,
                     [lane EXCEPT !.flight = Released(@, c.slot)], calls \ {c})
           /\ edit' = IF Applies(c) /\ (priced \/ c.interactive) /\ edit = "out" THEN "answered" ELSE edit
  <2> DEFINE p == IF Applies(c) THEN ApplyQuote(c, priced) ELSE price
             l == [lane EXCEPT !.flight = Released(@, c.slot)]
  <2>1. PriceFits(p)
    BY ReplyFits, PublishedFits
  <2>2. l \in Lane
    <3>1. lane \in Lane /\ Released(lane.flight, c.slot) \in Claims(Nat, 1)
      BY DEF IInv, TypeOK, Lane, Released, Claims
    <3> QED BY <3>1 DEF Lane
  <2>3. HandOn(p, l, calls \ {c}) /\ calls \ {c} \in SUBSET calls
    BY <1>3
  <2>4. edit' \in {"none", "out", "answered"}
    BY <1>3 DEF IInv, TypeOK
  <2> HIDE DEF p, l
  <2> QED BY <1>1, <2>1, <2>2, <2>3, <2>4, HandOnFits DEF IInv, TypeOK, viewVars
<1> QED BY <1>2, <1>3 DEF Callback

LEMMA LapseKeeps ==
  ASSUME IInv, Lapse, UsedOK
  PROVE  IInv'
<1>1. /\ lane' = [lane EXCEPT !.flight = Lapsed(@)]
      /\ UNCHANGED <<at, toView, viewVars, request, price, dataGen, quoteGen, loading, calls,
                     ticking, pending, edit>>
  BY DEF Lapse
<1>2. lane' \in Lane
  <2>1. lane \in Lane /\ Lapsed(lane.flight) \in Claims(Nat, 1)
    BY DEF IInv, TypeOK, Lane, Lapsed, Claims
  <2> QED BY <1>1, <2>1 DEF Lane
<1> QED BY <1>1, <1>2 DEF IInv, TypeOK, UsedOK, viewVars, CallsFit, QuoteIsForms

LEMMA TimerKeeps ==
  ASSUME IInv, LapseTimer
  PROVE  IInv'
<1>1. UNCHANGED <<at, toView, viewVars, dataGen, ticking, pending, edit, used>>
  BY DEF LapseTimer
<1>2. CASE Busy(lane.flight)
  <2>1. /\ lane' = [lane EXCEPT !.timer = "early"]
        /\ UNCHANGED <<request, price, quoteGen, loading, calls>>
    BY <1>2 DEF LapseTimer
  <2>2. lane' \in Lane
    BY <2>1 DEF IInv, TypeOK, Lane, LapseTimers
  <2> QED BY <1>1, <2>1, <2>2 DEF IInv, TypeOK, viewVars, CallsFit, QuoteIsForms
<1>3. CASE ~Busy(lane.flight)
  <2>1. HandOn(price, [lane EXCEPT !.timer = "none"], calls)
    BY <1>3 DEF LapseTimer
  <2>2. [lane EXCEPT !.timer = "none"] \in Lane /\ PriceFits(price)
    BY PublishedFits DEF IInv, TypeOK, Lane, LapseTimers
  <2> QED BY <1>1, <2>1, <2>2, HandOnFits DEF IInv, TypeOK, viewVars
<1> QED BY <1>2, <1>3

LEMMA LossKeeps ==
  ASSUME IInv, NEW c \in calls, LoseCallback(c)
  PROVE  IInv'
<1>1. /\ calls' = calls \ {c}
      /\ UNCHANGED <<at, toView, viewVars, request, price, dataGen, quoteGen, lane, loading,
                     ticking, pending, edit>>
  BY DEF LoseCallback
<1>2. UsedOK
  BY DEF LoseCallback, Spend, UsedOK, IInv, TypeOK
<1>3. IsFiniteSet(calls')
  BY <1>1, FS_RemoveElement DEF IInv
<1> QED BY <1>1, <1>2, <1>3 DEF IInv, TypeOK, UsedOK, viewVars, CallsFit, QuoteIsForms

LEMMA Appends ==
  ASSUME NEW S, NEW q \in Seq(S), NEW x \in S
  PROVE  Append(q, x) \in Seq(S)
OBVIOUS

LEMMA MoveKeeps ==
  ASSUME IInv, NEW to \in Selections, MoveSelection(to)
  PROVE  IInv'
<1>1. /\ at' = to /\ toView' = Append(toView, to)
      /\ dataGen' = dataGen + 1 /\ quoteGen' = quoteGen + 1
      /\ price' = [Withdrawn(price) EXCEPT !.error = None]
      /\ edit' = "none"
      /\ UNCHANGED <<viewVars, request, lane, loading, calls, ticking, pending>>
  BY DEF MoveSelection, laneVars
<1>2. UsedOK
  <2>1. used' = [used EXCEPT !["moves"] = @ + 1]
    BY DEF MoveSelection, Spend
  <2> QED BY <2>1 DEF UsedOK, IInv, TypeOK
<1>3. CallsFit' /\ quoteGen' \in Nat
  BY <1>1, LeftBehind
<1>4. toView' \in Seq(Selections) /\ dataGen' \in Nat
  <2>1. toView \in Seq(Selections) /\ dataGen \in Nat
    BY DEF IInv, TypeOK
  <2> QED BY <1>1, <2>1, Appends
<1>5. price' \in Price /\ QuoteIsForms'
  <2>1. Withdrawn(price) \in Price /\ Withdrawn(price).quote = None
    BY PublishedFits, WithdrawnFits
  <2>2. price' \in Price /\ price'.quote = None /\ price'.error = None
    BY <1>1, <2>1 DEF Price
  <2> QED BY <2>2 DEF QuoteIsForms
<1> QED BY <1>1, <1>2, <1>3, <1>4, <1>5 DEF IInv, TypeOK, UsedOK, viewVars

LEMMA TurnKeeps ==
  ASSUME IInv, VerdictChanges \/ SendPends \/ SendSettles
  PROVE  IInv'
<1>1. /\ price' \in {price, Withdrawn(price)} /\ pending' \in BOOLEAN
      /\ UNCHANGED <<at, toView, viewVars, request, dataGen, quoteGen, laneVars, ticking, edit>>
  BY DEF VerdictChanges, SendPends, SendSettles, IInv, TypeOK
<1>2. UsedOK
  BY DEF VerdictChanges, SendPends, SendSettles, Spend, UsedOK, IInv, TypeOK
<1>3. PriceFits(price')
  BY <1>1, PublishedFits, WithdrawnFits
<1>4. price' \in Price /\ QuoteIsForms'
  BY <1>1, <1>3 DEF PriceFits, QuoteIsForms
<1> QED BY <1>1, <1>2, <1>4 DEF IInv, TypeOK, UsedOK, viewVars, laneVars, CallsFit

LEMMA InitFits == Init => IInv
<1> SUFFICES ASSUME Init PROVE IInv
  OBVIOUS
<1>1. IsFiniteSet(calls) /\ CallsFit /\ calls \subseteq Call
  BY FS_EmptySet DEF Init, CallsFit
<1>2. lane \in Lane
  BY DEF Init, Lane, FreeClaim, Claims, LapseTimers
<1>3. price \in Price /\ price.quote = None /\ price.error = None
  BY DEF Init, Price
<1>4. toView \in Seq(Selections) /\ {at, seen} \subseteq Selections /\ form \in Forms
  BY DEF Init
<1>5. {open, loading, ticking, pending} \subseteq BOOLEAN /\ request \in Requests \cup {None}
  BY DEF Init
<1>6. dataGen \in Nat /\ quoteGen \in Nat /\ edit \in {"none", "out", "answered"}
  BY DEF Init
<1>7. used \in [moves : Nat, edits : Nat, turns : Nat, faults : Nat]
  BY DEF Init
<1>8. TypeOK
  BY <1>1, <1>2, <1>3, <1>4, <1>5, <1>6, <1>7 DEF TypeOK
<1> QED BY <1>1, <1>3, <1>8 DEF IInv, QuoteIsForms

LEMMA StepKeeps == IInv /\ [Next]_vars => IInv'
<1> SUFFICES ASSUME IInv, [Next]_vars PROVE IInv'
  OBVIOUS
<1>1. CASE \E f \in Forms : EditForm(f)
  BY <1>1, EditKeeps
<1>2. CASE ViewCatchesUp
  BY <1>2, ViewKeeps
<1>3. CASE OpenPage
  BY <1>3, OpenKeeps
<1>4. CASE ClosePage
  BY <1>4, CloseKeeps
<1>5. CASE Tick
  BY <1>5, TickKeeps
<1>6. CASE \E c \in calls, priced \in BOOLEAN : Callback(c, priced)
  BY <1>6, CallbackKeeps
<1>7. CASE LapseAfterLoss \/ LapseBeforeReply
  <2>1. Lapse /\ UsedOK
    BY <1>7 DEF LapseAfterLoss, LapseBeforeReply, Spend, UsedOK, IInv, TypeOK
  <2> QED BY <2>1, LapseKeeps
<1>8. CASE LapseTimer
  BY <1>8, TimerKeeps
<1>9. CASE \E c \in calls : LoseCallback(c)
  BY <1>9, LossKeeps
<1>10. CASE \E to \in Selections : MoveSelection(to)
  BY <1>10, MoveKeeps
<1>11. CASE VerdictChanges \/ SendPends \/ SendSettles
  BY <1>11, TurnKeeps
<1>12. CASE UNCHANGED vars
  BY <1>12 DEF vars, viewVars, laneVars, IInv, TypeOK, CallsFit, QuoteIsForms
<1> QED
  BY <1>1, <1>2, <1>3, <1>4, <1>5, <1>6, <1>7, <1>8, <1>9, <1>10, <1>11, <1>12 DEF Next

LEMMA Inductive == Spec => []IInv
BY InitFits, StepKeeps, PTL DEF Spec

(* The quote lane, its calls and what it publishes stay in their types. *)
THEOREM TypeCorrect == Spec => []TypeOK
<1>1. IInv => TypeOK
  BY DEF IInv
<1> QED BY <1>1, Inductive, PTL

(* The figures and the refusal on screen are those of the form as it was     *)
(* last sent and, the figures, of the selection on screen, for any number of *)
(* edits, moves, lapses, losses and replies in any order (quote's callback,  *)
(* enterQuoteRequest, answersFor).                                           *)
THEOREM QuoteIsAlwaysForms == Spec => []QuoteIsForms
<1>1. IInv => QuoteIsForms
  BY DEF IInv
<1> QED BY <1>1, Inductive, PTL

-----------------------------------------------------------------------------
(***************************************************************************)
(* An edit is heard.  While nothing is lost or late, the claim is in force *)
(* for as long as its call is out, so neither a tick nor another edit ever *)
(* takes the lane from under the call an edit waits for.                   *)
(***************************************************************************)

(* At most one call owns the lane, and the lane is held while it is out. *)
Calm(l, out) ==
  \A c \in out : IsCurrent(l.flight, c.slot) =>
     Busy(l.flight) /\ \A d \in out : IsCurrent(l.flight, d.slot) => d = c

Heard(l, out, dg, qg) ==
  \/ \E c \in out : /\ IsCurrent(l.flight, c.slot) /\ c.interactive
                    /\ c.dataGen = dg /\ c.quoteGen = qg
  \/ l.again /\ l.interactive

Hears ==
  used.faults = 0 =>
    /\ Calm(lane, calls)
    /\ edit = "out" => DescribesASend(request) /\ Heard(lane, calls, dataGen, quoteGen)

LEMMA RunQuoteHears ==
  ASSUME IInv, NEW r \in Requests \cup {None}, NEW interactive \in BOOLEAN,
         NEW p, NEW l \in Lane, NEW out \in SUBSET calls, Calm(l, out),
         RunQuote(r, interactive, p, l, out)
  PROVE  /\ Calm(lane', calls')
         /\ DescribesASend(r) /\ (interactive \/ (r = request /\ Heard(l, out, dataGen, quoteGen)))
              => DescribesASend(request') /\ Heard(lane', calls', dataGen, quoteGen')
<1> DEFINE taken == TakenAgain(1, {c.slot : c \in out})
           call == [req |-> r, dataGen |-> dataGen, quoteGen |-> GenAfter(r),
                    slot |-> taken.ticket, interactive |-> interactive]
<1>1. request' = r /\ quoteGen' = GenAfter(r) /\ (r = request => quoteGen' = quoteGen)
  BY DEF RunQuote, GenAfter
<1>2. CASE ~DescribesASend(r) /\ lane' = l /\ calls' = out
  BY <1>2
<1>3. CASE Busy(l.flight) /\ lane' = Queued(l, interactive) /\ calls' = out
  <2>1. /\ lane'.flight = l.flight /\ lane'.again
        /\ lane'.interactive = (l.interactive \/ interactive)
    BY <1>3 DEF Queued, Lane
  <2>2. Calm(lane', calls')
    BY <1>3, <2>1 DEF Calm
  <2>3. interactive \/ Heard(l, out, dataGen, quoteGen) =>
          Heard(lane', calls', dataGen, quoteGen)
    BY <1>3, <2>1 DEF Heard
  <2>4. interactive => Heard(lane', calls', dataGen, quoteGen')
    BY <2>1 DEF Heard
  <2> QED BY <1>1, <2>2, <2>3, <2>4
<1>4. CASE ~Busy(l.flight) /\ Issue(r, interactive, l, out)
  <2>1. /\ lane' = [l EXCEPT !.flight = taken, !.timer = "armed"]
        /\ calls' = out \cup {call}
    BY <1>4 DEF Issue
  <2>2. /\ taken.held /\ taken.left = 1
        /\ \A c \in out : c.slot # taken.ticket
    <3>1. IsFiniteSet(out)
      BY FS_Subset DEF IInv
    <3>2. taken.ticket \notin {c.slot : c \in out}
      BY <3>1, SlotsAreFinite, TicketIsUnheld DEF TakenAgain
    <3> QED BY <3>2 DEF TakenAgain
  <2>3. /\ call.slot = taken.ticket /\ call.interactive = interactive
        /\ call.dataGen = dataGen /\ call.quoteGen = quoteGen'
    BY <1>1
  <2> HIDE DEF taken, call
  <2>4. lane'.flight = taken /\ lane'.again = l.again /\ lane'.interactive = l.interactive
    BY <2>1 DEF Lane
  <2>5. Calm(lane', calls')
    BY <2>1, <2>2, <2>3, <2>4 DEF Calm, IsCurrent, Busy
  <2>6. interactive => Heard(lane', calls', dataGen, quoteGen')
    BY <2>1, <2>3, <2>4 DEF Heard, IsCurrent
  <2>7. Heard(l, out, dataGen, quoteGen) => l.again /\ l.interactive
    BY <1>4 DEF Heard, Calm
  <2>8. Heard(l, out, dataGen, quoteGen) => Heard(lane', calls', dataGen, quoteGen')
    BY <2>4, <2>7 DEF Heard
  <2> QED BY <1>1, <2>5, <2>6, <2>8
<1> QED BY <1>2, <1>3, <1>4 DEF RunQuote

(* Once the lane is free nothing owns it: what an edit waits for is the      *)
(* re-run, and the re-run is its own.                                        *)
LEMMA HandOnHears ==
  ASSUME IInv, NEW p, NEW l \in Lane, NEW out \in SUBSET calls, Calm(l, out), ~Busy(l.flight),
         HandOn(p, l, out)
  PROVE  /\ Calm(lane', calls')
         /\ DescribesASend(request) /\ Heard(l, out, dataGen, quoteGen)
              => DescribesASend(request') /\ Heard(lane', calls', dataGen, quoteGen')
<1>1. Heard(l, out, dataGen, quoteGen) => l.again /\ l.interactive
  BY DEF Heard, Calm
<1>2. CASE l.again /\ RunQuote(request, l.interactive, p,
                               [l EXCEPT !.again = FALSE, !.interactive = FALSE], out)
  <2> DEFINE k == [l EXCEPT !.again = FALSE, !.interactive = FALSE]
  <2>1. k \in Lane /\ k.flight = l.flight /\ l.interactive \in BOOLEAN
    BY DEF Lane
  <2>2. request \in Requests \cup {None} /\ RunQuote(request, l.interactive, p, k, out)
    BY <1>2 DEF IInv, TypeOK
  <2> HIDE DEF k
  <2>3. Calm(k, out)
    BY <2>1 DEF Calm
  <2> QED BY <1>1, <2>1, <2>2, <2>3, RunQuoteHears
<1>3. CASE ~l.again /\ lane' = l /\ calls' = out
  BY <1>1, <1>3
<1> QED BY <1>2, <1>3 DEF HandOn

LEMMA RepriceHears ==
  ASSUME IInv, Hears, used.faults = 0, NEW where \in Selections, NEW what \in Forms,
         Reprice(where, what), dataGen' = dataGen
  PROVE  Hears'
<1> DEFINE r == [at |-> where, form |-> what]
<1>1. r \in Requests /\ RunQuote(r, TRUE, price, lane, calls) /\ edit' = Edited(r)
  BY DEF Reprice, Requests
<1> HIDE DEF r
<1>2. edit' = "out" => DescribesASend(r)
  BY <1>1 DEF Edited
<1>3. lane \in Lane /\ Calm(lane, calls)
  BY DEF IInv, TypeOK, Hears
<1>4. Calm(lane', calls')
      /\ (DescribesASend(r) => DescribesASend(request') /\ Heard(lane', calls', dataGen, quoteGen'))
  BY <1>1, <1>3, RunQuoteHears
<1> QED BY <1>2, <1>4 DEF Hears, DescribesASend

LEMMA CallbackHears ==
  ASSUME IInv, Hears, used.faults = 0, NEW c \in calls, NEW priced \in BOOLEAN,
         Callback(c, priced)
  PROVE  Hears'
<1>1. dataGen' = dataGen /\ used' = used /\ lane \in Lane /\ Calm(lane, calls)
  BY DEF Callback, IInv, TypeOK, Hears
<1>2. CASE ~Owns(c) /\ calls' = calls \ {c} /\ UNCHANGED <<request, quoteGen, lane, edit>>
  <2>1. Calm(lane', calls')
    BY <1>1, <1>2 DEF Calm
  <2>2. Heard(lane, calls, dataGen, quoteGen) => Heard(lane', calls', dataGen', quoteGen')
    BY <1>1, <1>2 DEF Heard, Owns
  <2> QED BY <1>1, <1>2, <2>1, <2>2 DEF Hears, DescribesASend
<1>3. CASE /\ Owns(c)
           /\ HandOn(IF Applies(c) THEN ApplyQuote(c, priced) ELSE price,
                     [lane EXCEPT !.flight = Released(@, c.slot)], calls \ {c})
           /\ edit' = IF Applies(c) /\ (priced \/ c.interactive) /\ edit = "out" THEN "answered" ELSE edit
  <2> DEFINE p == IF Applies(c) THEN ApplyQuote(c, priced) ELSE price
             l == [lane EXCEPT !.flight = Released(@, c.slot)]
             out == calls \ {c}
  <2>1. /\ l \in Lane /\ ~Busy(l.flight) /\ l.flight.ticket = lane.flight.ticket
        /\ l.again = lane.again /\ l.interactive = lane.interactive
    <3>1. /\ Released(lane.flight, c.slot) \in Claims(Nat, 1)
          /\ ~Released(lane.flight, c.slot).held
          /\ Released(lane.flight, c.slot).ticket = lane.flight.ticket
      BY <1>1, <1>3 DEF Lane, Claims, Released, Owns, IsCurrent
    <3> QED BY <1>1, <3>1 DEF Lane, Busy
  <2>2. HandOn(p, l, out) /\ out \in SUBSET calls
    BY <1>3
  <2>3. \A d \in out : ~IsCurrent(l.flight, d.slot)
    <3> HIDE DEF l
    <3> QED BY <1>1, <1>3, <2>1 DEF Calm, Owns, IsCurrent
  <2>4. edit' = "out" => edit = "out" /\ ~(Applies(c) /\ c.interactive)
    BY <1>3
  <2>5. edit' = "out" => DescribesASend(request) /\ Heard(l, out, dataGen, quoteGen)
    <3> SUFFICES ASSUME edit' = "out"
                 PROVE  DescribesASend(request) /\ Heard(l, out, dataGen, quoteGen)
      OBVIOUS
    <3>1. DescribesASend(request) /\ Heard(lane, calls, dataGen, quoteGen)
      BY <2>4 DEF Hears
    <3>2. lane.again /\ lane.interactive
      BY <1>1, <1>3, <2>4, <3>1 DEF Heard, Calm, Owns, Applies
    <3> HIDE DEF l, out
    <3> QED BY <2>1, <3>1, <3>2 DEF Heard
  <2> HIDE DEF p, l, out
  <2>6. Calm(l, out)
    BY <2>3 DEF Calm
  <2>7. /\ Calm(lane', calls')
        /\ edit' = "out" => DescribesASend(request') /\ Heard(lane', calls', dataGen, quoteGen')
    BY <2>1, <2>2, <2>5, <2>6, HandOnHears
  <2> QED BY <1>1, <2>7 DEF Hears, DescribesASend
<1> QED BY <1>2, <1>3 DEF Callback

LEMMA StepHears == IInv /\ Hears /\ [Next]_vars => Hears'
<1> SUFFICES ASSUME IInv, Hears, [Next]_vars, used'.faults = 0 PROVE Hears'
  BY DEF Hears
<1>t. /\ used.faults \in Nat /\ seen \in Selections /\ form \in Forms /\ lane \in Lane
      /\ toView \in Seq(Selections) /\ used \in [moves : Nat, edits : Nat, turns : Nat, faults : Nat]
      /\ request \in Requests \cup {None}
  BY DEF IInv, TypeOK
<1>1. CASE (\E f \in Forms : EditForm(f)) \/ OpenPage
  <2>1. used.faults = 0 /\ dataGen' = dataGen
    BY <1>t, <1>1 DEF EditForm, OpenPage, Spend
  <2> QED BY <1>t, <1>1, <2>1, RepriceHears DEF EditForm, OpenPage
<1>2. CASE ViewCatchesUp
  <2>1. /\ used' = used /\ dataGen' = dataGen /\ toView # <<>>
        /\ \/ Reprice(Head(toView), form)
           \/ UNCHANGED <<request, quoteGen, lane, calls, edit>>
    BY <1>2 DEF ViewCatchesUp, laneVars
  <2>2. Head(toView) \in Selections
    BY <1>t, <2>1, HeadsAndTails
  <2>3. CASE Reprice(Head(toView), form)
    BY <1>t, <2>1, <2>2, <2>3, RepriceHears
  <2>4. CASE UNCHANGED <<request, quoteGen, lane, calls, edit>>
    BY <2>1, <2>4 DEF Hears, Calm, Heard, DescribesASend
  <2> QED BY <2>1, <2>3, <2>4
<1>3. CASE ClosePage \/ \E to \in Selections : MoveSelection(to)
  <2>1. edit' = "none" /\ lane' = lane /\ calls' = calls /\ used.faults = 0
    BY <1>t, <1>3 DEF ClosePage, MoveSelection, Spend, laneVars
  <2> QED BY <2>1 DEF Hears, Calm
<1>4. CASE Tick
  <2>1. /\ RunQuote(request, FALSE, price, lane, calls)
        /\ used' = used /\ dataGen' = dataGen /\ edit' = edit /\ Calm(lane, calls)
    BY <1>4 DEF Tick, Hears
  <2>2. Calm(lane', calls')
        /\ (DescribesASend(request) /\ Heard(lane, calls, dataGen, quoteGen)
              => DescribesASend(request') /\ Heard(lane', calls', dataGen, quoteGen'))
    BY <1>t, <2>1, RunQuoteHears
  <2> QED BY <2>1, <2>2 DEF Hears, DescribesASend
<1>5. ASSUME NEW c \in calls, NEW priced \in BOOLEAN, Callback(c, priced) PROVE Hears'
  <2>1. used' = used
    BY <1>5 DEF Callback
  <2> QED BY <1>5, <2>1, CallbackHears
<1>6. CASE LapseAfterLoss
  <2>1. /\ \A c \in calls : ~Owns(c)
        /\ lane' = [lane EXCEPT !.flight = Lapsed(@)]
        /\ UNCHANGED <<request, dataGen, quoteGen, calls, edit, used>>
    BY <1>6 DEF LapseAfterLoss, Lapse
  <2>2. /\ lane'.flight.ticket = lane.flight.ticket
        /\ lane'.again = lane.again /\ lane'.interactive = lane.interactive
    <3>1. Lapsed(lane.flight).ticket = lane.flight.ticket
      BY <1>t DEF Lane, Claims, Lapsed
    <3> QED BY <1>t, <2>1, <3>1 DEF Lane
  <2>3. Calm(lane', calls') /\ (Heard(lane, calls, dataGen, quoteGen)
                                 => Heard(lane', calls', dataGen', quoteGen'))
    BY <2>1, <2>2 DEF Calm, Heard, Owns, IsCurrent
  <2> QED BY <2>1, <2>3 DEF Hears, DescribesASend
<1>7. CASE LapseTimer
  <2>1. /\ used' = used /\ dataGen' = dataGen /\ edit' = edit /\ Calm(lane, calls)
    BY <1>7 DEF LapseTimer, Hears
  <2>2. CASE Busy(lane.flight)
    <3>1. /\ lane' = [lane EXCEPT !.timer = "early"]
          /\ UNCHANGED <<request, quoteGen, calls>>
      BY <1>7, <2>2 DEF LapseTimer
    <3>2. /\ lane'.flight = lane.flight
          /\ lane'.again = lane.again /\ lane'.interactive = lane.interactive
      BY <1>t, <3>1 DEF Lane
    <3> QED BY <2>1, <3>1, <3>2 DEF Hears, Calm, Heard, DescribesASend
  <2>3. CASE ~Busy(lane.flight)
    <3> DEFINE l == [lane EXCEPT !.timer = "none"]
    <3>1. /\ l \in Lane /\ l.flight = lane.flight
          /\ l.again = lane.again /\ l.interactive = lane.interactive
      BY <1>t DEF Lane, LapseTimers
    <3>2. HandOn(price, l, calls) /\ ~Busy(l.flight)
      BY <1>7, <2>3, <3>1 DEF LapseTimer
    <3> HIDE DEF l
    <3>3. Calm(l, calls) /\ (Heard(lane, calls, dataGen, quoteGen)
                               => Heard(l, calls, dataGen, quoteGen))
      BY <2>1, <3>1 DEF Calm, Heard
    <3>4. /\ Calm(lane', calls')
          /\ DescribesASend(request) /\ Heard(l, calls, dataGen, quoteGen)
               => DescribesASend(request') /\ Heard(lane', calls', dataGen, quoteGen')
      BY <3>1, <3>2, <3>3, HandOnHears
    <3> QED BY <2>1, <3>3, <3>4 DEF Hears, DescribesASend
  <2> QED BY <2>2, <2>3
<1>8. CASE LapseBeforeReply \/ \E c \in calls : LoseCallback(c)
  <2>1. used' = [used EXCEPT !["faults"] = @ + 1]
    BY <1>8 DEF LapseBeforeReply, LoseCallback, Spend
  <2> QED BY <1>t, <2>1
<1>9. CASE VerdictChanges \/ SendPends \/ SendSettles \/ UNCHANGED vars
  <2>1. UNCHANGED <<request, dataGen, quoteGen, lane, calls, edit>> /\ used.faults = 0
    BY <1>t, <1>9 DEF VerdictChanges, SendPends, SendSettles, Spend, vars, laneVars
  <2> QED BY <2>1 DEF Hears, Calm, Heard, DescribesASend
<1> QED
  BY <1>1, <1>2, <1>3, <1>4, <1>5, <1>6, <1>7, <1>8, <1>9 DEF Next

(* An edit that has had no answer has a call of its own out or a re-run that *)
(* is its own, whatever ticks, edits and moves come between (runQuote and    *)
(* handOn with m_quoteAgainInteractive): for any selections, forms and       *)
(* bounds, as long as no callback is lost or late.                           *)
THEOREM EditIsAlwaysHeard == Spec => []EditIsHeard
<1>1. Init => Hears
  BY DEF Init, Hears, Calm
<1>2. Hears => EditIsHeard
  BY DEF Hears, Heard, EditIsHeard, Owns, Applies
<1> QED BY <1>1, <1>2, StepHears, Inductive, PTL DEF Spec

-----------------------------------------------------------------------------
(***************************************************************************)
(* The page and the lane: what is asked for is what the page holds, and    *)
(* what the lane is held, spins or re-runs by has something to end it.     *)
(***************************************************************************)
(* What was last asked for is the form of the open page under the selection  *)
(* the view has heard of; the last move on its way to it is the selection.   *)
FormIsAsked ==
  /\ request = IF open THEN [at |-> seen, form |-> form] ELSE None
  /\ at = IF toView = <<>> THEN seen ELSE toView[Len(toView)]

(* A timer that is spent was spent on a claim that is still held. *)
Armed(l, spins) ==
  Busy(l.flight) \/ spins \/ l.again =>
    l.timer = "armed" \/ (l.timer = "early" /\ l.flight.held)

(* A claim that is held has its call out. *)
Served(l, out) == l.flight.held => \E c \in out : c.slot = l.flight.ticket

Neglects == \E c \in calls : Owns(c) /\ LoseCallback(c)

Kept == Armed(lane', loading') /\ (Served(lane, calls) => Served(lane', calls'))

Held == FormIsAsked /\ Armed(lane, loading) /\ (ticking <=> open)

LEMMA QueueEnds ==
  ASSUME NEW S, NEW s \in Seq(S)
  PROVE  /\ \A x \in S : Append(s, x) # <<>> /\ Append(s, x)[Len(Append(s, x))] = x
         /\ s # <<>> => s[Len(s)] = IF Tail(s) = <<>> THEN Head(s) ELSE Tail(s)[Len(Tail(s))]
<1>1. ASSUME NEW x \in S
      PROVE  Append(s, x) # <<>> /\ Append(s, x)[Len(Append(s, x))] = x
  OBVIOUS
<1>2. ASSUME s # <<>>
      PROVE  s[Len(s)] = IF Tail(s) = <<>> THEN Head(s) ELSE Tail(s)[Len(Tail(s))]
  <2>1. PICK t \in Seq(S) : t = Tail(s)
    <3>1. Tail(s) \in Seq(S)
      BY <1>2, HeadsAndTails
    <3> QED BY <3>1, Zenon
  <2>2. /\ Len(s) \in Nat /\ Len(t) = Len(s) - 1 /\ Head(s) = s[1]
        /\ \A i \in 1 .. Len(t) : t[i] = s[i + 1]
    BY <1>2, <2>1
  <2>3. CASE t = <<>>
    <3>1. Len(s) = 1
      BY <2>2, <2>3
    <3> QED BY <2>1, <2>2, <2>3, <3>1
  <2>4. CASE t # <<>>
    <3>1. Len(t) \in 1 .. Len(t)
      BY <2>1, <2>4
    <3>2. t[Len(t)] = s[Len(s)]
      BY <2>2, <3>1
    <3> QED BY <2>1, <2>4, <3>2
  <2> QED BY <2>3, <2>4
<1> QED BY <1>1, <1>2

LEMMA RunQuoteArms ==
  ASSUME NEW r, NEW interactive, NEW p, NEW l \in Lane, NEW out,
         Armed(l, FALSE), RunQuote(r, interactive, p, l, out)
  PROVE  Armed(lane', loading') /\ (Served(l, out) => Served(lane', calls')) /\ request' = r
<1>1. CASE loading' = FALSE /\ lane' = l /\ calls' = out
  BY <1>1 DEF RunQuote, Armed
<1>2. CASE Busy(l.flight) /\ lane' = Queued(l, interactive) /\ calls' = out
  <2>1. Queued(l, interactive).timer = l.timer /\ Queued(l, interactive).flight = l.flight
    BY DEF Queued, Lane
  <2> QED BY <1>2, <2>1 DEF RunQuote, Armed, Served
<1>3. CASE Issue(r, interactive, l, out)
  <2>1. PICK taken : taken = TakenAgain(1, {c.slot : c \in out})
    OBVIOUS
  <2>2. PICK call : call = [req |-> r, dataGen |-> dataGen, quoteGen |-> GenAfter(r),
                            slot |-> taken.ticket, interactive |-> interactive]
    OBVIOUS
  <2>3. lane' = [l EXCEPT !.flight = taken, !.timer = "armed"] /\ call \in calls'
    BY <1>3, <2>1, <2>2 DEF Issue
  <2>4. lane'.timer = "armed" /\ lane'.flight = taken
    BY <2>3 DEF Lane
  <2> QED BY <2>2, <2>3, <2>4 DEF RunQuote, Armed, Served
<1> QED BY <1>1, <1>2, <1>3 DEF RunQuote

LEMMA HandOnArms ==
  ASSUME NEW p, NEW l \in Lane, NEW out, ~Busy(l.flight), HandOn(p, l, out)
  PROVE  /\ Armed(lane', loading') /\ (Served(l, out) => Served(lane', calls'))
         /\ request' = request
<1>1. CASE l.again
  <2>1. PICK m : m = [l EXCEPT !.again = FALSE, !.interactive = FALSE]
    OBVIOUS
  <2>2. m \in Lane /\ ~m.again /\ m.flight = l.flight
    BY <2>1 DEF Lane
  <2>3. RunQuote(request, l.interactive, p, m, out)
    BY <1>1, <2>1 DEF HandOn
  <2>4. Armed(m, FALSE) /\ Served(m, out) = Served(l, out)
    BY <2>2 DEF Armed, Served
  <2> QED BY <2>2, <2>3, <2>4, RunQuoteArms
<1>2. CASE ~l.again
  BY <1>2 DEF HandOn, Armed
<1> QED BY <1>1, <1>2

LEMMA LaneFits ==
  ASSUME IInv, Held
  PROVE  lane \in Lane /\ Armed(lane, FALSE)
BY DEF IInv, TypeOK, Held, Armed

(* An edit, a visit and a move the view hears of all ask anew. *)
LEMMA RepriceHolds ==
  ASSUME IInv, Held, NEW where, NEW what, Reprice(where, what)
  PROVE  Kept /\ request' = [at |-> where, form |-> what]
<1>1. RunQuote([at |-> where, form |-> what], TRUE, price, lane, calls)
  BY DEF Reprice
<1> QED BY <1>1, LaneFits, RunQuoteArms DEF Kept

LEMMA ViewHolds ==
  ASSUME IInv, Held, ViewCatchesUp
  PROVE  Held' /\ (Served(lane, calls) => Served(lane', calls'))
<1>1. /\ toView # <<>> /\ seen' = Head(toView) /\ toView' = Tail(toView)
      /\ UNCHANGED <<at, form, open, ticking>>
  BY DEF ViewCatchesUp
<1>2. at' = IF toView' = <<>> THEN seen' ELSE toView'[Len(toView')]
  BY <1>1, QueueEnds DEF Held, FormIsAsked, IInv, TypeOK
<1>3. CASE open /\ Reprice(Head(toView), form)
  BY <1>1, <1>2, <1>3, RepriceHolds DEF Kept, Held, FormIsAsked
<1>4. CASE ~open /\ UNCHANGED <<request, lane, loading, calls>>
  BY <1>1, <1>2, <1>4 DEF Held, FormIsAsked, Armed, Served
<1> QED BY <1>3, <1>4 DEF ViewCatchesUp, laneVars

LEMMA PageHolds ==
  ASSUME IInv, Held, (\E f \in Forms : EditForm(f)) \/ OpenPage \/ ClosePage
  PROVE  Held' /\ (Served(lane, calls) => Served(lane', calls'))
<1>1. UNCHANGED <<at, toView, seen>>
  BY DEF EditForm, OpenPage, ClosePage
<1>2. CASE \E f \in Forms : EditForm(f)
  <2>1. Reprice(seen, form') /\ open /\ UNCHANGED <<open, ticking>>
    BY <1>2 DEF EditForm
  <2> QED BY <1>1, <2>1, RepriceHolds DEF Kept, Held, FormIsAsked
<1>3. CASE OpenPage
  <2>1. Reprice(seen, form) /\ open' = TRUE /\ ticking' = TRUE /\ form' = form
    BY <1>3 DEF OpenPage
  <2> QED BY <1>1, <2>1, RepriceHolds DEF Kept, Held, FormIsAsked
<1>4. CASE ClosePage
  BY <1>1, <1>4 DEF ClosePage, laneVars, Held, FormIsAsked, Armed, Served
<1> QED BY <1>2, <1>3, <1>4

LEMMA ReplyHolds ==
  ASSUME IInv, Held, NEW c \in calls, NEW priced \in BOOLEAN, Callback(c, priced)
  PROVE  Held' /\ (Served(lane, calls) => Served(lane', calls'))
<1>1. UNCHANGED <<at, toView, seen, form, open, ticking>>
  BY DEF Callback, viewVars
<1>2. CASE ~Owns(c) /\ calls' = calls \ {c} /\ UNCHANGED <<request, lane, loading>>
  BY <1>1, <1>2 DEF Held, FormIsAsked, Armed, Served, Owns, IsCurrent
<1>3. CASE Owns(c) /\ \E p : HandOn(p, [lane EXCEPT !.flight = Released(@, c.slot)], calls \ {c})
  <2>1. PICK p, l : l = [lane EXCEPT !.flight = Released(@, c.slot)] /\ HandOn(p, l, calls \ {c})
    BY <1>3
  <2>2. l \in Lane /\ ~l.flight.held
    <3>1. lane \in Lane /\ lane.flight \in Claims(Nat, 1)
      BY DEF IInv, TypeOK, Lane
    <3>2. Released(lane.flight, c.slot) \in Claims(Nat, 1) /\ ~Released(lane.flight, c.slot).held
      BY <1>3, <3>1 DEF Released, Claims, Owns, IsCurrent
    <3> QED BY <2>1, <3>1, <3>2 DEF Lane
  <2>3. ~Busy(l.flight) /\ Served(l, calls \ {c})
    BY <2>2 DEF Busy, Served
  <2> QED BY <1>1, <2>1, <2>2, <2>3, HandOnArms DEF Held, FormIsAsked
<1> QED BY <1>2, <1>3 DEF Callback

LEMMA AttendedIsServed == Attended = Served(lane, calls) /\ Attended' = Served(lane', calls')
BY DEF Attended, Owns, IsCurrent, Served

LEMMA StepHolds ==
  ASSUME IInv, Held, [Next]_vars
  PROVE  Held' /\ (Attended => Attended' \/ Neglects)
<1> SUFFICES Held' /\ ((Served(lane, calls) => Served(lane', calls')) \/ Neglects)
  BY AttendedIsServed
<1>t. lane \in Lane /\ lane.flight \in Claims(Nat, 1)
  BY DEF IInv, TypeOK, Lane
<1>1. CASE (\E f \in Forms : EditForm(f)) \/ OpenPage \/ ClosePage
  BY <1>1, PageHolds
<1>2. CASE ViewCatchesUp
  BY <1>2, ViewHolds
<1>3. CASE Tick
  <2>1. /\ RunQuote(request, FALSE, price, lane, calls)
        /\ UNCHANGED <<at, toView, seen, form, open, ticking>>
    BY <1>3 DEF Tick, viewVars
  <2>2. Kept /\ request' = request
    BY <2>1, LaneFits, RunQuoteArms DEF Kept
  <2> QED BY <2>1, <2>2 DEF Kept, Held, FormIsAsked
<1>4. CASE \E c \in calls, priced \in BOOLEAN : Callback(c, priced)
  BY <1>4, ReplyHolds
<1>5. CASE LapseAfterLoss \/ LapseBeforeReply
  <2>1. /\ lane' = [lane EXCEPT !.flight = Lapsed(@)]
        /\ UNCHANGED <<at, toView, seen, form, open, request, loading, calls, ticking>>
    BY <1>5 DEF LapseAfterLoss, LapseBeforeReply, Lapse, viewVars
  <2>2. /\ lane'.flight.held = lane.flight.held /\ lane'.flight.ticket = lane.flight.ticket
        /\ ~Busy(lane'.flight) /\ lane'.timer = lane.timer /\ lane'.again = lane.again
    BY <1>t, <2>1 DEF Lane, Claims, Lapsed, Busy
  <2>3. Kept
    BY <2>1, <2>2 DEF Held, Kept, Armed, Served
  <2> QED BY <2>1, <2>3 DEF Kept, Held, FormIsAsked
<1>6. CASE LapseTimer
  <2>1. UNCHANGED <<at, toView, seen, form, open, ticking>>
    BY <1>6 DEF LapseTimer, viewVars
  <2>2. CASE Busy(lane.flight)
    <3>1. lane' = [lane EXCEPT !.timer = "early"] /\ UNCHANGED <<request, loading, calls>>
      BY <1>6, <2>2 DEF LapseTimer
    <3>2. lane'.flight = lane.flight /\ lane'.timer = "early" /\ lane.flight.held
      BY <1>t, <2>2, <3>1 DEF Lane, Busy
    <3> QED BY <2>1, <3>1, <3>2 DEF Held, FormIsAsked, Armed, Served
  <2>3. CASE ~Busy(lane.flight)
    <3>1. PICK l : l = [lane EXCEPT !.timer = "none"]
      OBVIOUS
    <3>2. HandOn(price, l, calls)
      BY <1>6, <2>3, <3>1 DEF LapseTimer
    <3>3. l \in Lane /\ l.flight = lane.flight
      BY <1>t, <3>1 DEF Lane, LapseTimers
    <3>4. Served(l, calls) = Served(lane, calls)
      BY <3>3 DEF Served
    <3> QED BY <2>1, <2>3, <3>2, <3>3, <3>4, HandOnArms DEF Held, FormIsAsked
  <2> QED BY <2>2, <2>3
<1>7. CASE \E to \in Selections : MoveSelection(to)
  <2>1. PICK to \in Selections : MoveSelection(to)
    BY <1>7
  <2>2. /\ at' = to /\ toView' = Append(toView, to)
        /\ UNCHANGED <<seen, form, open, request, lane, loading, calls, ticking>>
    BY <2>1 DEF MoveSelection, viewVars, laneVars
  <2>3. toView' # <<>> /\ toView'[Len(toView')] = to
    BY <2>2, QueueEnds DEF IInv, TypeOK
  <2> QED BY <2>2, <2>3 DEF Held, FormIsAsked, Armed, Served
<1>8. CASE VerdictChanges \/ SendPends \/ SendSettles \/ UNCHANGED vars
  <2>1. UNCHANGED <<at, toView, seen, form, open, request, lane, loading, calls, ticking>>
    BY <1>8 DEF VerdictChanges, SendPends, SendSettles, viewVars, laneVars, vars
  <2> QED BY <2>1 DEF Held, FormIsAsked, Armed, Served
<1>9. ASSUME NEW c \in calls, LoseCallback(c)
      PROVE  Held' /\ ((Served(lane, calls) => Served(lane', calls')) \/ Neglects)
  <2>1. /\ UNCHANGED <<at, toView, seen, form, open, request, lane, loading, ticking>>
        /\ calls' = calls \ {c}
    BY <1>9 DEF LoseCallback, viewVars
  <2>2. Held'
    BY <2>1 DEF Held, FormIsAsked, Armed
  <2>3. CASE Owns(c)
    BY <1>9, <2>2, <2>3 DEF Neglects
  <2>4. CASE ~Owns(c)
    BY <2>1, <2>2, <2>4 DEF Served, Owns, IsCurrent
  <2> QED BY <2>3, <2>4
<1> QED BY <1>1, <1>2, <1>3, <1>4, <1>5, <1>6, <1>7, <1>8, <1>9 DEF Next

LEMMA HeldAlways == Spec => [](IInv /\ Held)
<1>1. Init => Held
  BY DEF Init, FreeClaim, Busy, Held, FormIsAsked, Armed
<1> QED BY <1>1, StepHolds, Inductive, PTL DEF Spec

(* Wherever a price shows, it is the price of what the page holds for the    *)
(* selection as it is, the view having heard of it: the reply is checked by  *)
(* two generations and by name, and a move takes the figure down before the  *)
(* view knows (publishSelection, quote, runQuote's callback).                *)
THEOREM QuoteIsAlwaysOnTheForm == Spec => []QuoteIsOnTheForm
<1>1. IInv /\ Held => QuoteIsOnTheForm
  <2> SUFFICES ASSUME IInv, Held PROVE QuoteIsOnTheForm
    OBVIOUS
  <2>1. seen \in Selections /\ form \in Forms
    BY DEF IInv, TypeOK
  <2>2. ASSUME price.quote # None
        PROVE  open /\ seen = at /\ price.quote = [at |-> at, form |-> form]
    <3>1. price.quote = request /\ request.at = at /\ request # None
      BY <2>2 DEF IInv, QuoteIsForms
    <3>2. open /\ request = [at |-> seen, form |-> form]
      BY <3>1 DEF Held, FormIsAsked
    <3> QED BY <3>1, <3>2
  <2> QED BY <2>2 DEF Held, FormIsAsked, QuoteIsOnTheForm
<1> QED BY <1>1, HeldAlways, PTL

(* A lane that is held, spins or owes a re-run has a timer to come, or had   *)
(* it spent on a claim that is still held; a held claim has its own call out *)
(* until that very call is lost; and no open page is without the timer that  *)
(* re-prices it (beginLane, handOnLane, setQuoteAutoRefresh).                *)
THEOREM LapseStaysArmed == Spec => []LapseIsArmed /\ LossAloneNeglects
<1>1. IInv /\ Held => LapseIsArmed
  BY DEF Held, Armed, LapseIsArmed
<1>2. IInv /\ Held /\ [Next]_vars
        => [Attended => Attended' \/ \E c \in calls : Owns(c) /\ LoseCallback(c)]_vars
  BY StepHolds DEF Neglects
<1> QED BY <1>1, <1>2, HeldAlways, PTL DEF Spec, LossAloneNeglects
=============================================================================

-------------------------- MODULE IntentSend_proofs --------------------------
(***************************************************************************)
(* What holds of another app's sends for every number of apps, clicks and  *)
(* faults.                                                                 *)
(***************************************************************************)
EXTENDS IntentSend, TLAPS

THEOREM TypeInit == Init => TypeOK
BY IntentSendAssumption
DEF Init, TypeOK, Published, Reviews, NoReview, NoSend, Updates, Slots, Calls, Claims, FreeClaim

(* Setting properties to values of their own types leaves the updates on     *)
(* their way to the view typed.                                              *)
LEMMA UpdateTyped ==
  ASSUME TypeOK, shown' \in Published, NEW p \in {"pending", "outcome", "review", "pricing"}
  PROVE  Update(p) \in Seq(Updates)
<1>1. [prop |-> p, value |-> shown'[p]] \in Updates
  <2>1. CASE p = "pending" BY <2>1 DEF Published, Updates
  <2>2. CASE p = "outcome" BY <2>2 DEF Published, Updates
  <2>3. CASE p = "review" BY <2>3 DEF Published, Updates
  <2>4. CASE p = "pricing" BY <2>4 DEF Published, Updates
  <2> QED BY <2>1, <2>2, <2>3, <2>4
<1> QED BY <1>1 DEF Update

Shut == [up |-> FALSE, app |-> NoApp, error |-> FALSE, fee |-> NoApp]

Up == [up : {TRUE}, app : Apps \cup {NoApp}, error : BOOLEAN, fee : Apps \cup {NoApp}]

LEMMA ReviewCases == NoReview = Shut /\ Reviews = {Shut} \cup Up
BY DEF NoReview, Reviews, Shut, Up

LEMMA NewReviews ==
  ASSUME NEW a \in Apps \cup {NoApp}
  PROVE  NoReview \in Reviews /\ Review(a) \in Reviews /\ Refusal(a) \in Reviews
<1>1. Review(a) \in Up /\ Refusal(a) \in Up
  BY DEF Review, Refusal, Up
<1> QED BY <1>1, ReviewCases

LEMMA ChangedReviews ==
  ASSUME NEW review \in Reviews
  PROVE  /\ review.app \in Apps \cup {NoApp}
         /\ [review EXCEPT !.up = TRUE] \in Reviews
         /\ Open(review) => [review EXCEPT !.error = TRUE] \in Reviews
         /\ \A a \in Apps : review.app = a => [review EXCEPT !.fee = a] \in Reviews
<1>1. CASE review = Shut
  <2>1. [review EXCEPT !.up = TRUE] \in Up
    BY <1>1 DEF Shut, Up
  <2> QED BY <1>1, <2>1, ReviewCases, IntentSendAssumption DEF Shut, Open
<1>2. CASE review \in Up
  <2>1. /\ [review EXCEPT !.up = TRUE] \in Up
        /\ [review EXCEPT !.error = TRUE] \in Up
        /\ \A a \in Apps : [review EXCEPT !.fee = a] \in Up
    BY <1>2 DEF Up
  <2> QED BY <1>2, <2>1, ReviewCases DEF Up
<1> QED BY <1>1, <1>2, ReviewCases

LEMMA Appends ==
  ASSUME NEW S, NEW s \in Seq(S), NEW x \in S
  PROVE  Append(s, x) \in Seq(S) /\ Len(Append(s, x)) = Len(s) + 1
OBVIOUS

LEMMA Concats ==
  ASSUME NEW S, NEW s \in Seq(S), NEW t \in Seq(S)
  PROVE  s \o t \in Seq(S)
OBVIOUS

LEMMA ConcatsOne ==
  ASSUME NEW S, NEW s \in Seq(S), NEW x \in S
  PROVE  s \o <<x>> = Append(s, x)
OBVIOUS

LEMMA Tails ==
  ASSUME NEW S, NEW s \in Seq(S), s # <<>>
  PROVE  Tail(s) \in Seq(S) /\ Head(s) \in S
OBVIOUS

LEMMA ElementIn ==
  ASSUME NEW S, NEW s \in Seq(S), NEW i \in DOMAIN s
  PROVE  s[i] \in S
OBVIOUS

LEMMA ReplaceIn ==
  ASSUME NEW S, NEW s \in Seq(S), NEW i \in DOMAIN s, NEW x \in S
  PROVE  [s EXCEPT ![i] = x] \in Seq(S) /\ Len([s EXCEPT ![i] = x]) = Len(s)
OBVIOUS

LEMMA ToViewTyped ==
  ASSUME TypeOK, shown' \in Published,
         NEW p \in {"pending", "outcome", "review", "pricing"},
         NEW q \in {"pending", "outcome", "review", "pricing"},
         NEW r \in {"pending", "outcome", "review", "pricing"}
  PROVE  /\ toView \o Update(p) \in Seq(Updates)
         /\ toView \o Update(p) \o Update(q) \in Seq(Updates)
         /\ toView \o Update(p) \o Update(q) \o Update(r) \in Seq(Updates)
<1>1. toView \in Seq(Updates) /\ Update(p) \in Seq(Updates) /\ Update(q) \in Seq(Updates)
        /\ Update(r) \in Seq(Updates)
  BY UpdateTyped DEF TypeOK
<1>2. toView \o Update(p) \in Seq(Updates)
  BY <1>1, Concats
<1>3. toView \o Update(p) \o Update(q) \in Seq(Updates)
  BY <1>1, <1>2, Concats
<1>4. toView \o Update(p) \o Update(q) \o Update(r) \in Seq(Updates)
  BY <1>1, <1>3, Concats
<1> QED BY <1>2, <1>3, <1>4

LEMMA ShownChanges ==
  ASSUME shown \in Published, NEW review \in Reviews, NEW pending \in Nat, NEW outcome \in Nat,
         NEW pricing \in BOOLEAN
  PROVE  /\ [shown EXCEPT !.review = review] \in Published
         /\ [shown EXCEPT !.review = review, !.pricing = pricing] \in Published
         /\ [shown EXCEPT !.pricing = pricing, !.review = review] \in Published
         /\ [shown EXCEPT !.pricing = pricing] \in Published
         /\ [shown EXCEPT !.outcome = outcome, !.pending = pending] \in Published
         /\ [shown EXCEPT !.outcome = outcome, !.pending = pending, !.review = review] \in Published
         /\ [shown EXCEPT !.outcome = outcome, !.pending = pending, !.review = review].pending = pending
BY DEF Published

LEMMA PriceForTyped == ASSUME TypeOK, NEW a \in Apps PROVE PriceFor(a) \in Published
<1>1. shown \in Published /\ shown.review \in Reviews
  BY DEF TypeOK, Published
<1> QED BY <1>1, ChangedReviews DEF PriceFor, Published

LEMMA ClaimChanges ==
  ASSUME NEW claim \in Claims(Nat, 1), NEW slot \in Nat
  PROVE  /\ Taken(claim, 1) \in Claims(Nat, 1)
         /\ Taken(claim, 1).ticket = claim.ticket + 1
         /\ claim.ticket \in Nat
         /\ Released(claim, slot) \in Claims(Nat, 1)
         /\ Released(claim, slot).ticket = claim.ticket
         /\ Lapsed(claim) \in Claims(Nat, 1)
         /\ Lapsed(claim).ticket = claim.ticket
<1>1. /\ Taken(claim, 1) \in Claims(Nat, 1) /\ claim.ticket \in Nat
      /\ Taken(claim, 1).ticket = claim.ticket + 1
  BY DEF Claims, Taken
<1>2. Released(claim, slot) \in Claims(Nat, 1) /\ Released(claim, slot).ticket = claim.ticket
  BY DEF Claims, Released
<1>3. Lapsed(claim) \in Claims(Nat, 1) /\ Lapsed(claim).ticket = claim.ticket
  BY DEF Claims, Lapsed
<1> QED BY <1>1, <1>2, <1>3

LEMMA HandTyped ==
  ASSUME TypeOK, NEW by \in Apps \cup {Own}, NEW heard \in BOOLEAN, Hand(by, heard)
  PROVE  /\ sends' \in Seq([by : Apps \cup {Own}, heard : BOOLEAN, over : BOOLEAN])
         /\ Len(sends') = Len(sends) + 1 /\ Len(sends) \in Nat
<1>1. [by |-> by, heard |-> heard, over |-> FALSE]
        \in [by : Apps \cup {Own}, heard : BOOLEAN, over : BOOLEAN]
  OBVIOUS
<1> QED BY <1>1, Appends DEF TypeOK, Hand

LEMMA StillKnown ==
  ASSUME TypeOK, NEW by \in Apps \cup {Own}, UNCHANGED sends \/ Hand(by, FALSE)
  PROVE  /\ sends' \in Seq([by : Apps \cup {Own}, heard : BOOLEAN, over : BOOLEAN])
         /\ shown.pending <= Len(sends')
<1>1. /\ sends \in Seq([by : Apps \cup {Own}, heard : BOOLEAN, over : BOOLEAN])
      /\ shown.pending \in Nat /\ shown.pending <= Len(sends)
  BY DEF TypeOK, Published
<1>2. CASE UNCHANGED sends
  BY <1>1, <1>2
<1>3. CASE Hand(by, FALSE)
  <2>1. /\ sends' \in Seq([by : Apps \cup {Own}, heard : BOOLEAN, over : BOOLEAN])
        /\ Len(sends') = Len(sends) + 1 /\ Len(sends) \in Nat
    BY <1>3, HandTyped
  <2> HIDE <1>3
  <2> QED BY <1>1, <2>1
<1> QED BY <1>2, <1>3

LEMMA SpendTyped ==
  ASSUME TypeOK, NEW what \in {"clicks", "faults"}, NEW max, Spend(what, max)
  PROVE  used' \in [clicks : Nat, faults : Nat]
<1>1. used \in [clicks : Nat, faults : Nat] /\ used' = [used EXCEPT ![what] = @ + 1]
  BY DEF TypeOK, Spend
<1> QED BY <1>1

LEMMA AnswerTyped ==
  ASSUME TypeOK, NEW how \in {"cancelled", "refused", "settled"}, NEW send \in Nat,
         AnswerIntent(how, send)
  PROVE  /\ serving' \in Apps \cup {NoApp}
         /\ told' \in [Apps -> [how : {"unasked", "waiting", "cancelled", "refused", "settled"}, send : Nat]]
BY DEF TypeOK, AnswerIntent

-----------------------------------------------------------------------------
(* Type correctness, an action at a time. *)
LEMMA ReviewKeepsType ==
  ASSUME TypeOK, NEW a \in Apps \cup {NoApp}, ReviewIntentSend(a)
  PROVE  /\ shown' \in Published /\ toView' \in Seq(Updates)
         /\ priceClaim' \in Claims(Nat, 1) /\ acceptClaim' \in Claims(Nat, 1)
         /\ calls' \subseteq Calls /\ shown'.pending = shown.pending
<1>1. shown \in Published
  BY DEF TypeOK
<1>2. CASE ~Checks(a) /\ Refuse(a) /\ UNCHANGED claimVars
  <2>1. shown' \in Published /\ shown'.pending = shown.pending
    BY <1>1, <1>2, NewReviews DEF Refuse, Published
  <2> QED BY <1>2, <2>1, ToViewTyped DEF Refuse, claimVars, TypeOK
<1>3. CASE /\ Checks(a) /\ Busy(priceClaim)
           /\ shown' = [shown EXCEPT !.review = Review(a)]
           /\ toView' = toView \o Update("review")
           /\ UNCHANGED claimVars
  <2>1. shown' \in Published /\ shown'.pending = shown.pending
    BY <1>1, <1>3, NewReviews DEF Published
  <2> QED BY <1>3, <2>1, ToViewTyped DEF claimVars, TypeOK
<1>4. CASE /\ Checks(a) /\ ~Busy(priceClaim)
           /\ shown' = [shown EXCEPT !.review = Review(a), !.pricing = TRUE]
           /\ toView' = toView \o Update("review") \o Update("pricing")
           /\ priceClaim' = Taken(priceClaim, 1)
           /\ calls' = calls \cup {[op |-> "price", app |-> a, slot |-> priceClaim'.ticket]}
           /\ UNCHANGED acceptClaim
  <2>1. shown' \in Published /\ shown'.pending = shown.pending
    BY <1>1, <1>4, NewReviews DEF Published
  <2>2. a \in Apps
    BY <1>4 DEF Checks, TypeOK
  <2>3. priceClaim' \in Claims(Nat, 1) /\ priceClaim'.ticket \in Nat
    BY <1>4, ClaimChanges DEF TypeOK
  <2>4. calls' \subseteq Calls
    BY <1>4, <2>2, <2>3 DEF TypeOK, Calls
  <2> QED BY <1>4, <2>1, <2>3, <2>4, ToViewTyped DEF TypeOK
<1> QED BY <1>2, <1>3, <1>4 DEF ReviewIntentSend

LEMMA AcceptKeepsType ==
  ASSUME TypeOK, AcceptIntentSend
  PROVE  /\ shown' \in Published /\ toView' \in Seq(Updates)
         /\ acceptClaim' \in Claims(Nat, 1)
         /\ calls' \subseteq Calls /\ shown'.pending = shown.pending
<1> DEFINE a == shown.review.app
           free == Open(shown.review) /\ ~Busy(acceptClaim)
           claim == Taken(acceptClaim, 1)
<1>1. shown \in Published /\ shown.review \in Reviews /\ acceptClaim \in Claims(Nat, 1)
  BY DEF TypeOK, Published
<1>2. claim \in Claims(Nat, 1) /\ claim.ticket \in Nat
  BY <1>1, ClaimChanges
<1>3. CASE ~free /\ UNCHANGED <<shown, toView, acceptClaim, calls>>
  BY <1>3 DEF TypeOK
<1>4. CASE /\ free /\ ~Checks(a)
           /\ shown' = [shown EXCEPT !.review = [@ EXCEPT !.error = TRUE]]
           /\ toView' = toView \o Update("review")
           /\ acceptClaim' = Released(claim, claim.ticket)
           /\ UNCHANGED calls
  <2>1. [shown.review EXCEPT !.error = TRUE] \in Reviews
    BY <1>1, <1>4, ChangedReviews
  <2>2. shown' \in Published /\ shown'.pending = shown.pending
    BY <1>1, <1>4, <2>1 DEF Published
  <2> QED BY <1>2, <1>4, <2>2, ToViewTyped, ClaimChanges DEF TypeOK
<1>5. CASE /\ free /\ Checks(a)
           /\ acceptClaim' = claim
           /\ calls' = calls \cup {[op |-> "accept", app |-> a, slot |-> claim.ticket]}
           /\ UNCHANGED <<shown, toView>>
  <2>1. a \in Apps
    BY <1>5 DEF Checks, TypeOK
  <2> QED BY <1>2, <1>5, <2>1 DEF TypeOK, Calls
<1> QED BY <1>3, <1>4, <1>5 DEF AcceptIntentSend

LEMMA RunSlotKeepsType == TypeOK /\ RunSlot => TypeOK'
<1> SUFFICES ASSUME TypeOK, RunSlot PROVE TypeOK'
  OBVIOUS
<1> DEFINE call == Head(toBackend)
<1>1. call \in Slots /\ toBackend' \in Seq(Slots)
  BY Tails DEF TypeOK, RunSlot
<1>2. /\ shown' \in Published /\ toView' \in Seq(Updates)
      /\ priceClaim' \in Claims(Nat, 1) /\ acceptClaim' \in Claims(Nat, 1)
      /\ calls' \subseteq Calls /\ shown'.pending = shown.pending
  <2>1. CASE call.slot = "review" /\ ReviewIntentSend(call.app)
    BY <1>1, <2>1, ReviewKeepsType DEF Slots
  <2>2. CASE call.slot = "accept" /\ AcceptIntentSend
    BY <2>2, AcceptKeepsType DEF AcceptIntentSend, TypeOK
  <2>3. CASE call.slot = "decline" /\ DeclineIntentSend
    <3>1. shown' \in Published /\ shown'.pending = shown.pending
      BY <2>3, NewReviews DEF DeclineIntentSend, TypeOK, Published
    <3> QED BY <2>3, <3>1, ToViewTyped DEF DeclineIntentSend, claimVars, TypeOK
  <2>4. CASE call.slot = "submit" /\ SubmitSend
    BY <2>4 DEF SubmitSend, TypeOK, Calls
  <2> QED BY <2>1, <2>2, <2>3, <2>4 DEF RunSlot
<1>3. sends' = sends
  BY DEF RunSlot, ReviewIntentSend, AcceptIntentSend, DeclineIntentSend, SubmitSend
<1> QED BY <1>1, <1>2, <1>3 DEF RunSlot, viewVars, TypeOK

LEMMA PriceReturnsKeepsType ==
  ASSUME TypeOK, NEW call \in calls, PriceReturns(call)
  PROVE  TypeOK' /\ shown'.pending = shown.pending /\ shown'.review.app = shown.review.app
<1>1. call \in Calls /\ call.app \in Apps /\ call.slot \in Nat
  BY DEF TypeOK, PriceReturns, Calls
<1>2. shown' \in Published /\ shown'.pending = shown.pending /\ shown'.review.app = shown.review.app
  <2>1. shown \in Published /\ shown.review \in Reviews
    BY DEF TypeOK, Published
  <2>2. PriceFor(call.app) \in Published
    BY <1>1, PriceForTyped
  <2>3. PriceFor(call.app).pending = shown.pending
    BY <2>1 DEF PriceFor, Published
  <2>4. PriceFor(call.app).review.app = shown.review.app
    <3>1. PriceFor(call.app).review
            = IF shown.review.app = call.app THEN [shown.review EXCEPT !.fee = call.app] ELSE shown.review
      BY <2>1 DEF PriceFor, Published
    <3>2. [shown.review EXCEPT !.fee = call.app].app = shown.review.app
      BY <2>1 DEF Reviews, NoReview
    <3> QED BY <3>1, <3>2
  <2> QED BY <2>1, <2>2, <2>3, <2>4 DEF PriceReturns
<1>3. toView' \in Seq(Updates)
  BY <1>2, ToViewTyped DEF PriceReturns
<1>4. priceClaim' \in Claims(Nat, 1)
  BY <1>1, ClaimChanges DEF PriceReturns, TypeOK
<1> QED BY <1>2, <1>3, <1>4 DEF PriceReturns, viewVars, TypeOK

LEMMA PendTyped ==
  ASSUME TypeOK, NEW by \in Apps \cup {Own}, NEW closed \in Reviews, Hand(by, TRUE), Pend(closed)
  PROVE  /\ shown' \in Published /\ toView' \in Seq(Updates)
         /\ sends' \in Seq([by : Apps \cup {Own}, heard : BOOLEAN, over : BOOLEAN])
         /\ shown'.pending <= Len(sends')
<1>1. /\ sends' \in Seq([by : Apps \cup {Own}, heard : BOOLEAN, over : BOOLEAN])
      /\ Len(sends') = Len(sends) + 1 /\ Len(sends) \in Nat
  BY HandTyped
<1>2. shown' = [shown EXCEPT !.outcome = 0, !.pending = Len(sends'), !.review = closed]
  BY <1>1 DEF Pend, NoSend
<1>3. Len(sends') \in Nat /\ shown \in Published
  BY <1>1 DEF TypeOK
<1>4. shown' \in Published /\ shown'.pending = Len(sends')
  BY <1>2, <1>3, ShownChanges
<1> QED BY <1>1, <1>3, <1>4, ToViewTyped DEF Pend

LEMMA AcceptReturnsKeepsType ==
  ASSUME TypeOK, NEW call \in calls, AcceptReturns(call)
  PROVE  TypeOK'
<1>1. /\ call.app \in Apps /\ call.app \in Apps \cup {Own} /\ call.slot \in Nat
      /\ calls' \subseteq Calls /\ shown \in Published /\ shown.pending <= Len(sends)
  BY DEF TypeOK, AcceptReturns, Calls
<1>2. acceptClaim' \in Claims(Nat, 1)
  BY <1>1, ClaimChanges DEF AcceptReturns, TypeOK
<1>3. (UNCHANGED sends \/ Hand(call.app, FALSE)) =>
         /\ sends' \in Seq([by : Apps \cup {Own}, heard : BOOLEAN, over : BOOLEAN])
         /\ shown.pending <= Len(sends')
  BY <1>1, StillKnown
<1>4. CASE Hand(call.app, TRUE) /\ Pend(NoReview) /\ UNCHANGED used
  <2>1. NoReview \in Reviews
    BY DEF Reviews
  <2> QED BY <1>1, <1>2, <1>4, <2>1, PendTyped DEF AcceptReturns, viewVars, TypeOK
<1>5. CASE /\ Spend("faults", MaxFaults)
           /\ UNCHANGED sends \/ Hand(call.app, FALSE)
           /\ shown' = [shown EXCEPT !.review = [@ EXCEPT !.up = TRUE]]
           /\ toView' = toView \o Update("review")
  <2>1. [shown.review EXCEPT !.up = TRUE] \in Reviews
    BY <1>1, ChangedReviews DEF Published
  <2>2. shown' \in Published /\ shown'.pending = shown.pending
    BY <1>1, <1>5, <2>1 DEF Published
  <2>3. toView' \in Seq(Updates)
    BY <1>5, <2>2, ToViewTyped
  <2>4. shown'.pending <= Len(sends')
    BY <1>3, <1>5, <2>2
  <2>5. used' \in [clicks : Nat, faults : Nat]
    BY <1>5, SpendTyped
  <2> QED BY <1>1, <1>2, <1>3, <1>5, <2>2, <2>3, <2>4, <2>5 DEF AcceptReturns, viewVars, TypeOK
<1>6. CASE /\ UNCHANGED sends \/ Hand(call.app, FALSE)
           /\ UNCHANGED <<shown, toView, used>>
  <2>1. shown'.pending <= Len(sends')
    BY <1>3, <1>6
  <2> QED BY <1>1, <1>2, <1>3, <1>6, <2>1 DEF AcceptReturns, viewVars, TypeOK
<1> QED BY <1>4, <1>5, <1>6 DEF AcceptReturns

LEMMA SubmitReturnsKeepsType ==
  ASSUME TypeOK, NEW call \in calls, SubmitReturns(call)
  PROVE  TypeOK'
<1>1. shown.review \in Reviews
  BY DEF TypeOK, Published
<1>2. CASE Hand(Own, TRUE) /\ Pend(shown.review)
  BY <1>1, <1>2, PendTyped DEF SubmitReturns, viewVars, TypeOK
<1>3. CASE UNCHANGED <<shown, toView, sends>>
  BY <1>3 DEF SubmitReturns, viewVars, TypeOK
<1> QED BY <1>2, <1>3 DEF SubmitReturns

LEMMA LateKeepsType ==
  ASSUME TypeOK, NEW call \in calls, Late(call)
  PROVE  TypeOK'
<1>1. priceClaim' \in Claims(Nat, 1) /\ acceptClaim' \in Claims(Nat, 1)
  BY ClaimChanges DEF Late, TypeOK
<1>2. /\ sends' \in Seq([by : Apps \cup {Own}, heard : BOOLEAN, over : BOOLEAN])
      /\ shown.pending <= Len(sends')
  <2>1. call.op = "accept" => call.app \in Apps \cup {Own}
    BY DEF TypeOK, Calls
  <2>2. CASE UNCHANGED sends
    BY <2>2 DEF TypeOK
  <2>3. CASE call.op = "accept" /\ Hand(call.app, FALSE)
    BY <2>1, <2>3, StillKnown
  <2> QED BY <2>2, <2>3 DEF Late
<1>3. shown'.pending <= Len(sends')
  BY <1>2 DEF Late
<1>4. used' \in [clicks : Nat, faults : Nat] /\ calls' \subseteq Calls
  BY SpendTyped DEF Late, TypeOK
<1> QED BY <1>1, <1>2, <1>3, <1>4 DEF Late, viewVars, TypeOK

LEMMA BackendKeepsType == TypeOK /\ (PriceTimer \/ PollSend) => TypeOK'
<1>1. ASSUME TypeOK, PriceTimer PROVE TypeOK'
  <2>1. shown' \in Published /\ shown'.pending = shown.pending
    BY <1>1 DEF PriceTimer, TypeOK, Published
  <2> QED BY <1>1, <2>1, ToViewTyped DEF PriceTimer, viewVars, claimVars, TypeOK
<1>2. ASSUME TypeOK, PollSend PROVE TypeOK'
  <2>1. shown' \in Published /\ shown'.pending = 0
    BY <1>2 DEF PollSend, TypeOK, Published, NoSend
  <2> QED BY <1>2, <2>1, ToViewTyped DEF PollSend, viewVars, claimVars, TypeOK
<1> QED BY <1>1, <1>2

LEMMA IntentRequestedKeepsType ==
  ASSUME TypeOK, NEW a \in Apps, IntentRequested(a) PROVE TypeOK'
<1>1. Call("review", a) \in Slots
  BY DEF Call, Slots
<1>2. toBackend' \in Seq(Slots)
  BY <1>1, Appends DEF IntentRequested, TypeOK
<1>3. told' \in [Apps -> [how : {"unasked", "waiting", "cancelled", "refused", "settled"}, send : Nat]]
  BY DEF IntentRequested, TypeOK, NoSend
<1> QED BY <1>2, <1>3 DEF IntentRequested, claimVars, TypeOK

LEMMA ClicksKeepType == TypeOK /\ (Confirm \/ Decline \/ ConfirmOwn) => TypeOK'
<1>1. \A slot \in {"accept", "decline", "submit"} : Call(slot, NoApp) \in Slots
  BY DEF Call, Slots
<1>2. ASSUME TypeOK, Confirm PROVE TypeOK'
  <2>1. toBackend' \in Seq(Slots) /\ used' \in [clicks : Nat, faults : Nat]
    BY <1>1, <1>2, Appends, SpendTyped DEF Confirm, TypeOK
  <2> QED BY <1>2, <2>1 DEF Confirm, claimVars, TypeOK
<1>3. ASSUME TypeOK, Decline PROVE TypeOK'
  <2>1. toBackend' \in Seq(Slots) /\ used' \in [clicks : Nat, faults : Nat]
    BY <1>1, <1>3, Appends, SpendTyped DEF Decline, TypeOK
  <2>2. /\ serving' \in Apps \cup {NoApp}
        /\ told' \in [Apps -> [how : {"unasked", "waiting", "cancelled", "refused", "settled"}, send : Nat]]
    BY <1>3, AnswerTyped DEF Decline, NoSend
  <2> QED BY <1>3, <2>1, <2>2 DEF Decline, claimVars, TypeOK
<1>4. ASSUME TypeOK, ConfirmOwn PROVE TypeOK'
  <2>1. toBackend' \in Seq(Slots) /\ used' \in [clicks : Nat, faults : Nat]
    BY <1>1, <1>4, Appends, SpendTyped DEF ConfirmOwn, TypeOK
  <2> QED BY <1>4, <2>1 DEF ConfirmOwn, viewVars, claimVars, TypeOK
<1> QED BY <1>2, <1>3, <1>4

LEMMA PropertyChangedKeepsType == TypeOK /\ PropertyChanged => TypeOK'
<1> SUFFICES ASSUME TypeOK, PropertyChanged PROVE TypeOK'
  OBVIOUS
<1> DEFINE update == Head(toView)
<1>1. update \in Updates /\ toView' \in Seq(Updates)
  BY Tails DEF TypeOK, PropertyChanged
<1>2. seen' \in Published
  <2>1. seen \in Published /\ seen' = [seen EXCEPT ![update.prop] = update.value]
    BY DEF TypeOK, PropertyChanged
  <2>2. CASE update \in [prop : {"pending", "outcome"}, value : Nat]
    BY <2>1, <2>2 DEF Published
  <2>3. CASE update \in [prop : {"review"}, value : Reviews]
    BY <2>1, <2>3 DEF Published
  <2>4. CASE update \in [prop : {"pricing"}, value : BOOLEAN]
    BY <2>1, <2>4 DEF Published
  <2> QED BY <1>1, <2>2, <2>3, <2>4 DEF Updates
<1>3. /\ serving' \in Apps \cup {NoApp}
      /\ told' \in [Apps -> [how : {"unasked", "waiting", "cancelled", "refused", "settled"}, send : Nat]]
      /\ toBackend' \in Seq(Slots)
  <2>1. Call("decline", NoApp) \in Slots
    BY DEF Call, Slots
  <2>2. CASE AnswerIntent("settled", seen'.outcome) /\ UNCHANGED toBackend
    BY <1>2, <2>2, AnswerTyped DEF TypeOK, Published
  <2>3. CASE AnswerIntent("refused", NoSend) /\ toBackend' = Append(toBackend, Call("decline", NoApp))
    BY <2>1, <2>3, AnswerTyped, Appends DEF TypeOK, NoSend
  <2>4. CASE UNCHANGED <<serving, told, toBackend>>
    BY <2>4 DEF TypeOK
  <2> QED BY <2>2, <2>3, <2>4 DEF PropertyChanged
<1> QED BY <1>1, <1>2, <1>3 DEF PropertyChanged, claimVars, TypeOK

LEMMA WorldKeepsType ==
  TypeOK /\ (WalletMoves \/ \E i \in DOMAIN sends : SenderSettles(i)) => TypeOK'
<1>1. ASSUME TypeOK, WalletMoves PROVE TypeOK'
  BY <1>1, SpendTyped DEF WalletMoves, viewVars, claimVars, TypeOK
<1>2. ASSUME TypeOK, NEW i \in DOMAIN sends, SenderSettles(i) PROVE TypeOK'
  <2>1. /\ sends' \in Seq([by : Apps \cup {Own}, heard : BOOLEAN, over : BOOLEAN])
        /\ Len(sends') = Len(sends)
    <3> DEFINE Sent == [by : Apps \cup {Own}, heard : BOOLEAN, over : BOOLEAN]
    <3>1. sends \in Seq(Sent)
      BY <1>2 DEF TypeOK
    <3>2. sends[i] \in Sent
      BY <1>2, <3>1, ElementIn
    <3>3. [sends[i] EXCEPT !.over = TRUE] \in Sent
      BY <3>2
    <3>4. sends' = [sends EXCEPT ![i] = [sends[i] EXCEPT !.over = TRUE]]
      BY <1>2 DEF SenderSettles
    <3> HIDE DEF Sent
    <3>5. sends' \in Seq(Sent) /\ Len(sends') = Len(sends)
      BY <1>2, <3>1, <3>3, <3>4, ReplaceIn
    <3> QED BY <3>5 DEF Sent
  <2> QED BY <1>2, <2>1 DEF SenderSettles, viewVars, claimVars, TypeOK
<1> QED BY <1>1, <1>2

LEMMA StutterKeepsType == TypeOK /\ UNCHANGED vars => TypeOK'
BY DEF vars, viewVars, claimVars, TypeOK

(* The types hold in every reachable state. *)
THEOREM TypeStep == TypeOK /\ [Next]_vars => TypeOK'
BY RunSlotKeepsType, PriceReturnsKeepsType, AcceptReturnsKeepsType, SubmitReturnsKeepsType,
   LateKeepsType, BackendKeepsType, IntentRequestedKeepsType, ClicksKeepType,
   PropertyChangedKeepsType, WorldKeepsType, StutterKeepsType
DEF Next, Returns

THEOREM TypeCorrect == Spec => []TypeOK
BY TypeInit, TypeStep, PTL DEF Spec

-----------------------------------------------------------------------------
(***************************************************************************)
(* A request becomes one send.  A request is asked for once, and its slot  *)
(* reaches the backend once; from then on it is on the review, in the call *)
(* of the acceptance in force, or handed over, and a request handed over   *)
(* is in neither of the others: Pend takes its review away as its send is  *)
(* noted, and nothing puts it back.                                        *)
(***************************************************************************)
Handed(a) == \E i \in DOMAIN sends : sends[i].by = a /\ sends[i].heard

AskedFor(a) == \E i \in DOMAIN toBackend : toBackend[i] = Call("review", a)

OutNow(call) == call.op = "accept" /\ call.slot = acceptClaim.ticket

Unreviewed(a) == told[a].how = "unasked" \/ AskedFor(a)

AskedForOnce ==
  \A a \in Apps :
    /\ told[a].how = "unasked" => ~AskedFor(a)
    /\ \A i, j \in DOMAIN toBackend :
         toBackend[i] = Call("review", a) /\ toBackend[j] = Call("review", a) => i = j

OneCallInForce ==
  \A c, d \in calls :
    /\ c.op = "accept" => c.slot <= acceptClaim.ticket
    /\ OutNow(c) /\ OutNow(d) => c = d

Gone(a) ==
  /\ shown.review.app # a
  /\ \A call \in calls : OutNow(call) => call.app # a

HandedIsGone ==
  \A a \in Apps :
    /\ Handed(a) => Gone(a)
    /\ Unreviewed(a) => Gone(a) /\ ~Handed(a)

SentInv == TypeOK /\ AskedForOnce /\ OneCallInForce /\ HandedIsGone /\ SentOnce

LEMMA SentInit == Init => SentInv
BY TypeInit, IntentSendAssumption
DEF Init, SentInv, AskedForOnce, AskedFor, OneCallInForce, HandedIsGone, Handed, Unreviewed, Gone,
    OutNow, SentOnce, NoReview

(* A slot run is off the queue, the only one for its request.                *)
LEMMA SlotTaken ==
  ASSUME TypeOK, AskedForOnce, toBackend # <<>>, toBackend' = Tail(toBackend), told' = told
  PROVE  /\ AskedForOnce'
         /\ \A a \in Apps : Unreviewed(a)' => Unreviewed(a)
         /\ \A a \in Apps : Head(toBackend) = Call("review", a) =>
              Unreviewed(a) /\ ~Unreviewed(a)'
<1>1. /\ toBackend \in Seq(Slots) /\ Len(toBackend') = Len(toBackend) - 1
      /\ \A i \in DOMAIN toBackend' : i + 1 \in DOMAIN toBackend /\ toBackend'[i] = toBackend[i + 1]
      /\ DOMAIN toBackend' \subseteq Nat \ {0}
      /\ 1 \in DOMAIN toBackend /\ Head(toBackend) = toBackend[1]
  BY DEF TypeOK
<1>2. \A a \in Apps : AskedFor(a)' => AskedFor(a)
  BY <1>1 DEF AskedFor, Call
<1>3. AskedForOnce'
  <2> SUFFICES ASSUME NEW a \in Apps
               PROVE  /\ told'[a].how = "unasked" => ~AskedFor(a)'
                      /\ \A i, j \in DOMAIN toBackend' :
                           toBackend'[i] = Call("review", a) /\ toBackend'[j] = Call("review", a) => i = j
    BY DEF AskedForOnce, Call
  <2>1. told'[a].how = "unasked" => ~AskedFor(a)'
    BY <1>2 DEF AskedForOnce
  <2>2. ASSUME NEW i \in DOMAIN toBackend', NEW j \in DOMAIN toBackend',
               toBackend'[i] = Call("review", a), toBackend'[j] = Call("review", a)
        PROVE  i = j
    <3>1. i + 1 = j + 1
      BY <1>1, <2>2 DEF AskedForOnce
    <3> QED BY <1>1, <3>1
  <2> QED BY <2>1, <2>2
<1>4. ASSUME NEW a \in Apps, Head(toBackend) = Call("review", a)
      PROVE  AskedFor(a) /\ ~AskedFor(a)'
  <2>1. AskedFor(a)
    BY <1>1, <1>4 DEF AskedFor
  <2>2. ASSUME NEW i \in DOMAIN toBackend', toBackend'[i] = Call("review", a)
        PROVE  FALSE
    <3>1. i + 1 = 1
      BY <1>1, <1>4, <2>2 DEF AskedForOnce
    <3> QED BY <1>1, <3>1
  <2> QED BY <2>1, <2>2 DEF AskedFor, Call
<1> QED BY <1>2, <1>3, <1>4 DEF Unreviewed, AskedForOnce

(* A slot that is not a request's changes nothing for any.                   *)
LEMMA SlotAdded ==
  ASSUME TypeOK, AskedForOnce, NEW slot \in {"accept", "decline", "submit"},
         toBackend' = Append(toBackend, Call(slot, NoApp)) \/ UNCHANGED toBackend,
         \A a \in Apps : told'[a].how = "unasked" => told[a].how = "unasked"
  PROVE  AskedForOnce' /\ \A a \in Apps : Unreviewed(a)' => Unreviewed(a)
<1>1. \A i \in DOMAIN toBackend', a \in Apps : toBackend'[i] = Call("review", a) =>
        i \in DOMAIN toBackend /\ toBackend[i] = Call("review", a)
  <2>1. \A a \in Apps : Call(slot, NoApp) # Call("review", a)
    BY DEF Call
  <2>2. CASE toBackend' = Append(toBackend, Call(slot, NoApp))
    BY <2>1, <2>2 DEF TypeOK
  <2>3. CASE UNCHANGED toBackend
    BY <2>3
  <2> QED BY <2>2, <2>3
<1>2. \A a \in Apps : AskedFor(a)' => AskedFor(a)
  BY <1>1 DEF AskedFor, Call
<1>3. \A a \in Apps, i, j \in DOMAIN toBackend' :
        toBackend'[i] = Call("review", a) /\ toBackend'[j] = Call("review", a) => i = j
  BY <1>1 DEF AskedForOnce
<1> QED BY <1>2, <1>3 DEF AskedForOnce, Unreviewed, Call

LEMMA RequestAdded ==
  ASSUME TypeOK, AskedForOnce, NEW a \in Apps, IntentRequested(a)
  PROVE  AskedForOnce' /\ \A b \in Apps : Unreviewed(b)' => Unreviewed(b)
<1>1. /\ toBackend \in Seq(Slots) /\ toBackend' = Append(toBackend, Call("review", a))
      /\ told \in [Apps -> [how : {"unasked", "waiting", "cancelled", "refused", "settled"}, send : Nat]]
      /\ told[a].how = "unasked" /\ ~AskedFor(a)
  BY DEF TypeOK, IntentRequested, AskedForOnce
<1>2. told'[a].how # "unasked" /\ \A b \in Apps : told'[b].how = "unasked" => told[b].how = "unasked"
  BY <1>1 DEF IntentRequested
<1>3. \A i \in DOMAIN toBackend', b \in Apps : toBackend'[i] = Call("review", b) =>
        \/ i \in DOMAIN toBackend /\ toBackend[i] = Call("review", b)
        \/ i = Len(toBackend) + 1 /\ b = a
  <2>1. \A b \in Apps : Call("review", b) = Call("review", a) => b = a
    BY DEF Call
  <2> QED BY <1>1, <2>1
<1>4. \A b \in Apps : AskedFor(b)' => AskedFor(b) \/ b = a
  BY <1>3 DEF AskedFor, Call
<1>5. \A b \in Apps, i, j \in DOMAIN toBackend' :
        toBackend'[i] = Call("review", b) /\ toBackend'[j] = Call("review", b) => i = j
  BY <1>1, <1>3 DEF AskedForOnce, AskedFor
<1> QED BY <1>1, <1>2, <1>4, <1>5 DEF AskedForOnce, Unreviewed, Call

NoneHeard ==
  \A i \in DOMAIN sends' : sends'[i].heard /\ sends'[i].by \in Apps =>
    i \in DOMAIN sends /\ sends[i].heard /\ sends[i].by = sends'[i].by

LEMMA HeardBefore ==
  NoneHeard => /\ \A a \in Apps : Handed(a)' => Handed(a)
               /\ SentOnce => SentOnce'
<1> SUFFICES ASSUME NoneHeard
             PROVE  /\ \A a \in Apps : Handed(a)' => Handed(a)
                    /\ SentOnce => SentOnce'
  OBVIOUS
<1>1. \A a \in Apps : Handed(a)' => Handed(a)
  BY DEF Handed, NoneHeard
<1>2. SentOnce => SentOnce'
  <2> SUFFICES ASSUME SentOnce, NEW i \in DOMAIN sends', NEW j \in DOMAIN sends',
                      sends'[i].by \in Apps, sends'[i].by = sends'[j].by,
                      sends'[i].heard, sends'[j].heard
               PROVE  i = j
    BY DEF SentOnce
  <2>1. /\ i \in DOMAIN sends /\ sends[i].heard /\ sends[i].by = sends'[i].by
        /\ j \in DOMAIN sends /\ sends[j].heard /\ sends[j].by = sends'[j].by
    BY DEF NoneHeard
  <2> QED BY <2>1 DEF SentOnce
<1> QED BY <1>1, <1>2

LEMMA UnheardHand ==
  ASSUME TypeOK, NEW by, NEW heard, ~heard \/ by \notin Apps, Hand(by, heard) \/ UNCHANGED sends
  PROVE  NoneHeard
<1>1. CASE UNCHANGED sends
  BY <1>1 DEF NoneHeard
<1>2. CASE Hand(by, heard)
  <2>1. /\ DOMAIN sends' = 1 .. Len(sends) + 1 /\ DOMAIN sends = 1 .. Len(sends) /\ Len(sends) \in Nat
        /\ \A i \in DOMAIN sends : sends'[i] = sends[i]
        /\ sends'[Len(sends) + 1] = [by |-> by, heard |-> heard, over |-> FALSE]
    BY <1>2 DEF TypeOK, Hand
  <2> HIDE <1>2
  <2>2. ASSUME NEW i \in DOMAIN sends', sends'[i].heard, sends'[i].by \in Apps
        PROVE  i \in DOMAIN sends
    <3>1. CASE i = Len(sends) + 1
      <4>1. sends'[i].heard = heard /\ sends'[i].by = by
        BY <2>1, <3>1
      <4> QED BY <2>2, <4>1
    <3>2. CASE i # Len(sends) + 1
      BY <2>1, <2>2, <3>2
    <3> QED BY <3>1, <3>2
  <2> QED BY <2>1, <2>2 DEF NoneHeard
<1> QED BY <1>1, <1>2

(* A step that puts no request on the review, calls for no acceptance and    *)
(* hears of no send leaves every request where it was, or nearer its end.    *)
LEMMA Quiet ==
  ASSUME SentInv, NoneHeard,
         shown'.review.app \in {shown.review.app, NoApp},
         \A call \in calls' : call.op = "accept" => call \in calls,
         acceptClaim'.ticket = acceptClaim.ticket,
         \A a \in Apps : Unreviewed(a)' => Unreviewed(a)
  PROVE  OneCallInForce' /\ HandedIsGone' /\ SentOnce'
<1>1. \A call \in calls' : OutNow(call)' => call \in calls /\ OutNow(call)
  BY DEF OutNow
<1>2. OneCallInForce'
  BY <1>1 DEF SentInv, OneCallInForce
<1>3. \A a \in Apps : Gone(a) => Gone(a)'
  BY <1>1, IntentSendAssumption DEF Gone
<1>4. HandedIsGone'
  BY <1>3, HeardBefore DEF SentInv, HandedIsGone
<1> QED BY <1>2, <1>4, HeardBefore DEF SentInv

LEMMA AppOfReview ==
  ASSUME TypeOK
  PROVE  /\ shown \in Published
         /\ \A a : Review(a).app = a /\ Refusal(a).app = a
         /\ NoReview.app = NoApp
         /\ [shown EXCEPT !.review = [@ EXCEPT !.error = TRUE]].review.app = shown.review.app
         /\ [shown EXCEPT !.review = [@ EXCEPT !.up = TRUE]].review.app = shown.review.app
<1>1. shown \in Published /\ shown.review \in Reviews
  BY DEF TypeOK, Published
<1>2. [shown.review EXCEPT !.error = TRUE].app = shown.review.app
  BY <1>1 DEF Reviews, NoReview
<1>3. [shown.review EXCEPT !.up = TRUE].app = shown.review.app
  BY <1>1 DEF Reviews, NoReview
<1> QED BY <1>1, <1>2, <1>3 DEF Review, Refusal, NoReview, Published

(* A review that comes up is of a request whose slot was still to run.       *)
LEMMA ReviewKeepsSent ==
  ASSUME SentInv, NEW a \in Apps \cup {NoApp}, ReviewIntentSend(a),
         \A b \in Apps : Unreviewed(b)' => Unreviewed(b),
         a \in Apps => Unreviewed(a) /\ ~Unreviewed(a)'
  PROVE  OneCallInForce' /\ HandedIsGone' /\ SentOnce'
<1>1. shown'.review.app = a
  BY AppOfReview DEF SentInv, ReviewIntentSend, Refuse, Published
<1>2. /\ \A call \in calls' : call.op = "accept" => call \in calls
      /\ acceptClaim' = acceptClaim /\ sends' = sends
  BY DEF ReviewIntentSend, claimVars
<1>3. NoneHeard
  BY <1>2 DEF NoneHeard
<1>4. \A call \in calls' : OutNow(call)' => call \in calls /\ OutNow(call)
  BY <1>2 DEF OutNow
<1>5. OneCallInForce'
  BY <1>2, <1>4 DEF SentInv, OneCallInForce
<1>6. \A b \in Apps : Gone(b) /\ b # a => Gone(b)'
  BY <1>1, <1>4 DEF Gone
<1>7. HandedIsGone'
  BY <1>3, <1>6, HeardBefore DEF SentInv, HandedIsGone
<1> QED BY <1>3, <1>5, <1>7, HeardBefore DEF SentInv

(* The call of an acceptance is of the request on the review, handed over by *)
(* none before it, and outdates every acceptance still out.                  *)
LEMMA AcceptKeepsSent ==
  ASSUME SentInv, AcceptIntentSend, \A b \in Apps : Unreviewed(b)' => Unreviewed(b)
  PROVE  OneCallInForce' /\ HandedIsGone' /\ SentOnce'
<1> DEFINE a == shown.review.app
           free == Open(shown.review) /\ ~Busy(acceptClaim)
           claim == Taken(acceptClaim, 1)
<1>1. /\ acceptClaim \in Claims(Nat, 1) /\ acceptClaim.ticket \in Nat
      /\ claim \in Claims(Nat, 1) /\ claim.ticket = acceptClaim.ticket + 1
      /\ Released(claim, claim.ticket).ticket = claim.ticket
  BY ClaimChanges DEF SentInv, TypeOK
<1>2. NoneHeard
  BY DEF NoneHeard, AcceptIntentSend
<1>3. CASE ~free /\ UNCHANGED <<shown, toView, acceptClaim, calls>>
  BY <1>2, <1>3, Quiet
<1>4. CASE free /\ ~UNCHANGED acceptClaim
  <2>1. acceptClaim'.ticket = acceptClaim.ticket + 1
    BY <1>1, <1>4 DEF AcceptIntentSend
  <2>2. shown'.review.app = a
    BY <1>4, AppOfReview DEF SentInv, AcceptIntentSend
  <2>3. \/ calls' = calls
        \/ a \in Apps /\ calls' = calls \cup {[op |-> "accept", app |-> a, slot |-> claim.ticket]}
    BY <1>4 DEF AcceptIntentSend, Checks, SentInv, TypeOK
  <2>4. \A call \in calls : call.op = "accept" => call.slot \in Nat /\ call.slot < acceptClaim'.ticket
    BY <1>1, <2>1 DEF SentInv, TypeOK, Calls, OneCallInForce
  <2>5. \A call \in calls' : OutNow(call)' => 
          call = [op |-> "accept", app |-> a, slot |-> claim.ticket] /\ call.app = a
    BY <2>3, <2>4 DEF OutNow
  <2>6. OneCallInForce'
    BY <1>1, <2>1, <2>3, <2>4, <2>5 DEF OneCallInForce
  <2>7. \A b \in Apps : Gone(b) => Gone(b)'
    BY <2>2, <2>5 DEF Gone
  <2>8. HandedIsGone'
    BY <1>2, <2>7, HeardBefore DEF SentInv, HandedIsGone
  <2> QED BY <1>2, <2>6, <2>8, HeardBefore DEF SentInv
<1>5. free => ~UNCHANGED acceptClaim
  BY <1>1 DEF AcceptIntentSend
<1> QED BY <1>3, <1>4, <1>5 DEF AcceptIntentSend

(* The send of the acceptance in force: its call was the only one, and with  *)
(* it and the review gone nothing is left to hand that request over again.   *)
LEMMA SettledKeepsSent ==
  ASSUME SentInv, NEW call \in calls, AcceptReturns(call), OutNow(call),
         Hand(call.app, TRUE), Pend(NoReview), UNCHANGED <<toBackend, told>>
  PROVE  OneCallInForce' /\ HandedIsGone' /\ SentOnce'
<1>1. /\ shown'.review.app = NoApp /\ calls' = calls \ {call}
      /\ acceptClaim'.ticket = acceptClaim.ticket
  BY AppOfReview DEF AcceptReturns, Pend, Released, SentInv, TypeOK, Claims, Published
<1>2. \A c \in calls' : c \in calls /\ ~OutNow(c)'
  BY <1>1 DEF SentInv, OneCallInForce, OutNow
<1>3. OneCallInForce'
  BY <1>1, <1>2 DEF SentInv, OneCallInForce, OutNow
<1>4. \A b \in Apps : Gone(b)'
  BY <1>1, <1>2, IntentSendAssumption DEF Gone
<1>5. call.app \in Apps /\ ~Handed(call.app) /\ ~Unreviewed(call.app)
  BY DEF OutNow, SentInv, TypeOK, Calls, HandedIsGone, Gone
<1>6. /\ DOMAIN sends' = 1 .. Len(sends) + 1 /\ DOMAIN sends = 1 .. Len(sends) /\ Len(sends) \in Nat
      /\ \A i \in DOMAIN sends : sends'[i] = sends[i]
      /\ sends'[Len(sends) + 1] = [by |-> call.app, heard |-> TRUE, over |-> FALSE]
  BY DEF SentInv, TypeOK, Hand
<1>7. \A b \in Apps : Handed(b)' => Handed(b) \/ b = call.app
  BY <1>6 DEF Handed
<1>8. \A b \in Apps : Unreviewed(b)' => Unreviewed(b)
  BY DEF Unreviewed, AskedFor
<1>9. HandedIsGone'
  BY <1>4, <1>5, <1>7, <1>8 DEF SentInv, HandedIsGone
<1>10. SentOnce'
  BY <1>5, <1>6 DEF SentInv, SentOnce, Handed
<1> QED BY <1>3, <1>9, <1>10

(***************************************************************************)
(* The invariant of a request's one send, an action at a time.             *)
(***************************************************************************)
LEMMA RunSlotKeepsSent ==
  ASSUME SentInv, RunSlot
  PROVE  AskedForOnce' /\ OneCallInForce' /\ HandedIsGone' /\ SentOnce'
<1> DEFINE call == Head(toBackend)
<1>1. call \in Slots
  BY Tails DEF SentInv, TypeOK, RunSlot
<1>2. /\ AskedForOnce'
      /\ \A a \in Apps : Unreviewed(a)' => Unreviewed(a)
      /\ \A a \in Apps : call = Call("review", a) => Unreviewed(a) /\ ~Unreviewed(a)'
  BY SlotTaken DEF SentInv, RunSlot, viewVars
<1>3. CASE call.slot = "review" /\ ReviewIntentSend(call.app)
  <2>1. call = Call("review", call.app) /\ call.app \in Apps \cup {NoApp}
    BY <1>1, <1>3 DEF Slots, Call
  <2> QED BY <1>2, <1>3, <2>1, ReviewKeepsSent
<1>4. CASE call.slot = "accept" /\ AcceptIntentSend
  BY <1>2, <1>4, AcceptKeepsSent
<1>5. CASE call.slot = "decline" /\ DeclineIntentSend
  <2>1. shown'.review.app = NoApp
    BY <1>5, AppOfReview DEF DeclineIntentSend, Published, SentInv
  <2> QED BY <1>2, <1>5, <2>1, Quiet DEF DeclineIntentSend, claimVars, NoneHeard
<1>6. CASE call.slot = "submit" /\ SubmitSend
  BY <1>2, <1>6, Quiet DEF SubmitSend, NoneHeard
<1> QED BY <1>2, <1>3, <1>4, <1>5, <1>6 DEF RunSlot

LEMMA QueueUntouched ==
  ASSUME AskedForOnce, UNCHANGED <<toBackend, told>>
  PROVE  AskedForOnce' /\ \A a \in Apps : Unreviewed(a)' => Unreviewed(a)
BY DEF AskedForOnce, AskedFor, Unreviewed, Call

LEMMA AcceptReturnsKeepsSent ==
  ASSUME SentInv, NEW call \in calls, AcceptReturns(call)
  PROVE  AskedForOnce' /\ OneCallInForce' /\ HandedIsGone' /\ SentOnce'
<1>1. AskedForOnce' /\ \A a \in Apps : Unreviewed(a)' => Unreviewed(a)
  BY QueueUntouched DEF AcceptReturns, viewVars, SentInv
<1>2. acceptClaim'.ticket = acceptClaim.ticket
  BY DEF AcceptReturns, Released, SentInv, TypeOK, Claims
<1>3. CASE IsCurrent(acceptClaim, call.slot) /\ Hand(call.app, TRUE) /\ Pend(NoReview)
  BY <1>1, <1>3, SettledKeepsSent DEF AcceptReturns, OutNow, IsCurrent, viewVars
<1>4. CASE /\ UNCHANGED sends \/ Hand(call.app, FALSE)
           /\ \/ shown' = [shown EXCEPT !.review = [@ EXCEPT !.up = TRUE]]
              \/ UNCHANGED shown
  <2>1. NoneHeard
    BY <1>4, UnheardHand DEF SentInv
  <2>2. shown'.review.app = shown.review.app
    BY <1>4, AppOfReview DEF SentInv
  <2> QED BY <1>1, <1>2, <2>1, <2>2, Quiet DEF AcceptReturns
<1> QED BY <1>3, <1>4 DEF AcceptReturns

LEMMA OtherReturnsKeepSent ==
  ASSUME SentInv, NEW call \in calls, PriceReturns(call) \/ SubmitReturns(call) \/ Late(call)
  PROVE  AskedForOnce' /\ OneCallInForce' /\ HandedIsGone' /\ SentOnce'
<1>1. AskedForOnce' /\ \A a \in Apps : Unreviewed(a)' => Unreviewed(a)
  BY QueueUntouched DEF PriceReturns, SubmitReturns, Late, viewVars, SentInv
<1>2. calls' \subseteq calls
  BY DEF PriceReturns, SubmitReturns, Late
<1>3. CASE PriceReturns(call)
  <2>1. shown'.review.app = shown.review.app
    BY <1>3, PriceReturnsKeepsType DEF SentInv
  <2> QED BY <1>1, <1>2, <1>3, <2>1, Quiet DEF PriceReturns, NoneHeard
<1>4. CASE SubmitReturns(call)
  <2>1. NoneHeard
    BY <1>4, UnheardHand, IntentSendAssumption DEF SubmitReturns, SentInv
  <2>2. shown'.review.app = shown.review.app
    BY <1>4, AppOfReview DEF SubmitReturns, Pend, Published, SentInv
  <2> QED BY <1>1, <1>2, <1>4, <2>1, <2>2, Quiet DEF SubmitReturns
<1>5. CASE Late(call)
  <2>1. NoneHeard
    BY <1>5, UnheardHand DEF Late, SentInv
  <2>2. acceptClaim'.ticket = acceptClaim.ticket
    BY <1>5, ClaimChanges DEF Late, SentInv, TypeOK
  <2>3. shown' = shown
    BY <1>5 DEF Late
  <2> QED BY <1>1, <1>2, <2>1, <2>2, <2>3, Quiet
<1> QED BY <1>3, <1>4, <1>5

LEMMA BackendKeepsSent ==
  ASSUME SentInv, PriceTimer \/ PollSend
  PROVE  AskedForOnce' /\ OneCallInForce' /\ HandedIsGone' /\ SentOnce'
<1>1. AskedForOnce' /\ \A a \in Apps : Unreviewed(a)' => Unreviewed(a)
  BY QueueUntouched DEF PriceTimer, PollSend, viewVars, SentInv
<1>2. shown'.review.app = shown.review.app
  BY AppOfReview DEF PriceTimer, PollSend, Published, SentInv
<1> QED BY <1>1, <1>2, Quiet DEF PriceTimer, PollSend, claimVars, NoneHeard

LEMMA ViewKeepsSent ==
  ASSUME SentInv,
         Confirm \/ Decline \/ ConfirmOwn \/ PropertyChanged \/ \E a \in Apps : IntentRequested(a)
  PROVE  AskedForOnce' /\ OneCallInForce' /\ HandedIsGone' /\ SentOnce'
<1>1. AskedForOnce' /\ \A a \in Apps : Unreviewed(a)' => Unreviewed(a)
  <2>1. CASE \E a \in Apps : IntentRequested(a)
    BY <2>1, RequestAdded DEF SentInv
  <2>2. ASSUME NEW how \in {"cancelled", "refused", "settled"}, NEW send, AnswerIntent(how, send)
        PROVE  \A a \in Apps : told'[a].how = "unasked" => told[a].how = "unasked"
    BY <2>2 DEF AnswerIntent
  <2>3. CASE Confirm \/ ConfirmOwn
    BY <2>3, SlotAdded DEF Confirm, ConfirmOwn, viewVars, SentInv
  <2>4. CASE Decline
    BY <2>2, <2>4, SlotAdded DEF Decline, SentInv
  <2>5. CASE PropertyChanged
    BY <2>2, <2>5, SlotAdded DEF PropertyChanged, SentInv
  <2> QED BY <2>1, <2>3, <2>4, <2>5
<1>2. UNCHANGED <<shown, claimVars, sends>>
  BY DEF Confirm, Decline, ConfirmOwn, PropertyChanged, IntentRequested
<1> QED BY <1>1, <1>2, Quiet DEF claimVars, NoneHeard

LEMMA WorldKeepsSent ==
  ASSUME SentInv, WalletMoves \/ (\E i \in DOMAIN sends : SenderSettles(i)) \/ UNCHANGED vars
  PROVE  AskedForOnce' /\ OneCallInForce' /\ HandedIsGone' /\ SentOnce'
<1>1. UNCHANGED <<shown, toBackend, told, claimVars>>
  BY DEF WalletMoves, SenderSettles, vars, viewVars
<1>2. AskedForOnce' /\ \A a \in Apps : Unreviewed(a)' => Unreviewed(a)
  BY <1>1, QueueUntouched DEF SentInv
<1>3. NoneHeard
  <2>1. ASSUME NEW i \in DOMAIN sends, SenderSettles(i)
        PROVE  NoneHeard
    <3>1. sends[i] \in [by : Apps \cup {Own}, heard : BOOLEAN, over : BOOLEAN]
      BY ElementIn DEF SentInv, TypeOK
    <3>2. sends' = [sends EXCEPT ![i] = [sends[i] EXCEPT !.over = TRUE]]
      BY <2>1 DEF SenderSettles
    <3>3. \A j \in DOMAIN sends' :
            j \in DOMAIN sends /\ sends'[j].heard = sends[j].heard /\ sends'[j].by = sends[j].by
      BY <3>1, <3>2 DEF SentInv, TypeOK
    <3> QED BY <3>3 DEF NoneHeard
  <2> QED BY <2>1 DEF WalletMoves, vars, NoneHeard
<1> QED BY <1>1, <1>2, <1>3, Quiet DEF claimVars

LEMMA SentStep == SentInv /\ [Next]_vars => SentInv'
<1> SUFFICES ASSUME SentInv, [Next]_vars PROVE SentInv'
  OBVIOUS
<1>1. TypeOK'
  BY TypeStep DEF SentInv
<1>2. AskedForOnce' /\ OneCallInForce' /\ HandedIsGone' /\ SentOnce'
  BY RunSlotKeepsSent, AcceptReturnsKeepsSent, OtherReturnsKeepSent, BackendKeepsSent,
     ViewKeepsSent, WorldKeepsSent
  DEF Next, Returns
<1> QED BY <1>1, <1>2 DEF SentInv

(* However often Confirm is clicked, however late the sender answers and     *)
(* whatever requests replace each other on the review, a request becomes one *)
(* send the wallet heard of (acceptIntentSend).                              *)
THEOREM SentOnceAlways == Spec => []SentOnce
<1>1. SentInv => SentOnce
  BY DEF SentInv
<1> QED BY SentInit, SentStep, <1>1, PTL DEF Spec

-----------------------------------------------------------------------------
(***************************************************************************)
(* The fee on a review.                                                    *)
(***************************************************************************)
LEMMA PriceForOwn ==
  ASSUME TypeOK, PriceIsOwn, NEW a \in Apps
  PROVE  PriceFor(a).review.fee \in {NoApp, PriceFor(a).review.app}
<1>1. shown \in Published /\ shown.review \in Reviews
  BY DEF TypeOK, Published
<1>2. PriceFor(a).review
        = IF shown.review.app = a THEN [shown.review EXCEPT !.fee = a] ELSE shown.review
  BY <1>1 DEF PriceFor, Published
<1>3. CASE shown.review.app = a
  <2>1. [shown.review EXCEPT !.fee = a].fee = a /\ [shown.review EXCEPT !.fee = a].app = a
    BY <1>1, <1>3 DEF Reviews, NoReview
  <2> QED BY <1>2, <1>3, <2>1
<1>4. CASE shown.review.app # a
  BY <1>2, <1>4 DEF PriceIsOwn
<1> QED BY <1>3, <1>4

LEMMA PriceStep == TypeOK /\ PriceIsOwn /\ [Next]_vars => PriceIsOwn'
<1> SUFFICES ASSUME TypeOK, PriceIsOwn, [Next]_vars PROVE PriceIsOwn'
  OBVIOUS
<1>1. shown \in Published /\ shown.review \in Reviews
  BY DEF TypeOK, Published
<1>2. /\ [shown.review EXCEPT !.error = TRUE].fee = shown.review.fee
      /\ [shown.review EXCEPT !.error = TRUE].app = shown.review.app
      /\ [shown.review EXCEPT !.up = TRUE].fee = shown.review.fee
      /\ [shown.review EXCEPT !.up = TRUE].app = shown.review.app
  BY <1>1 DEF Reviews, NoReview
<1>3. CASE RunSlot
  <2>1. ASSUME NEW a, ReviewIntentSend(a) PROVE shown'.review.fee = NoApp
    <3>1. shown' = [shown EXCEPT !.review = Refusal(a)] => shown'.review = Refusal(a)
      BY <1>1 DEF Published
    <3>2. shown' = [shown EXCEPT !.review = Review(a)] => shown'.review = Review(a)
      BY <1>1 DEF Published
    <3>3. shown' = [shown EXCEPT !.review = Review(a), !.pricing = TRUE] => shown'.review = Review(a)
      BY <1>1 DEF Published
    <3> QED BY <2>1, <3>1, <3>2, <3>3 DEF ReviewIntentSend, Refuse, Review, Refusal
  <2>2. CASE AcceptIntentSend
    BY <1>1, <1>2, <2>2 DEF AcceptIntentSend, PriceIsOwn, Published
  <2>3. CASE DeclineIntentSend
    BY <1>1, <2>3 DEF DeclineIntentSend, NoReview, PriceIsOwn, Published
  <2>4. CASE SubmitSend
    BY <2>4 DEF SubmitSend, PriceIsOwn
  <2> QED BY <1>3, <2>1, <2>2, <2>3, <2>4 DEF RunSlot, PriceIsOwn
<1>4. ASSUME NEW call \in calls, PriceReturns(call) PROVE PriceIsOwn'
  <2>1. call.app \in Apps
    BY <1>4 DEF PriceReturns, TypeOK, Calls
  <2> QED BY <1>4, <2>1, PriceForOwn DEF PriceReturns, PriceIsOwn
<1>5. ASSUME NEW call \in calls, AcceptReturns(call) PROVE PriceIsOwn'
  <2>1. CASE Pend(NoReview)
    BY <1>1, <2>1 DEF Pend, NoReview, PriceIsOwn, Published
  <2>2. CASE shown' = [shown EXCEPT !.review = [@ EXCEPT !.up = TRUE]]
    <3>1. shown'.review = [shown.review EXCEPT !.up = TRUE]
      BY <1>1, <2>2 DEF Published
    <3> QED BY <1>2, <3>1 DEF PriceIsOwn
  <2>3. CASE UNCHANGED shown
    BY <2>3 DEF PriceIsOwn
  <2> QED BY <1>5, <2>1, <2>2, <2>3 DEF AcceptReturns
<1>6. ASSUME NEW call \in calls, SubmitReturns(call) PROVE PriceIsOwn'
  BY <1>1, <1>6 DEF SubmitReturns, Pend, PriceIsOwn, Published
<1>7. CASE PriceTimer \/ PollSend
  BY <1>1, <1>7 DEF PriceTimer, PollSend, PriceIsOwn, Published
<1>8. CASE UNCHANGED shown
  BY <1>8 DEF PriceIsOwn
<1> QED BY <1>3, <1>4, <1>5, <1>6, <1>7, <1>8
  DEF Next, Returns, Late, IntentRequested, Confirm, Decline, ConfirmOwn, PropertyChanged,
      WalletMoves, SenderSettles, vars

(* Whichever prices are out when one request's review replaces another's,    *)
(* the fee it shows is its own (reviewIntentSend's callback).                *)
THEOREM PriceAlwaysOwn == Spec => []PriceIsOwn
<1>1. Init => PriceIsOwn
  BY DEF Init, PriceIsOwn, NoReview
<1> QED BY TypeInit, TypeStep, <1>1, PriceStep, PTL DEF Spec

-----------------------------------------------------------------------------
(***************************************************************************)
(* An app's answer: whoever is being served has had none.                  *)
(***************************************************************************)
ServedInv == serving # NoApp => told[serving].how = "waiting"

AnswerStands == \A a \in Apps : told[a].how \notin {"unasked", "waiting"} => told'[a] = told[a]

LEMMA ServedStep == TypeOK /\ ServedInv /\ [Next]_vars => ServedInv' /\ AnswerStands
<1> SUFFICES ASSUME TypeOK, ServedInv, [Next]_vars PROVE ServedInv' /\ AnswerStands
  OBVIOUS
<1>1. /\ told \in [Apps -> [how : {"unasked", "waiting", "cancelled", "refused", "settled"}, send : Nat]]
      /\ serving \in Apps \cup {NoApp}
  BY DEF TypeOK
<1>2. ASSUME NEW how, NEW send, AnswerIntent(how, send) PROVE ServedInv' /\ AnswerStands
  BY <1>1, <1>2, IntentSendAssumption DEF AnswerIntent, ServedInv, AnswerStands
<1>3. ASSUME NEW a \in Apps, IntentRequested(a) PROVE ServedInv' /\ AnswerStands
  BY <1>1, <1>3, IntentSendAssumption DEF IntentRequested, ServedInv, AnswerStands
<1>4. CASE UNCHANGED <<serving, told>>
  BY <1>4 DEF ServedInv, AnswerStands
<1> QED BY <1>2, <1>3, <1>4
  DEF Next, RunSlot, PropertyChanged, Returns, PriceReturns, AcceptReturns, SubmitReturns, Late,
      PriceTimer, PollSend, Confirm, Decline, ConfirmOwn, WalletMoves, SenderSettles, vars, viewVars

(* An app is answered once: its id is spent by the answer (answerIntent).    *)
THEOREM AnsweredOnceAlways == Spec => AnsweredOnce
<1>1. Init => ServedInv
  BY DEF Init, ServedInv
<1>2. TypeOK /\ ServedInv /\ [Next]_vars => [AnswerStands]_vars
  BY ServedStep
<1>3. AnsweredOnce <=> [][AnswerStands]_vars
  BY PTL DEF AnsweredOnce, AnswerStands
<1> QED BY TypeInit, TypeStep, <1>1, ServedStep, <1>2, <1>3, PTL DEF Spec

-----------------------------------------------------------------------------
(***************************************************************************)
(* An app that waits is not forgotten.  The view's replica, once it has    *)
(* been given the updates on their way, is what the backend published; the *)
(* last request or decline on its way to the backend is the request of the *)
(* app being served; and that app's request is on its way there, open on   *)
(* the review, being refused, being sent, or has a settlement on its way.  *)
(***************************************************************************)
Props == {"pending", "outcome", "review", "pricing"}

(* After the first k updates of q a view that showed `from` shows v as its p. *)
Reaches(from, q, p, v, k) ==
  \/ \E i \in 1 .. k :
       q[i].prop = p /\ q[i].value = v /\ \A j \in 1 .. k : j > i => q[j].prop # p
  \/ from[p] = v /\ \A j \in 1 .. k : q[j].prop # p

Longer(q, r) == Len(q) <= Len(r) /\ \A i \in 1 .. Len(q) : r[i] = q[i]

UpToDate == \A p \in Props : Reaches(seen, toView, p, shown[p], Len(toView))

LastWord ==
  serving # NoApp =>
    \A i \in DOMAIN toBackend : toBackend[i].slot \in {"review", "decline"} =>
      \E j \in DOMAIN toBackend : i <= j /\ toBackend[j] = Call("review", serving)

OnReview == Open(shown.review) /\ shown.review.app = serving

Refusing ==
  \E i \in DOMAIN toView :
    /\ toView[i].prop = "review"
    /\ toView[i].value.error /\ toView[i].value.app \in {NoApp, serving}

Sending ==
  /\ shown.pending # NoSend /\ ~Open(shown.review)
  /\ \A call \in calls : ~OutNow(call)

Settling ==
  \E k \in DOMAIN toView :
    /\ toView[k].prop = "pending" /\ toView[k].value = NoSend
    /\ \E o \in Nat : o # NoSend /\ Reaches(seen, toView, "outcome", o, k)
    /\ \E r \in Reviews : ~Open(r) /\ Reaches(seen, toView, "review", r, k)

Attended == serving # NoApp => AskedFor(serving) \/ OnReview \/ Refusing \/ Sending \/ Settling

AttendInv == SentInv /\ WaiterIsServed /\ UpToDate /\ LastWord /\ Attended

(* What a view reaches is not undone by updates that are sent later,         *)
LEMMA ReachesStill ==
  ASSUME NEW q \in Seq(Updates), NEW r \in Seq(Updates), Longer(q, r),
         NEW from, NEW p, NEW v, NEW k \in 0 .. Len(q), Reaches(from, q, p, v, k)
  PROVE  Reaches(from, r, p, v, k)
<1>1. \A i \in 1 .. k : r[i] = q[i]
  BY DEF Longer
<1> QED BY <1>1 DEF Reaches

(* is replaced by the next update of the same property,                      *)
LEMMA ReachesNext ==
  ASSUME NEW q \in Seq(Updates), NEW x \in Updates, NEW from, NEW p, NEW v,
         IF x.prop = p THEN x.value = v ELSE Reaches(from, q, p, v, Len(q))
  PROVE  Reaches(from, Append(q, x), p, v, Len(q) + 1)
<1>1. /\ Len(q) \in Nat /\ \A i \in 1 .. Len(q) : Append(q, x)[i] = q[i]
      /\ Append(q, x)[Len(q) + 1] = x
  OBVIOUS
<1>2. CASE x.prop = p
  BY <1>1, <1>2 DEF Reaches
<1>3. CASE x.prop # p
  <2>1. \A j \in 1 .. Len(q) + 1 : j \in 1 .. Len(q) \/ Append(q, x)[j].prop # p
    BY <1>1, <1>3
  <2>2. CASE from[p] = v /\ \A j \in 1 .. Len(q) : q[j].prop # p
    BY <1>1, <2>1, <2>2 DEF Reaches
  <2>3. ASSUME NEW i \in 1 .. Len(q), q[i].prop = p, q[i].value = v,
               \A j \in 1 .. Len(q) : j > i => q[j].prop # p
        PROVE  Reaches(from, Append(q, x), p, v, Len(q) + 1)
    <3>1. i \in 1 .. Len(q) + 1 /\ Append(q, x)[i].prop = p /\ Append(q, x)[i].value = v
      BY <1>1, <2>3
    <3>2. \A j \in 1 .. Len(q) + 1 : j > i => Append(q, x)[j].prop # p
      BY <1>1, <2>1, <2>3
    <3> QED BY <3>1, <3>2 DEF Reaches
  <2> QED BY <1>3, <2>2, <2>3 DEF Reaches
<1> QED BY <1>2, <1>3

(* and is as far off as before, less one, when the first of them is acted on. *)
LEMMA ReachesSooner ==
  ASSUME NEW q \in Seq(Updates), q # <<>>, NEW from, NEW to, NEW p, NEW v, NEW k \in 1 .. Len(q),
         to[p] = (IF q[1].prop = p THEN q[1].value ELSE from[p]),
         Reaches(from, q, p, v, k)
  PROVE  Reaches(to, Tail(q), p, v, k - 1)
<1>1. /\ Len(q) \in Nat /\ k - 1 \in Nat
      /\ \A i \in 1 .. k - 1 : i + 1 \in 1 .. k /\ Tail(q)[i] = q[i + 1]
  OBVIOUS
<1>2. CASE from[p] = v /\ \A j \in 1 .. k : q[j].prop # p
  BY <1>1, <1>2 DEF Reaches
<1>3. ASSUME NEW i \in 1 .. k, q[i].prop = p, q[i].value = v,
             \A j \in 1 .. k : j > i => q[j].prop # p
      PROVE  Reaches(to, Tail(q), p, v, k - 1)
  <2>1. CASE i = 1
    <3>1. to[p] = v
      BY <1>3, <2>1
    <3>2. \A j \in 1 .. k - 1 : Tail(q)[j].prop # p
      BY <1>1, <1>3, <2>1
    <3> QED BY <3>1, <3>2 DEF Reaches
  <2>2. CASE i # 1
    <3>1. i - 1 \in 1 .. k - 1 /\ Tail(q)[i - 1] = q[i]
      BY <1>1, <2>2
    <3>2. \A j \in 1 .. k - 1 : j > i - 1 => Tail(q)[j].prop # p
      BY <1>1, <1>3
    <3> QED BY <1>3, <3>1, <3>2 DEF Reaches
  <2> QED BY <2>1, <2>2
<1> QED BY <1>2, <1>3 DEF Reaches

(* A handler publishes its changes one by one: with `done` of them sent the  *)
(* replica is to reach the new values of these, the old ones of the rest.    *)
Reached(done, q) ==
  \A p \in Props : Reaches(seen, q, p, IF p \in done THEN shown'[p] ELSE shown[p], Len(q))

LEMMA ReachedMore ==
  ASSUME TypeOK, shown' \in Published, NEW done, NEW q \in Seq(Updates), Reached(done, q), NEW p \in Props
  PROVE  /\ q \o Update(p) \in Seq(Updates)
         /\ Longer(q, q \o Update(p))
         /\ Reached(done \cup {p}, q \o Update(p))
<1> DEFINE x == [prop |-> p, value |-> shown'[p]]
<1>1. Update(p) \in Seq(Updates)
  BY UpdateTyped DEF Props
<1>2. CASE shown'[p] = shown[p]
  <2>1. q \o Update(p) = q
    BY <1>2 DEF Update
  <2>2. Len(q) <= Len(q)
    OBVIOUS
  <2> QED BY <1>2, <2>1, <2>2 DEF Reached, Longer
<1>3. CASE shown'[p] # shown[p]
  <2>1. Update(p) = <<x>>
    BY <1>3 DEF Update
  <2>2. x \in Updates /\ q \o Update(p) = Append(q, x)
    BY <1>1, <2>1
  <2>3. /\ Append(q, x) \in Seq(Updates) /\ Len(Append(q, x)) = Len(q) + 1
        /\ Longer(q, Append(q, x))
    BY <2>2 DEF Longer
  <2>4. ASSUME NEW o \in Props
        PROVE  Reaches(seen, Append(q, x), o, IF o \in done \cup {p} THEN shown'[o] ELSE shown[o], Len(q) + 1)
    <3> DEFINE v == IF o \in done \cup {p} THEN shown'[o] ELSE shown[o]
    <3>1. CASE o = p
      <4>1. x.prop = o /\ x.value = v
        BY <3>1
      <4> QED BY <2>2, <4>1, ReachesNext
    <3>2. CASE o # p
      <4>1. x.prop # o /\ Reaches(seen, q, o, v, Len(q))
        BY <3>2 DEF Reached
      <4> HIDE DEF v
      <4>2. Reaches(seen, Append(q, x), o, v, Len(q) + 1)
        BY <2>2, <4>1, ReachesNext
      <4> QED BY <4>2 DEF v
    <3> QED BY <3>1, <3>2
  <2> QED BY <2>2, <2>3, <2>4 DEF Reached
<1> QED BY <1>2, <1>3

ChangesOnly(changed) == \A p \in Props : p \notin changed => shown'[p] = shown[p]

LEMMA LongerTwice ==
  ASSUME NEW q \in Seq(Updates), NEW r \in Seq(Updates), NEW s \in Seq(Updates),
         Longer(q, r), Longer(r, s)
  PROVE  Longer(q, s)
BY DEF Longer

(* A handler that sends on every property it changes leaves the replica      *)
(* catching up.                                                              *)
LEMMA Publishes ==
  ASSUME TypeOK, UpToDate, shown' \in Published, UNCHANGED seen,
         NEW p \in Props, NEW q \in Props, NEW r \in Props,
         \/ toView' = toView /\ ChangesOnly({})
         \/ toView' = toView \o Update(p) /\ ChangesOnly({p})
         \/ toView' = toView \o Update(p) \o Update(q) /\ ChangesOnly({p, q})
         \/ toView' = toView \o Update(p) \o Update(q) \o Update(r) /\ ChangesOnly({p, q, r})
  PROVE  UpToDate' /\ Longer(toView, toView')
<1> DEFINE one == toView \o Update(p)
           two == one \o Update(q)
           three == two \o Update(r)
<1>1. toView \in Seq(Updates) /\ Longer(toView, toView) /\ Reached({}, toView)
  BY DEF TypeOK, Longer, UpToDate, Reached
<1>2. one \in Seq(Updates) /\ Longer(toView, one) /\ Reached({p}, one)
  <2>1. {} \cup {p} = {p}
    OBVIOUS
  <2> QED BY <1>1, <2>1, ReachedMore
<1> HIDE DEF one
<1>3. two \in Seq(Updates) /\ Longer(toView, two) /\ Reached({p, q}, two)
  <2>1. {p} \cup {q} = {p, q}
    OBVIOUS
  <2>2. two \in Seq(Updates) /\ Longer(one, two) /\ Reached({p} \cup {q}, two)
    BY <1>2, ReachedMore
  <2> HIDE DEF two
  <2> QED BY <1>1, <1>2, <2>1, <2>2, LongerTwice
<1> HIDE DEF two
<1>4. three \in Seq(Updates) /\ Longer(toView, three) /\ Reached({p, q, r}, three)
  <2>1. {p, q} \cup {r} = {p, q, r}
    OBVIOUS
  <2>2. three \in Seq(Updates) /\ Longer(two, three) /\ Reached({p, q} \cup {r}, three)
    BY <1>3, ReachedMore
  <2> HIDE DEF three
  <2> QED BY <1>1, <1>3, <2>1, <2>2, LongerTwice
<1> HIDE DEF three
<1>5. ASSUME NEW changed, ChangesOnly(changed), Reached(changed, toView') PROVE UpToDate'
  <2>1. \A o \in Props : (IF o \in changed THEN shown'[o] ELSE shown[o]) = shown'[o]
    BY <1>5 DEF ChangesOnly
  <2> QED BY <1>5, <2>1 DEF Reached, UpToDate
<1>6. \/ toView' = toView /\ ChangesOnly({})
      \/ toView' = one /\ ChangesOnly({p})
      \/ toView' = two /\ ChangesOnly({p, q})
      \/ toView' = three /\ ChangesOnly({p, q, r})
  BY DEF one, two, three
<1> QED BY <1>1, <1>2, <1>3, <1>4, <1>5, <1>6

LEMMA RunSlotPublishes ==
  ASSUME TypeOK, UpToDate, TypeOK', RunSlot
  PROVE  UpToDate' /\ Longer(toView, toView')
<1>1. shown \in Published /\ shown' \in Published /\ UNCHANGED seen
  BY DEF TypeOK, RunSlot, viewVars
<1>2. \/ toView' = toView /\ ChangesOnly({})
      \/ toView' = toView \o Update("review") /\ ChangesOnly({"review"})
      \/ toView' = toView \o Update("review") \o Update("pricing") /\ ChangesOnly({"review", "pricing"})
      \/ toView' = toView \o Update("pricing") \o Update("review") /\ ChangesOnly({"pricing", "review"})
  <2>1. ASSUME NEW a, ReviewIntentSend(a)
        PROVE  \/ toView' = toView \o Update("review") /\ ChangesOnly({"review"})
               \/ /\ toView' = toView \o Update("review") \o Update("pricing")
                  /\ ChangesOnly({"review", "pricing"})
    BY <1>1, <2>1 DEF ReviewIntentSend, Refuse, ChangesOnly, Props, Published
  <2>2. CASE AcceptIntentSend
    BY <1>1, <2>2 DEF AcceptIntentSend, ChangesOnly, Props, Published
  <2>3. CASE DeclineIntentSend
    BY <1>1, <2>3 DEF DeclineIntentSend, ChangesOnly, Props, Published
  <2>4. CASE SubmitSend
    BY <2>4 DEF SubmitSend, ChangesOnly
  <2> QED BY <2>1, <2>2, <2>3, <2>4 DEF RunSlot
<1>3. "review" \in Props /\ "pricing" \in Props
  BY DEF Props
<1> QED BY <1>1, <1>2, <1>3, Publishes

LEMMA CallbackPublishes ==
  ASSUME TypeOK, UpToDate, TypeOK',
         (\E call \in calls : PriceReturns(call) \/ AcceptReturns(call) \/ SubmitReturns(call) \/ Late(call))
           \/ PriceTimer \/ PollSend
  PROVE  UpToDate' /\ Longer(toView, toView')
<1>1. shown \in Published /\ shown' \in Published
  BY DEF TypeOK
<1>2. UNCHANGED seen
  BY DEF PriceReturns, AcceptReturns, SubmitReturns, Late, PriceTimer, PollSend, viewVars
<1>3. {"pending", "outcome", "review", "pricing"} = Props
  BY DEF Props
<1>4. CASE \E call \in calls : PriceReturns(call)
  <2>1. ChangesOnly({"pricing", "review"})
    BY <1>1, <1>4 DEF PriceReturns, PriceFor, ChangesOnly, Props, Published
  <2>2. toView' = toView \o Update("pricing") \o Update("review")
    BY <1>4 DEF PriceReturns
  <2> QED BY <1>1, <1>2, <1>3, <2>1, <2>2, Publishes
<1>5. ASSUME NEW closed, Pend(closed) PROVE UpToDate' /\ Longer(toView, toView')
  <2>1. ChangesOnly({"outcome", "pending", "review"})
    BY <1>1, <1>5 DEF Pend, ChangesOnly, Props, Published
  <2>2. toView' = toView \o Update("outcome") \o Update("pending") \o Update("review")
    BY <1>5 DEF Pend
  <2> QED BY <1>1, <1>2, <1>3, <2>1, <2>2, Publishes
<1>6. CASE /\ shown' = [shown EXCEPT !.review = [@ EXCEPT !.up = TRUE]]
           /\ toView' = toView \o Update("review")
  <2>1. ChangesOnly({"review"})
    BY <1>1, <1>6 DEF ChangesOnly, Props, Published
  <2> QED BY <1>1, <1>2, <1>3, <1>6, <2>1, Publishes
<1>7. CASE UNCHANGED <<shown, toView>>
  <2>1. ChangesOnly({})
    BY <1>7 DEF ChangesOnly
  <2> QED BY <1>1, <1>2, <1>3, <1>7, <2>1, Publishes
<1>8. CASE PriceTimer
  <2>1. ChangesOnly({"pricing"})
    BY <1>1, <1>8 DEF PriceTimer, ChangesOnly, Props, Published
  <2>2. toView' = toView \o Update("pricing")
    BY <1>8 DEF PriceTimer
  <2> QED BY <1>1, <1>2, <1>3, <2>1, <2>2, Publishes
<1>9. CASE PollSend
  <2>1. ChangesOnly({"outcome", "pending"})
    BY <1>1, <1>9 DEF PollSend, ChangesOnly, Props, Published
  <2>2. toView' = toView \o Update("outcome") \o Update("pending")
    BY <1>9 DEF PollSend
  <2> QED BY <1>1, <1>2, <1>3, <2>1, <2>2, Publishes
<1>10. ASSUME NEW call \in calls, AcceptReturns(call) \/ SubmitReturns(call) \/ Late(call)
       PROVE  \/ \E closed : Pend(closed)
              \/ /\ shown' = [shown EXCEPT !.review = [@ EXCEPT !.up = TRUE]]
                 /\ toView' = toView \o Update("review")
              \/ UNCHANGED <<shown, toView>>
  BY <1>10 DEF AcceptReturns, SubmitReturns, Late
<1> QED BY <1>4, <1>5, <1>6, <1>7, <1>8, <1>9, <1>10

(* An update acted on is one less to come.                                   *)
LEMMA DeliveryCatchesUp ==
  ASSUME TypeOK, PropertyChanged
  PROVE  /\ toView # <<>> /\ Len(toView') = Len(toView) - 1
         /\ Head(toView) = toView[1] /\ toView[1] \in Updates
         /\ \A i \in 1 .. Len(toView') : toView'[i] = toView[i + 1]
         /\ \A p \in Props :
              seen'[p] = IF toView[1].prop = p THEN toView[1].value ELSE seen[p]
         /\ \A v : \A p \in Props, k \in 1 .. Len(toView) :
              Reaches(seen, toView, p, v, k) => Reaches(seen', toView', p, v, k - 1)
<1>1. /\ toView \in Seq(Updates) /\ seen \in Published
      /\ toView # <<>> /\ toView' = Tail(toView)
      /\ seen' = [seen EXCEPT ![Head(toView).prop] = Head(toView).value]
  BY DEF TypeOK, PropertyChanged
<1>2. Head(toView) = toView[1] /\ toView[1] \in Updates /\ Len(Tail(toView)) = Len(toView) - 1
  BY <1>1
<1>3. \A i \in 1 .. Len(Tail(toView)) : Tail(toView)[i] = toView[i + 1]
  BY <1>1
<1>4. \A p \in Props : seen'[p] = IF toView[1].prop = p THEN toView[1].value ELSE seen[p]
  BY <1>1, <1>2 DEF Props, Published
<1> QED BY <1>1, <1>2, <1>3, <1>4, ReachesSooner

LEMMA ReplicaKeepsUp ==
  ASSUME TypeOK, UpToDate, [Next]_vars
  PROVE  UpToDate'
<1>1. TypeOK'
  BY TypeStep
<1>2. CASE UNCHANGED <<shown, seen, toView>>
  BY <1>2 DEF UpToDate, Reaches
<1>3. CASE PropertyChanged
  <2>1. UNCHANGED shown /\ Len(toView) \in 1 .. Len(toView) /\ Len(toView') = Len(toView) - 1
    BY <1>3, DeliveryCatchesUp DEF PropertyChanged, TypeOK
  <2>2. \A p \in Props : Reaches(seen', toView', p, shown[p], Len(toView) - 1)
    <3> SUFFICES ASSUME NEW p \in Props
                 PROVE  Reaches(seen', toView', p, shown[p], Len(toView) - 1)
      OBVIOUS
    <3> DEFINE v == shown[p]
               k == Len(toView)
    <3>1. k \in 1 .. Len(toView) /\ Reaches(seen, toView, p, v, k)
      BY <2>1 DEF UpToDate
    <3> HIDE DEF v, k
    <3>2. Reaches(seen', toView', p, v, k - 1)
      BY <1>3, <3>1, DeliveryCatchesUp
    <3> QED BY <3>2 DEF v, k
  <2> QED BY <2>1, <2>2 DEF UpToDate
<1> QED BY <1>1, <1>2, <1>3, RunSlotPublishes, CallbackPublishes
  DEF Next, Returns, IntentRequested, Confirm, Decline, ConfirmOwn, WalletMoves, SenderSettles,
      vars, viewVars

-----------------------------------------------------------------------------
(* The last request, or decline, on its way to the backend.                  *)
LEMMA TakenIsAhead ==
  ASSUME TypeOK, toBackend # <<>>, toBackend' = Tail(toBackend)
  PROVE  /\ Len(toBackend) \in Nat /\ 1 \in DOMAIN toBackend /\ Head(toBackend) = toBackend[1]
         /\ DOMAIN toBackend = 1 .. Len(toBackend) /\ DOMAIN toBackend' = 1 .. Len(toBackend) - 1
         /\ \A i \in DOMAIN toBackend' : i + 1 \in DOMAIN toBackend /\ toBackend'[i] = toBackend[i + 1]
         /\ \A i \in DOMAIN toBackend :
              i = 1 \/ (i - 1 \in DOMAIN toBackend' /\ toBackend'[i - 1] = toBackend[i])
BY DEF TypeOK

(* The request of the app being served is not behind what is run before it.  *)
LEMMA RunSlotKeepsLast ==
  ASSUME TypeOK, LastWord, RunSlot
  PROVE  /\ LastWord'
         /\ AskedFor(serving) /\ Head(toBackend) # Call("review", serving) => AskedFor(serving)'
         /\ /\ serving # NoApp /\ Head(toBackend).slot \in {"review", "decline"}
            /\ Head(toBackend) # Call("review", serving)
            => AskedFor(serving)'
<1>1. toBackend # <<>> /\ toBackend' = Tail(toBackend) /\ serving' = serving
  BY DEF RunSlot, viewVars
<1>2. ASSUME AskedFor(serving), Head(toBackend) # Call("review", serving)
      PROVE  AskedFor(serving)'
  BY <1>1, <1>2, TakenIsAhead DEF AskedFor, Call
<1>3. ASSUME serving # NoApp, Head(toBackend).slot \in {"review", "decline"}
      PROVE  AskedFor(serving)
  BY <1>1, <1>3, TakenIsAhead DEF LastWord, AskedFor
<1>4. ASSUME serving # NoApp, NEW i \in DOMAIN toBackend', toBackend'[i].slot \in {"review", "decline"}
      PROVE  \E j \in DOMAIN toBackend' : i <= j /\ toBackend'[j] = Call("review", serving)
  <2>1. i + 1 \in DOMAIN toBackend /\ toBackend'[i] = toBackend[i + 1] /\ i \in Nat \ {0}
    BY <1>1, <1>4, TakenIsAhead
  <2>2. PICK j \in DOMAIN toBackend : i + 1 <= j /\ toBackend[j] = Call("review", serving)
    BY <1>4, <2>1 DEF LastWord
  <2>3. j # 1 /\ i <= j - 1
    BY <1>1, <2>1, <2>2, TakenIsAhead
  <2> QED BY <1>1, <2>2, <2>3, TakenIsAhead
<1>5. LastWord'
  BY <1>1, <1>4 DEF LastWord, Call
<1> QED BY <1>2, <1>3, <1>5

LEMMA ClickKeepsLast ==
  ASSUME TypeOK, LastWord, UNCHANGED serving, NEW slot \in {"accept", "submit"},
         toBackend' = Append(toBackend, Call(slot, NoApp))
  PROVE  LastWord' /\ (AskedFor(serving) => AskedFor(serving)')
<1>1. /\ Len(toBackend) \in Nat /\ DOMAIN toBackend = 1 .. Len(toBackend)
      /\ DOMAIN toBackend' = 1 .. Len(toBackend) + 1
      /\ \A i \in DOMAIN toBackend : toBackend'[i] = toBackend[i]
      /\ toBackend'[Len(toBackend) + 1].slot \notin {"review", "decline"}
  BY DEF TypeOK, Call
<1>2. \A i \in DOMAIN toBackend' : toBackend'[i].slot \in {"review", "decline"} =>
        i \in DOMAIN toBackend /\ toBackend'[i] = toBackend[i]
  BY <1>1
<1>3. DOMAIN toBackend \subseteq DOMAIN toBackend'
  BY <1>1
<1> QED BY <1>1, <1>2, <1>3 DEF LastWord, AskedFor, Call

LEMMA RequestIsLast ==
  ASSUME TypeOK, NEW a \in Apps, IntentRequested(a)
  PROVE  LastWord' /\ AskedFor(serving)'
<1>1. /\ Len(toBackend) \in Nat /\ DOMAIN toBackend' = 1 .. Len(toBackend) + 1
      /\ toBackend'[Len(toBackend) + 1] = Call("review", a) /\ serving' = a
  BY DEF TypeOK, IntentRequested
<1>2. Len(toBackend) + 1 \in DOMAIN toBackend'
      /\ \A i \in DOMAIN toBackend' : i <= Len(toBackend) + 1
  BY <1>1
<1> QED BY <1>1, <1>2 DEF LastWord, AskedFor, Call

-----------------------------------------------------------------------------
(* What is on its way to the view stays on its way while the backend works.  *)
LEMMA BackendAttends ==
  ASSUME AttendInv, TypeOK', UNCHANGED viewVars, Longer(toView, toView'),
         serving # NoApp =>
           /\ AskedFor(serving) => AskedFor(serving)' \/ OnReview' \/ Refusing'
           /\ OnReview => AskedFor(serving)' \/ OnReview' \/ Refusing' \/ Sending'
           /\ Sending => AskedFor(serving)' \/ Sending' \/ Settling'
  PROVE  Attended'
<1>1. /\ toView \in Seq(Updates) /\ toView' \in Seq(Updates)
      /\ serving' = serving /\ seen' = seen
      /\ \A i \in DOMAIN toView : i \in DOMAIN toView' /\ toView'[i] = toView[i]
      /\ \A k \in DOMAIN toView : k \in 0 .. Len(toView)
  <2>1. toView \in Seq(Updates) /\ toView' \in Seq(Updates)
    BY DEF AttendInv, SentInv, TypeOK
  <2>2. /\ DOMAIN toView = 1 .. Len(toView) /\ DOMAIN toView' = 1 .. Len(toView')
        /\ Len(toView) \in Nat /\ Len(toView') \in Nat
    BY <2>1
  <2> QED BY <2>1, <2>2 DEF viewVars, Longer
<1>2. Refusing => Refusing'
  BY <1>1 DEF Refusing
<1>3. Settling => Settling'
  <2> SUFFICES ASSUME Settling PROVE Settling'
    OBVIOUS
  <2>1. PICK k \in DOMAIN toView :
          /\ toView[k].prop = "pending" /\ toView[k].value = NoSend
          /\ \E o \in Nat : o # NoSend /\ Reaches(seen, toView, "outcome", o, k)
          /\ \E r \in Reviews : ~Open(r) /\ Reaches(seen, toView, "review", r, k)
    BY DEF Settling
  <2>2. PICK o \in Nat : o # NoSend /\ Reaches(seen, toView, "outcome", o, k)
    BY <2>1
  <2>3. PICK r \in Reviews : ~Open(r) /\ Reaches(seen, toView, "review", r, k)
    BY <2>1
  <2>4. /\ Reaches(seen, toView', "outcome", o, k)
        /\ Reaches(seen, toView', "review", r, k)
    BY <1>1, <2>2, <2>3, ReachesStill
  <2>5. k \in DOMAIN toView' /\ toView'[k].prop = "pending" /\ toView'[k].value = NoSend
    BY <1>1, <2>1
  <2> QED BY <1>1, <2>2, <2>3, <2>4, <2>5 DEF Settling
<1>4. Attended /\ serving' = serving
  BY <1>1 DEF AttendInv
<1> QED BY <1>2, <1>3, <1>4 DEF Attended

(* A change of the review to a refusal of the app being served is sent.      *)
LEMMA RefusalIsSent ==
  ASSUME TypeOK', NEW q \in Seq(Updates), toView' = q \o Update("review"),
         shown'.review # shown.review, shown'.review.error,
         shown'.review.app \in {NoApp, serving'}
  PROVE  Refusing'
<1> DEFINE x == [prop |-> "review", value |-> shown'.review]
<1>1. Update("review") = <<x>>
  BY DEF Update
<1>2. toView' = Append(q, x)
  <2>1. x \in Updates
    BY DEF TypeOK, Published, Updates
  <2> HIDE DEF x
  <2>2. q \o <<x>> = Append(q, x)
    BY <2>1, ConcatsOne
  <2> QED BY <1>1, <2>2
<1>3. Len(q) + 1 \in DOMAIN toView' /\ toView'[Len(q) + 1] = x
  BY <1>2
<1> QED BY <1>3 DEF Refusing

LEMMA ReviewAttends ==
  ASSUME AttendInv, TypeOK', RunSlot, Head(toBackend).slot = "review",
         ReviewIntentSend(Head(toBackend).app), serving # NoApp
  PROVE  AskedFor(serving)' \/ OnReview' \/ Refusing'
<1> DEFINE call == Head(toBackend)
           a == call.app
<1>1. TypeOK /\ LastWord /\ toBackend # <<>> /\ UNCHANGED viewVars /\ serving \in Apps /\ shown \in Published
  BY DEF AttendInv, SentInv, RunSlot, TypeOK
<1>2. CASE call # Call("review", serving)
  BY <1>1, <1>2, RunSlotKeepsLast
<1>3. CASE call = Call("review", serving)
  <2>1. a = serving /\ AskedFor(serving)
    <3>1. toBackend[1] = Call("review", serving) /\ 1 \in DOMAIN toBackend
      BY <1>1, <1>3, TakenIsAhead DEF RunSlot
    <3>2. Call("review", serving).app = serving
      BY DEF Call
    <3> QED BY <1>3, <3>1, <3>2 DEF AskedFor
  <2>2. shown.review.app # serving
    BY <1>1, <2>1 DEF AttendInv, SentInv, HandedIsGone, Unreviewed, Gone
  <2>3. CASE Refuse(a)
    <3>1. shown'.review = Refusal(serving) /\ toView' = toView \o Update("review") /\ serving' = serving
      BY <1>1, <2>1, <2>3 DEF Refuse, Published, viewVars
    <3>2. shown'.review.app = serving /\ shown'.review.error /\ shown'.review # shown.review
      BY <2>2, <3>1 DEF Refusal
    <3> QED BY <1>1, <3>1, <3>2, RefusalIsSent DEF TypeOK
  <2>4. CASE \/ shown' = [shown EXCEPT !.review = Review(a)]
             \/ shown' = [shown EXCEPT !.review = Review(a), !.pricing = TRUE]
    <3>1. shown'.review = Review(serving) /\ serving' = serving
      BY <1>1, <2>1, <2>4 DEF Published, viewVars
    <3> QED BY <3>1 DEF OnReview, Review, Open
  <2> QED BY <2>3, <2>4 DEF ReviewIntentSend
<1> QED BY <1>2, <1>3

LEMMA AcceptAttends ==
  ASSUME AttendInv, TypeOK', AcceptIntentSend, UNCHANGED viewVars
  PROVE  /\ OnReview => OnReview' \/ Refusing'
         /\ Sending => Sending'
<1>1. TypeOK /\ shown \in Published /\ shown.review \in Reviews /\ serving' = serving
      /\ toView \in Seq(Updates)
  BY DEF AttendInv, SentInv, TypeOK, Published, viewVars
<1>2. CASE UNCHANGED shown
  <2>1. ~Open(shown.review) => UNCHANGED <<calls, acceptClaim>>
    BY DEF AcceptIntentSend
  <2> QED BY <1>1, <1>2, <2>1 DEF OnReview, Sending, OutNow
<1>3. CASE /\ Open(shown.review)
           /\ shown' = [shown EXCEPT !.review = [@ EXCEPT !.error = TRUE]]
           /\ toView' = toView \o Update("review")
  <2>1. shown'.review = [shown.review EXCEPT !.error = TRUE]
    BY <1>1, <1>3 DEF Published
  <2>2. shown'.review.error /\ shown'.review.app = shown.review.app /\ ~shown.review.error
    BY <1>1, <1>3, <2>1 DEF Reviews, NoReview, Open
  <2>3. shown'.review # shown.review
    BY <2>2
  <2>4. OnReview => Refusing'
    BY <1>1, <1>3, <2>2, <2>3, RefusalIsSent DEF OnReview
  <2> QED BY <1>3, <2>4 DEF Sending
<1> QED BY <1>2, <1>3 DEF AcceptIntentSend

LEMMA RunSlotAttends ==
  ASSUME AttendInv, TypeOK', RunSlot
  PROVE  Attended'
<1> DEFINE call == Head(toBackend)
<1>1. /\ TypeOK /\ LastWord /\ UpToDate /\ UNCHANGED viewVars /\ serving' = serving
      /\ Longer(toView, toView')
  BY RunSlotPublishes DEF AttendInv, SentInv, RunSlot, viewVars
<1>2. CASE call.slot = "review" /\ ReviewIntentSend(call.app)
  BY <1>1, <1>2, ReviewAttends DEF Attended
<1>3. CASE call.slot = "decline"
  <2>1. call # Call("review", serving)
    BY <1>3 DEF Call
  <2> QED BY <1>1, <1>3, <2>1, RunSlotKeepsLast DEF Attended
<1>4. CASE call.slot = "accept" /\ AcceptIntentSend
  <2>1. call # Call("review", serving)
    BY <1>4 DEF Call
  <2> QED BY <1>1, <1>4, <2>1, RunSlotKeepsLast, AcceptAttends, BackendAttends
<1>5. CASE call.slot = "submit" /\ SubmitSend
  <2>1. call # Call("review", serving)
    BY <1>5 DEF Call
  <2>2. (OnReview => OnReview') /\ (Sending => Sending')
    BY <1>1, <1>5 DEF SubmitSend, OnReview, Sending, OutNow
  <2> QED BY <1>1, <2>1, <2>2, RunSlotKeepsLast, BackendAttends
<1> QED BY <1>2, <1>3, <1>4, <1>5 DEF RunSlot

(* Callbacks: a send that is taken takes the review away, and only the call  *)
(* in force, which is spent by it, could put it up again.                    *)
LEMMA AcceptReturnsAttends ==
  ASSUME AttendInv, NEW call \in calls, AcceptReturns(call)
  PROVE  /\ OnReview => OnReview' \/ Sending'
         /\ Sending => Sending'
<1>1. /\ shown \in Published /\ shown.review \in Reviews /\ serving' = serving
      /\ calls' = calls \ {call} /\ Len(sends) \in Nat
      /\ acceptClaim'.ticket = acceptClaim.ticket
  BY ClaimChanges DEF AttendInv, SentInv, TypeOK, Published, AcceptReturns, viewVars, Released, Claims
<1>2. \A c \in calls' : c \in calls /\ (OutNow(c)' <=> OutNow(c))
  BY <1>1 DEF OutNow
<1>3. CASE IsCurrent(acceptClaim, call.slot) /\ Pend(NoReview)
  <2>1. \A c \in calls' : ~OutNow(c)'
    BY <1>1, <1>2, <1>3 DEF AttendInv, SentInv, OneCallInForce, OutNow, IsCurrent, AcceptReturns
  <2>2. shown'.review = NoReview /\ shown'.pending # NoSend
    BY <1>1, <1>3 DEF Pend, Published, NoSend
  <2> QED BY <2>1, <2>2 DEF Sending, NoReview, Open
<1>4. CASE /\ IsCurrent(acceptClaim, call.slot)
           /\ shown' = [shown EXCEPT !.review = [@ EXCEPT !.up = TRUE]]
  <2>1. shown'.review = [shown.review EXCEPT !.up = TRUE]
    BY <1>1, <1>4 DEF Published
  <2>2. /\ shown'.review.up /\ shown'.review.app = shown.review.app
        /\ shown'.review.error = shown.review.error
    BY <1>1, <2>1 DEF Reviews, NoReview
  <2>3. OutNow(call)
    BY <1>4 DEF AcceptReturns, OutNow, IsCurrent
  <2> QED BY <1>1, <2>2, <2>3 DEF OnReview, Open, Sending
<1>5. CASE UNCHANGED shown
  BY <1>1, <1>2, <1>5 DEF OnReview, Sending
<1> QED BY <1>3, <1>4, <1>5 DEF AcceptReturns

LEMMA OtherReturnsAttend ==
  ASSUME AttendInv, NEW call \in calls, PriceReturns(call) \/ SubmitReturns(call) \/ Late(call)
  PROVE  /\ OnReview => OnReview'
         /\ Sending => Sending'
<1>1. /\ TypeOK /\ shown \in Published /\ shown.review \in Reviews
      /\ serving' = serving /\ Len(sends) \in Nat
  <2>1. serving' = serving
    BY DEF PriceReturns, SubmitReturns, Late, viewVars
  <2> QED BY <2>1 DEF AttendInv, SentInv, TypeOK, Published
<1>2. calls' \subseteq calls /\ acceptClaim'.ticket = acceptClaim.ticket
  BY <1>1, ClaimChanges DEF TypeOK, PriceReturns, SubmitReturns, Late
<1>3. \A c \in calls' : c \in calls /\ (OutNow(c)' <=> OutNow(c))
  BY <1>2 DEF OutNow
<1>4. /\ shown'.review.app = shown.review.app
      /\ shown'.review.up = shown.review.up /\ shown'.review.error = shown.review.error
      /\ shown.pending # NoSend => shown'.pending # NoSend
  <2>1. CASE UNCHANGED shown
    BY <2>1
  <2>2. CASE Pend(shown.review)
    BY <1>1, <2>2 DEF Pend, Published, NoSend
  <2>3. CASE shown' = PriceFor(call.app)
    <3>1. /\ shown'.pending = shown.pending
          /\ shown'.review \in {shown.review, [shown.review EXCEPT !.fee = call.app]}
      BY <1>1, <2>3 DEF PriceFor, Published
    <3>2. /\ [shown.review EXCEPT !.fee = call.app].app = shown.review.app
          /\ [shown.review EXCEPT !.fee = call.app].up = shown.review.up
          /\ [shown.review EXCEPT !.fee = call.app].error = shown.review.error
      BY <1>1 DEF Reviews, NoReview
    <3> QED BY <3>1, <3>2
  <2> QED BY <2>1, <2>2, <2>3 DEF PriceReturns, SubmitReturns, Late
<1> QED BY <1>1, <1>3, <1>4 DEF OnReview, Sending, Open

(* The poll's own updates end the wait: behind the outcome comes the cleared *)
(* id, and no review is open by then.                                        *)
LEMMA PollSettles ==
  ASSUME AttendInv, TypeOK', UpToDate', PollSend, Sending
  PROVE  Settling'
<1> DEFINE x == [prop |-> "pending", value |-> NoSend]
           q == toView \o Update("outcome")
           k == Len(q) + 1
<1>1. /\ TypeOK /\ shown \in Published /\ shown' \in Published /\ shown'.review \in Reviews
      /\ shown' = [shown EXCEPT !.outcome = shown.pending, !.pending = NoSend]
      /\ toView' = q \o Update("pending") /\ toView' \in Seq(Updates)
  BY DEF AttendInv, SentInv, TypeOK, Published, PollSend
<1>2. /\ shown'.pending = NoSend /\ shown'.outcome = shown.pending /\ shown'.outcome \in Nat
      /\ shown'.outcome # NoSend /\ shown'.review = shown.review /\ shown'.pending # shown.pending
  BY <1>1 DEF Sending, Published, NoSend
<1>3. q \in Seq(Updates) /\ x \in Updates
  <2>1. q \in Seq(Updates)
    BY <1>1, ToViewTyped
  <2> QED BY <1>1, <2>1 DEF Updates, NoSend
<1>4. toView' = Append(q, x)
  <2>1. Update("pending") = <<x>>
    BY <1>2 DEF Update
  <2> HIDE DEF x, q
  <2> QED BY <1>1, <1>3, <2>1, ConcatsOne
<1>5. k \in DOMAIN toView' /\ toView'[k] = x /\ Len(toView') = k
  <2> HIDE DEF x, q
  <2> QED BY <1>3, <1>4
<1>6. /\ Reaches(seen', toView', "outcome", shown'.outcome, k)
      /\ Reaches(seen', toView', "review", shown'.review, k)
  <2> HIDE DEF x, k, q
  <2> QED BY <1>5 DEF UpToDate, Props
<1>7. toView'[k].prop = "pending" /\ toView'[k].value = NoSend
  <2> HIDE DEF k, q
  <2> QED BY <1>5
<1>8. ~Open(shown'.review)
  BY <1>2 DEF Sending
<1> HIDE DEF x, q, k
<1> QED BY <1>1, <1>2, <1>5, <1>6, <1>7, <1>8 DEF Settling

LEMMA CallbackAttends ==
  ASSUME AttendInv, TypeOK',
         (\E call \in calls : PriceReturns(call) \/ AcceptReturns(call) \/ SubmitReturns(call) \/ Late(call))
           \/ PriceTimer \/ PollSend
  PROVE  Attended'
<1>1. /\ UNCHANGED viewVars /\ toBackend' = toBackend /\ serving' = serving
  BY DEF PriceReturns, AcceptReturns, SubmitReturns, Late, PriceTimer, PollSend, viewVars
<1>2. /\ TypeOK /\ UpToDate /\ shown \in Published
      /\ UpToDate' /\ Longer(toView, toView')
  BY CallbackPublishes DEF AttendInv, SentInv, TypeOK
<1>3. AskedFor(serving) => AskedFor(serving)'
  BY <1>1 DEF AskedFor, Call
<1>4. CASE \E call \in calls : PriceReturns(call) \/ AcceptReturns(call) \/ SubmitReturns(call) \/ Late(call)
  <2>1. (OnReview => OnReview' \/ Sending') /\ (Sending => Sending')
    BY <1>4, AcceptReturnsAttends, OtherReturnsAttend
  <2> QED BY <1>1, <1>2, <1>3, <2>1, BackendAttends
<1>5. CASE PriceTimer
  <2>1. (OnReview => OnReview') /\ (Sending => Sending')
    BY <1>1, <1>2, <1>5 DEF PriceTimer, claimVars, OnReview, Sending, OutNow, Published
  <2> QED BY <1>1, <1>2, <1>3, <2>1, BackendAttends
<1>6. CASE PollSend
  <2>1. OnReview => OnReview'
    BY <1>1, <1>2, <1>6 DEF PollSend, OnReview, Published
  <2>2. Sending => Settling'
    BY <1>2, <1>6, PollSettles
  <2> QED BY <1>1, <1>2, <1>3, <2>1, <2>2, BackendAttends
<1> QED BY <1>4, <1>5, <1>6

(* The view's own steps.                                                     *)
LEMMA DeliveryAttends ==
  ASSUME AttendInv, PropertyChanged, UNCHANGED <<serving, toBackend>>, serving # NoApp
  PROVE  Attended'
<1> DEFINE update == Head(toView)
<1>1. TypeOK /\ UNCHANGED <<shown, calls, acceptClaim>> /\ toView \in Seq(Updates)
  BY DEF AttendInv, SentInv, TypeOK, PropertyChanged, claimVars
<1>2. /\ Len(toView) \in Nat /\ DOMAIN toView = 1 .. Len(toView)
      /\ DOMAIN toView' = 1 .. Len(toView) - 1 /\ update = toView[1]
      /\ \A i \in DOMAIN toView : i = 1 \/ (i - 1 \in DOMAIN toView' /\ toView'[i - 1] = toView[i])
  BY <1>1 DEF PropertyChanged
<1>3. ~Settles(update) /\ ~Refuses(update)
  BY DEF PropertyChanged, AnswerIntent
<1>4. Refusing => Refusing'
  BY <1>2, <1>3 DEF Refusing, Refuses
<1>5. Settling => Settling'
  <2> SUFFICES ASSUME Settling PROVE Settling'
    OBVIOUS
  <2>1. PICK k \in DOMAIN toView :
          /\ toView[k].prop = "pending" /\ toView[k].value = NoSend
          /\ \E o \in Nat : o # NoSend /\ Reaches(seen, toView, "outcome", o, k)
          /\ \E r \in Reviews : ~Open(r) /\ Reaches(seen, toView, "review", r, k)
    BY DEF Settling
  <2>2. PICK o \in Nat : o # NoSend /\ Reaches(seen, toView, "outcome", o, k)
    BY <2>1
  <2>3. PICK r \in Reviews : ~Open(r) /\ Reaches(seen, toView, "review", r, k)
    BY <2>1
  <2>4. /\ Reaches(seen', toView', "outcome", o, k - 1)
        /\ Reaches(seen', toView', "review", r, k - 1)
    BY <1>1, <1>2, <2>2, <2>3, DeliveryCatchesUp DEF Props
  <2>5. CASE k = 1
    <3>1. seen'["outcome"] = o /\ seen'["review"] = r /\ seen'["pending"] = NoSend
      BY <1>1, <2>1, <2>4, <2>5, DeliveryCatchesUp DEF Reaches, Props
    <3> QED BY <1>2, <1>3, <2>1, <2>2, <2>3, <2>5, <3>1 DEF Settles
  <2>6. CASE k # 1
    <3>1. k - 1 \in DOMAIN toView' /\ toView'[k - 1].prop = "pending" /\ toView'[k - 1].value = NoSend
      BY <1>2, <2>1, <2>6
    <3> QED BY <2>2, <2>3, <2>4, <3>1 DEF Settling
  <2> QED BY <2>5, <2>6
<1>6. (OnReview => OnReview') /\ (Sending => Sending') /\ (AskedFor(serving) => AskedFor(serving)')
  BY <1>1 DEF OnReview, Sending, OutNow, AskedFor, Call
<1> QED BY <1>4, <1>5, <1>6 DEF AttendInv, Attended

LEMMA ViewAttends ==
  ASSUME AttendInv,
         Confirm \/ Decline \/ ConfirmOwn \/ PropertyChanged \/ \E a \in Apps : IntentRequested(a)
  PROVE  Attended' /\ LastWord'
<1>1. TypeOK /\ LastWord
  BY DEF AttendInv, SentInv
<1>2. CASE \E a \in Apps : IntentRequested(a)
  BY <1>1, <1>2, RequestIsLast DEF Attended
<1>3. CASE Confirm \/ ConfirmOwn
  <2>1. UNCHANGED <<shown, seen, toView, claimVars, serving>>
    BY <1>3 DEF Confirm, ConfirmOwn, viewVars
  <2>2. LastWord' /\ (AskedFor(serving) => AskedFor(serving)')
    BY <1>1, <1>3, <2>1, ClickKeepsLast DEF Confirm, ConfirmOwn
  <2>3. /\ OnReview => OnReview'
        /\ Sending => Sending'
        /\ Refusing => Refusing'
        /\ Settling => Settling'
    BY <2>1 DEF claimVars, OnReview, Sending, OutNow, Refusing, Settling, Reaches
  <2> QED BY <2>1, <2>2, <2>3 DEF AttendInv, Attended
<1>4. CASE serving' = NoApp
  BY <1>4 DEF Attended, LastWord
<1>5. CASE PropertyChanged /\ UNCHANGED <<serving, toBackend>>
  <2>1. LastWord'
    BY <1>1, <1>5 DEF LastWord, Call
  <2>2. Attended'
    BY <1>5, DeliveryAttends DEF Attended
  <2> QED BY <2>1, <2>2
<1>6. ASSUME NEW how, NEW send, AnswerIntent(how, send) PROVE serving' = NoApp
  BY <1>6 DEF AnswerIntent
<1>7. Decline \/ PropertyChanged => serving' = NoApp \/ (PropertyChanged /\ UNCHANGED <<serving, toBackend>>)
  BY <1>6 DEF Decline, PropertyChanged
<1> QED BY <1>2, <1>3, <1>4, <1>5, <1>7

LEMMA WorldAttends ==
  ASSUME AttendInv, WalletMoves \/ (\E i \in DOMAIN sends : SenderSettles(i)) \/ UNCHANGED vars
  PROVE  Attended' /\ LastWord'
<1>1. UNCHANGED <<shown, seen, toView, toBackend, claimVars, serving>>
  BY DEF WalletMoves, SenderSettles, vars, viewVars
<1> QED BY <1>1 DEF AttendInv, Attended, LastWord, AskedFor, Call, claimVars, OnReview, Sending, OutNow,
                    Refusing, Settling, Reaches

(* Only the app being served waits: an answer spends its id, and a request   *)
(* that replaces it answers it.                                              *)
LEMMA WaitersStep ==
  ASSUME TypeOK, WaiterIsServed, [Next]_vars
  PROVE  WaiterIsServed'
<1>1. /\ told \in [Apps -> [how : {"unasked", "waiting", "cancelled", "refused", "settled"}, send : Nat]]
      /\ serving \in Apps \cup {NoApp}
  BY DEF TypeOK
<1>2. ASSUME NEW how \in {"cancelled", "refused", "settled"}, NEW send, AnswerIntent(how, send)
      PROVE  WaiterIsServed'
  BY <1>1, <1>2, IntentSendAssumption DEF AnswerIntent, WaiterIsServed
<1>3. ASSUME NEW a \in Apps, IntentRequested(a) PROVE WaiterIsServed'
  BY <1>1, <1>3, IntentSendAssumption DEF IntentRequested, WaiterIsServed
<1>4. CASE UNCHANGED <<serving, told>>
  BY <1>4 DEF WaiterIsServed
<1> QED BY <1>2, <1>3, <1>4
  DEF Next, RunSlot, PropertyChanged, Returns, PriceReturns, AcceptReturns, SubmitReturns, Late,
      PriceTimer, PollSend, Confirm, Decline, ConfirmOwn, WalletMoves, SenderSettles, vars, viewVars

LEMMA LastWordStays ==
  ASSUME TypeOK, LastWord,
         RunSlot \/ (\E call \in calls : PriceReturns(call) \/ AcceptReturns(call) \/ SubmitReturns(call) \/ Late(call))
           \/ PriceTimer \/ PollSend
  PROVE  LastWord'
<1>1. CASE RunSlot
  BY <1>1, RunSlotKeepsLast
<1>2. CASE UNCHANGED <<serving, toBackend>>
  BY <1>2 DEF LastWord, Call
<1> QED BY <1>1, <1>2
  DEF PriceReturns, AcceptReturns, SubmitReturns, Late, PriceTimer, PollSend, viewVars

LEMMA AttendInit == Init => AttendInv
<1> SUFFICES ASSUME Init PROVE AttendInv
  OBVIOUS
<1>1. SentInv
  BY SentInit
<1>2. WaiterIsServed
  BY IntentSendAssumption DEF Init, WaiterIsServed
<1>3. UpToDate
  BY DEF Init, UpToDate, Reaches
<1>4. LastWord /\ Attended
  BY DEF Init, LastWord, Attended
<1> QED BY <1>1, <1>2, <1>3, <1>4 DEF AttendInv

LEMMA AttendStep == AttendInv /\ [Next]_vars => AttendInv'
<1> SUFFICES ASSUME AttendInv, [Next]_vars PROVE AttendInv'
  OBVIOUS
<1>1. SentInv' /\ TypeOK /\ TypeOK' /\ UpToDate' /\ WaiterIsServed'
  BY SentStep, ReplicaKeepsUp, WaitersStep DEF AttendInv, SentInv
<1>2. Attended' /\ LastWord'
  BY <1>1, RunSlotAttends, CallbackAttends, ViewAttends, WorldAttends, LastWordStays
  DEF Next, Returns, AttendInv
<1> QED BY <1>1, <1>2 DEF AttendInv

(* No app waits that the view is not serving: a request put aside for        *)
(* another has been answered, and an answer spends the shell's id            *)
(* (intentRequested, answerIntent).                                          *)
THEOREM WaiterIsAlwaysServed == Spec => []WaiterIsServed
<1>1. AttendInv => WaiterIsServed
  BY DEF AttendInv
<1> QED BY AttendInit, AttendStep, <1>1, PTL DEF Spec

(* However many properties a handler sets, and whatever the view did between *)
(* two of them, it ends up showing what the backend published.               *)
THEOREM ReplicaAlwaysCatchesUp == Spec => []ReplicaCatchesUp
<1>1. AttendInv => ReplicaCatchesUp
  <2> SUFFICES ASSUME AttendInv, toView = <<>> PROVE seen = shown
    BY DEF ReplicaCatchesUp
  <2>1. seen \in Published /\ shown \in Published
    BY DEF AttendInv, SentInv, TypeOK
  <2>2. \A p \in Props : seen[p] = shown[p]
    BY DEF AttendInv, UpToDate, Reaches
  <2> QED BY <2>1, <2>2 DEF Published, Props
<1> QED BY AttendInit, AttendStep, <1>1, PTL DEF Spec

(* An app that waits has its own request open on the screen, or something on *)
(* its way to it: what the two processes still owe each other always ends in *)
(* its review or in its answer (reviewIntentSend, acceptIntentSend,          *)
(* pollSend, and the view's handlers of what they publish).                  *)
THEOREM WaiterIsAlwaysAttended == Spec => []WaiterIsAttended
<1>1. AttendInv => WaiterIsAttended
  <2> SUFFICES ASSUME AttendInv, NEW a \in Apps, WaitsUnseen(a),
                      toView = <<>>, toBackend = <<>>, shown.pending = NoSend
               PROVE  FALSE
    BY DEF WaiterIsAttended
  <2>1. serving = a /\ serving # NoApp
    BY IntentSendAssumption DEF AttendInv, WaiterIsServed, WaitsUnseen
  <2>2. ~AskedFor(serving) /\ ~Refusing /\ ~Sending /\ ~Settling
    BY DEF AskedFor, Refusing, Sending, Settling
  <2>3. OnReview
    BY <2>1, <2>2 DEF AttendInv, Attended
  <2>4. seen["review"] = shown["review"]
    BY DEF AttendInv, UpToDate, Reaches, Props
  <2> QED BY <2>1, <2>3, <2>4 DEF OnReview, WaitsUnseen
<1> QED BY AttendInit, AttendStep, <1>1, PTL DEF Spec
=============================================================================

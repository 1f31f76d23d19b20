----------------------------- MODULE IntentSend -----------------------------
(***************************************************************************)
(* Another app asks this wallet to send: the request is reviewed, priced,  *)
(* accepted or declined, and answered.  The view holds the shell's id and  *)
(* answers the app; the backend holds the review and the send.  They are   *)
(* two processes: the view sees a replica of the backend's properties,     *)
(* updated one by one in the order they were set (`toView`), and its slots *)
(* reach the backend in the order they were called (`toBackend`).          *)
(*                                                                         *)
(* A request is named by the app that makes it, and each app makes one.  A *)
(* send is named by its place in `sends`, what the sender was handed; the  *)
(* outcome of a send by that send.  The wallet's own send is here as what  *)
(* else writes the pending id; nested status calls are in module Send.     *)
(***************************************************************************)
EXTENDS Claim, Sequences

CONSTANTS Apps, NoApp,
          Own,       \* whom the wallet's own send is for
          MaxClicks, \* bound on clicks in the review dialogs, this one and the own send's
          MaxFaults  \* bound on faults: an acceptance refused or unanswered, a call
                     \* late for its claim or lost, a move of the wallet

ASSUME IntentSendAssumption ==
  /\ NoApp \notin Apps /\ Own \notin Apps /\ NoApp # Own
  /\ {MaxClicks, MaxFaults} \subseteq Nat

VARIABLES
  shown,        \* the backend's properties
  seen,         \* the view's replica of them
  toView,       \* property updates on their way to the view
  toBackend,    \* slots on their way to the backend
  fitting,      \* requests whose account and chain the wallet holds
  priceClaim,   \* m_intentPriceInFlight
  acceptClaim,  \* m_intentSendInFlight
  calls,        \* calls out
  sends,        \* what the sender has been handed
  serving,      \* the view's intentSendRequestId
  told,         \* what each app has been answered
  used

viewVars  == <<seen, serving, told>>
claimVars == <<priceClaim, acceptClaim, calls>>
vars      == <<shown, viewVars, toView, toBackend, fitting, claimVars, sends, used>>

Spend(what, max) == used[what] < max /\ used' = [used EXCEPT ![what] = @ + 1]

NoSend == 0

(* intentSendJson.  One with an error is a refusal for the view to pass on;  *)
(* a fee is there once its price, or the refusal of one, has landed.         *)
NoReview   == [up |-> FALSE, app |-> NoApp, error |-> FALSE, fee |-> NoApp]
Review(a)  == [up |-> TRUE,  app |-> a,     error |-> FALSE, fee |-> NoApp]
Refusal(a) == [up |-> TRUE,  app |-> a,     error |-> TRUE,  fee |-> NoApp]

Open(review) == review.up /\ ~review.error

(* A setter publishes what it changes; a handler's updates go out in the     *)
(* order it set them in.                                                     *)
Update(p) ==
  IF shown'[p] = shown[p] THEN <<>> ELSE <<[prop |-> p, value |-> shown'[p]]>>

Call(slot, a) == [slot |-> slot, app |-> a]

(***************************************************************************)
(* The backend's slots                                                     *)
(***************************************************************************)
(* checkIntentSend: busy with a send, or a payload the wallet cannot serve. *)
Checks(a) == shown.pending = NoSend /\ a \in fitting

Refuse(a) ==
  /\ shown' = [shown EXCEPT !.review = Refusal(a)]
  /\ toView' = toView \o Update("review")

ReviewIntentSend(a) ==
  /\ \/ ~Checks(a) /\ Refuse(a) /\ UNCHANGED claimVars
     \/ /\ Checks(a) /\ Busy(priceClaim)
        /\ shown' = [shown EXCEPT !.review = Review(a)]
        /\ toView' = toView \o Update("review")
        /\ UNCHANGED claimVars
     \/ /\ Checks(a) /\ ~Busy(priceClaim)
        /\ shown' = [shown EXCEPT !.review = Review(a), !.pricing = TRUE]
        /\ toView' = toView \o Update("review") \o Update("pricing")
        /\ priceClaim' = Taken(priceClaim, 1)
        /\ calls' = calls \cup {[op |-> "price", app |-> a, slot |-> priceClaim'.ticket]}
        /\ UNCHANGED acceptClaim
  /\ UNCHANGED sends

(* The request is checked again as the wallet stands now. *)
AcceptIntentSend ==
  LET a == shown.review.app
      free == Open(shown.review) /\ ~Busy(acceptClaim)
      claim == Taken(acceptClaim, 1)
  IN
  /\ \/ ~free /\ UNCHANGED <<shown, toView, acceptClaim, calls>>
     \/ /\ free /\ ~Checks(a)
        /\ shown' = [shown EXCEPT !.review = [@ EXCEPT !.error = TRUE]]
        /\ toView' = toView \o Update("review")
        /\ acceptClaim' = Released(claim, claim.ticket)
        /\ UNCHANGED calls
     \/ /\ free /\ Checks(a)
        /\ acceptClaim' = claim
        /\ calls' = calls \cup {[op |-> "accept", app |-> a, slot |-> claim.ticket]}
        /\ UNCHANGED <<shown, toView>>
  /\ UNCHANGED <<priceClaim, sends>>

DeclineIntentSend ==
  /\ shown' = [shown EXCEPT !.pricing = FALSE, !.review = NoReview]
  /\ toView' = toView \o Update("pricing") \o Update("review")
  /\ UNCHANGED <<claimVars, sends>>

SubmitSend ==
  /\ calls' = calls \cup {[op |-> "own", app |-> Own, slot |-> 0]}
  /\ UNCHANGED <<shown, toView, priceClaim, acceptClaim, sends>>

RunSlot ==
  /\ toBackend # <<>>
  /\ toBackend' = Tail(toBackend)
  /\ LET call == Head(toBackend) IN
     \/ call.slot = "review"  /\ ReviewIntentSend(call.app)
     \/ call.slot = "accept"  /\ AcceptIntentSend
     \/ call.slot = "decline" /\ DeclineIntentSend
     \/ call.slot = "submit"  /\ SubmitSend
  /\ UNCHANGED <<viewVars, fitting, used>>

(***************************************************************************)
(* The backend's callbacks                                                 *)
(***************************************************************************)
(* Mutated form of PriceFor: the price of whatever came back first. *)
BrokenPriceFor(a) == [shown EXCEPT !.pricing = FALSE, !.review = [@ EXCEPT !.fee = a]]

(* The review may have moved on: a price for another request is not its. *)
PriceFor(a) ==
  [shown EXCEPT !.pricing = FALSE,
                !.review = IF @.app = a THEN [@ EXCEPT !.fee = a] ELSE @]

PriceReturns(call) ==
  /\ call.op = "price"
  /\ calls' = calls \ {call}
  /\ priceClaim' = Released(priceClaim, call.slot)
  /\ shown' = IF IsCurrent(priceClaim, call.slot) THEN PriceFor(call.app) ELSE shown
  /\ toView' = toView \o Update("pricing") \o Update("review")
  /\ UNCHANGED <<viewVars, toBackend, fitting, acceptClaim, sends, used>>

(* The claim's lapse timer.  That of a claim released meanwhile finds pricing*)
(* down already, and one that finds a claim live, its own or a later one, is *)
(* spent on it: whether this one is still to come nothing says, and fairness *)
(* does not ask for it.                                                      *)
PriceTimer ==
  /\ priceClaim.held /\ ~Busy(priceClaim) /\ shown.pricing
  /\ shown' = [shown EXCEPT !.pricing = FALSE]
  /\ toView' = toView \o Update("pricing")
  /\ UNCHANGED <<viewVars, toBackend, fitting, claimVars, sends, used>>

Hand(by, heard) == sends' = Append(sends, [by |-> by, heard |-> heard, over |-> FALSE])

(* Mutated form of Pend: the review stays up behind its own send. *)
BrokenPend(closed) ==
  /\ shown' = [shown EXCEPT !.outcome = NoSend, !.pending = Len(sends) + 1]
  /\ toView' = toView \o Update("outcome") \o Update("pending") \o Update("review")

(* A send the sender has taken is the pending one; `closed` is what becomes  *)
(* of the review.                                                            *)
Pend(closed) ==
  /\ shown' = [shown EXCEPT !.outcome = NoSend, !.pending = Len(sends) + 1, !.review = closed]
  /\ toView' = toView \o Update("outcome") \o Update("pending") \o Update("review")

(* A refusal, and no answer to a call the sender may have taken all the same,*)
(* is written on whatever review is up, or on an empty record.               *)
AcceptReturns(call) ==
  /\ call.op = "accept"
  /\ calls' = calls \ {call}
  /\ acceptClaim' = Released(acceptClaim, call.slot)
  /\ \/ /\ IsCurrent(acceptClaim, call.slot)
        /\ Hand(call.app, TRUE)
        /\ Pend(NoReview)
        /\ UNCHANGED used
     \/ /\ IsCurrent(acceptClaim, call.slot)
        /\ Spend("faults", MaxFaults)
        /\ UNCHANGED sends \/ Hand(call.app, FALSE)
        /\ shown' = [shown EXCEPT !.review = [@ EXCEPT !.up = TRUE]]
        /\ toView' = toView \o Update("review")
     \/ /\ ~IsCurrent(acceptClaim, call.slot)
        /\ UNCHANGED sends \/ Hand(call.app, FALSE)
        /\ UNCHANGED <<shown, toView, used>>
  /\ UNCHANGED <<viewVars, toBackend, fitting, priceClaim>>

SubmitReturns(call) ==
  /\ call.op = "own"
  /\ calls' = calls \ {call}
  /\ \/ Hand(Own, TRUE) /\ Pend(shown.review)
     \/ UNCHANGED <<shown, toView, sends>>
  /\ UNCHANGED <<viewVars, toBackend, fitting, priceClaim, acceptClaim, used>>

(* The deadline of the claim in force passes with its call still out, or     *)
(* never to return; the sender may have taken a call that never does.        *)
Late(call) ==
  /\ Spend("faults", MaxFaults)
  /\ \/ /\ call.op = "price" /\ IsCurrent(priceClaim, call.slot)
        /\ priceClaim' = Lapsed(priceClaim)
        /\ UNCHANGED acceptClaim
     \/ /\ call.op = "accept" /\ IsCurrent(acceptClaim, call.slot)
        /\ acceptClaim' = Lapsed(acceptClaim)
        /\ UNCHANGED priceClaim
  /\ \/ UNCHANGED <<calls, sends>>
     \/ calls' = calls \ {call} /\ UNCHANGED sends
     \/ calls' = calls \ {call} /\ call.op = "accept" /\ Hand(call.app, FALSE)
  /\ UNCHANGED <<shown, viewVars, toView, toBackend, fitting>>

(* pollSend, on the tick that hears the pending send has settled. *)
PollSend ==
  /\ shown.pending # NoSend
  /\ sends[shown.pending].over
  /\ shown' = [shown EXCEPT !.outcome = shown.pending, !.pending = NoSend]
  /\ toView' = toView \o Update("outcome") \o Update("pending")
  /\ UNCHANGED <<viewVars, toBackend, fitting, claimVars, sends, used>>

(***************************************************************************)
(* The view                                                                *)
(***************************************************************************)
(* Mutated form of AnswerIntent: the id is not spent. *)
BrokenAnswerIntent(how, send) ==
  /\ told' = [a \in Apps |-> IF a = serving THEN [how |-> how, send |-> send] ELSE told[a]]
  /\ UNCHANGED serving

(* answerIntent: whoever is being served, if anyone, is answered. *)
AnswerIntent(how, send) ==
  /\ told' = [a \in Apps |-> IF a = serving THEN [how |-> how, send |-> send] ELSE told[a]]
  /\ serving' = NoApp

(* A request arriving over another ends the first. *)
IntentRequested(a) ==
  /\ told[a].how = "unasked"
  /\ told' = [b \in Apps |-> CASE b = a       -> [how |-> "waiting", send |-> NoSend]
                               [] b = serving -> [how |-> "cancelled", send |-> NoSend]
                               [] OTHER       -> told[b]]
  /\ serving' = a
  /\ toBackend' = Append(toBackend, Call("review", a))
  /\ UNCHANGED <<shown, seen, toView, fitting, claimVars, sends, used>>

Confirm ==
  /\ Open(seen.review) /\ seen.pending = NoSend /\ ~seen.pricing
  /\ Spend("clicks", MaxClicks)
  /\ toBackend' = Append(toBackend, Call("accept", NoApp))
  /\ UNCHANGED <<shown, seen, toView, fitting, claimVars, sends, serving, told>>

Decline ==
  /\ Open(seen.review)
  /\ Spend("clicks", MaxClicks)
  /\ toBackend' = Append(toBackend, Call("decline", NoApp))
  /\ AnswerIntent("cancelled", NoSend)
  /\ UNCHANGED <<shown, seen, toView, fitting, claimVars, sends>>

(* One at a time: submits that nest in each other are in module Send. *)
ConfirmOwn ==
  /\ seen.pending = NoSend
  /\ ~\E call \in calls : call.op = "own"
  /\ ~\E i \in DOMAIN toBackend : toBackend[i].slot = "submit"
  /\ Spend("clicks", MaxClicks)
  /\ toBackend' = Append(toBackend, Call("submit", NoApp))
  /\ UNCHANGED <<shown, viewVars, toView, fitting, claimVars, sends>>

(* Mutated form of Settles: the cleared id answers nobody. *)
BrokenSettles(update) ==
  /\ update.prop = "outcome"
  /\ seen'.pending = NoSend /\ seen'.outcome # NoSend /\ ~Open(seen'.review)

(* onPendingRequestIdChanged, onLastSendOutcomeJsonChanged: the outcome and  *)
(* the cleared id must agree; whichever lands second answers.                *)
Settles(update) ==
  /\ update.prop \in {"pending", "outcome"}
  /\ seen'.pending = NoSend /\ seen'.outcome # NoSend /\ ~Open(seen'.review)

(* onIntentSendJsonChanged: a refusal of the request being served, or of a   *)
(* record that names none.                                                   *)
Refuses(update) ==
  /\ update.prop = "review" /\ update.value.error
  /\ serving # NoApp /\ update.value.app \in {NoApp, serving}

PropertyChanged ==
  /\ toView # <<>>
  /\ toView' = Tail(toView)
  /\ LET update == Head(toView) IN
     /\ seen' = [seen EXCEPT ![update.prop] = update.value]
     /\ \/ /\ Settles(update)
           /\ AnswerIntent("settled", seen'.outcome)
           /\ UNCHANGED toBackend
        \/ /\ Refuses(update)
           /\ AnswerIntent("refused", NoSend)
           /\ toBackend' = Append(toBackend, Call("decline", NoApp))
        \/ /\ ~Settles(update) /\ ~Refuses(update)
           /\ UNCHANGED <<serving, told, toBackend>>
  /\ UNCHANGED <<shown, fitting, claimVars, sends, used>>

(***************************************************************************)
(* The rest of the world: the account or the network may move under the    *)
(* dialog, and the sender settles what it was handed.                      *)
(***************************************************************************)
WalletMoves ==
  /\ Spend("faults", MaxFaults)
  /\ \E a \in fitting : fitting' = fitting \ {a}
  /\ UNCHANGED <<shown, viewVars, toView, toBackend, claimVars, sends>>

SenderSettles(i) ==
  /\ ~sends[i].over
  /\ sends' = [sends EXCEPT ![i].over = TRUE]
  /\ UNCHANGED <<shown, viewVars, toView, toBackend, fitting, claimVars, used>>

-----------------------------------------------------------------------------
Init ==
  /\ shown = [pending |-> NoSend, outcome |-> NoSend, review |-> NoReview, pricing |-> FALSE]
  /\ seen = shown
  /\ toView = <<>> /\ toBackend = <<>>
  /\ fitting = Apps
  /\ priceClaim = FreeClaim /\ acceptClaim = FreeClaim
  /\ calls = {} /\ sends = <<>>
  /\ serving = NoApp
  /\ told = [a \in Apps |-> [how |-> "unasked", send |-> NoSend]]
  /\ used = [clicks |-> 0, faults |-> 0]

Returns ==
  \E call \in calls : PriceReturns(call) \/ AcceptReturns(call) \/ SubmitReturns(call)

Next ==
  \/ RunSlot
  \/ PropertyChanged
  \/ Returns
  \/ \E call \in calls : Late(call)
  \/ PriceTimer
  \/ PollSend
  \/ \E a \in Apps : IntentRequested(a)
  \/ Confirm
  \/ Decline
  \/ ConfirmOwn
  \/ WalletMoves
  \/ \E i \in DOMAIN sends : SenderSettles(i)

Spec == Init /\ [][Next]_vars

(* Slots and updates are delivered, calls that are not lost return, the poll *)
(* keeps ticking, and a send is settled.  The person owes nothing.           *)
Fairness ==
  /\ WF_vars(RunSlot)
  /\ WF_vars(PropertyChanged)
  /\ WF_vars(Returns)
  /\ WF_vars(PollSend)
  /\ WF_vars(\E i \in DOMAIN sends : SenderSettles(i))

FairSpec == Spec /\ Fairness

-----------------------------------------------------------------------------
(***************************************************************************)
(* Properties.                                                             *)
(***************************************************************************)
Reviews == {NoReview} \cup
           [up : {TRUE}, app : Apps \cup {NoApp}, error : BOOLEAN, fee : Apps \cup {NoApp}]

Published == [pending : Nat, outcome : Nat, review : Reviews, pricing : BOOLEAN]

Updates ==
  [prop : {"pending", "outcome"}, value : Nat]
    \cup [prop : {"review"}, value : Reviews] \cup [prop : {"pricing"}, value : BOOLEAN]

Slots == [slot : {"review", "accept", "decline", "submit"}, app : Apps \cup {NoApp}]

Calls ==
  [op : {"price", "accept"}, app : Apps, slot : Nat] \cup [op : {"own"}, app : {Own}, slot : {0}]

TypeOK ==
  /\ shown \in Published /\ seen \in Published
  /\ toView \in Seq(Updates) /\ toBackend \in Seq(Slots)
  /\ fitting \subseteq Apps
  /\ priceClaim \in Claims(Nat, 1) /\ acceptClaim \in Claims(Nat, 1)
  /\ calls \subseteq Calls
  /\ sends \in Seq([by : Apps \cup {Own}, heard : BOOLEAN, over : BOOLEAN])
  /\ shown.pending <= Len(sends)
  /\ serving \in Apps \cup {NoApp}
  /\ told \in [Apps -> [how : {"unasked", "waiting", "cancelled", "refused", "settled"}, send : Nat]]
  /\ used \in [clicks : Nat, faults : Nat]

(* However often Confirm is clicked and however late the sender answers, a   *)
(* request becomes one send, apart from those the sender took in a call the  *)
(* wallet heard no answer to (acceptIntentSend).                             *)
SentOnce ==
  \A i, j \in DOMAIN sends :
    sends[i].by \in Apps /\ sends[i].by = sends[j].by /\ sends[i].heard /\ sends[j].heard => i = j

(* The fee on a review is its own request's, whichever prices were out when  *)
(* it replaced another (reviewIntentSend's callback).                        *)
PriceIsOwn == shown.review.fee \in {NoApp, shown.review.app}

(* An app's answer is never followed by another (answerIntent): the shell's  *)
(* id is spent by it.                                                        *)
AnsweredOnce ==
  [][\A a \in Apps : told[a].how \notin {"unasked", "waiting"} => told'[a] = told[a]]_vars

(* No app waits for ever on a wallet that is not showing its request:        *)
(* whatever closed or replaced the review, an answer goes out.               *)
WaitsUnseen(a) ==
  told[a].how = "waiting" /\ ~(Open(seen.review) /\ seen.review.app = a)

NeverStranded == \A a \in Apps : WaitsUnseen(a) ~> ~WaitsUnseen(a)

(* Who waits for an answer is whom the view serves: a request it has put     *)
(* aside for another has been answered (intentRequested, answerIntent).      *)
WaiterIsServed == \A a \in Apps : told[a].how = "waiting" <=> serving = a

(* The view, with no update on its way, shows what the backend published,    *)
(* whichever of a handler's updates it acted on before it had the rest.      *)
ReplicaCatchesUp == toView = <<>> => seen = shown

(* An app that waits has its own request open on the screen, or something on *)
(* its way: an update, a slot, or a send the sender has still to settle.     *)
WaiterIsAttended ==
  \A a \in Apps : WaitsUnseen(a) => toView # <<>> \/ toBackend # <<>> \/ shown.pending # NoSend

(* EthWalletView.qml:233 says that the send another app asked for is what    *)
(* that app is answered with.                                                *)
AnsweredWithItsOwn ==
  \A a \in Apps : told[a].how = "settled" => sends[told[a].send].by = a
=============================================================================

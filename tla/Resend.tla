------------------------------- MODULE Resend -------------------------------
(***************************************************************************)
(* The resend of the transaction that holds the queue up: the history says *)
(* which nonce is blocked, a click checks, prices and quotes a replacement *)
(* in three calls on one claim, and a human confirms it like any send.     *)
(* Meanwhile the sender's ledger moves on, the selection moves, and        *)
(* another send may be on its way.                                         *)
(*                                                                         *)
(* One account and one chain; the published entry, the calls and the       *)
(* review carry `on`, a history variable: the attempts the history showed  *)
(* waiting at the nonce, and the nonces it or the status call said mined.  *)
(***************************************************************************)
EXTENDS Nonces, Claim

CONSTANTS Tiers,       \* fees the network suggests
          None,        \* "": no review, no pending request id
          MaxRows,     \* bound on the nonces and the replacements of the ledger
          MaxNow,      \* bound on time
          MaxClicks,   \* bound on clicks on Resend
          MaxTurns     \* bound on moves, and on calls that fail, are lost or outlive their claim

Bid == [nonce : Nat, fees : Fees]

On == [attempts : SUBSET Fees, mined : SUBSET Nat]

Review == [bid : Bid, on : On, gen : Nat]

ASSUME ResendAssumption ==
  /\ Tiers \subseteq Fees
  /\ None \notin Bid \cup Review
  /\ {MaxRows, MaxNow, MaxClicks, MaxTurns} \subseteq Nat

VARIABLES
  ledger,     \* the sender's rows
  stranded,   \* numbers the sender reserved and never sent
  mined,      \* the attempts the chain has mined
  now,
  dataGen,    \* m_dataGen
  blocked,    \* blockedNoncesJson: the entry of the chain, with `on`
  review,     \* resendReviewJson
  claim,      \* m_resendInFlight
  loading,    \* resendLoading
  timer,      \* the claim's lapse timer
  calls,      \* calls whose callback has not fired
  pending,    \* pendingRequestId: the bid that awaits its signature
  used

chain == <<ledger, stranded, mined, now>>
legs == <<claim, loading, timer, calls>>
vars == <<chain, dataGen, blocked, review, pending, legs, used>>

Entries == [nonce : Nat, of : Nat, resend : BOOLEAN, floor : Fees]

Call == [leg : {"status", "fees", "quote"}, entry : Entries, bid : Bid,
         on : On, gen : Nat, slot : Nat]

NotBlocked == [entry |-> NoEntry, on |-> [attempts |-> {}, mined |-> {}]]

Spend(what, max) == used[what] < max /\ used' = [used EXCEPT ![what] = @ + 1]

Stale(c) == ~IsCurrent(claim, c.slot) \/ c.gen # dataGen

(***************************************************************************)
(* resendBlockedNonce, and what follows each of its three calls.           *)
(***************************************************************************)
(* Mutated form of EndResend: the button is left to the claim's timer. *)
BrokenEndResend(c) ==
  /\ claim' = Released(claim, c.slot)
  /\ UNCHANGED loading
  /\ calls' = calls \ {c}

EndResend(c) ==
  /\ claim' = Released(claim, c.slot)
  /\ loading' = (loading /\ ~IsCurrent(claim, c.slot))
  /\ calls' = calls \ {c}

GoOn(c, next) ==
  /\ calls' = (calls \ {c}) \cup {next}
  /\ UNCHANGED <<claim, loading>>

(* An attempt that is not known by its hash is priced without asking. *)
ResendBlockedNonce ==
  /\ blocked.entry.resend /\ pending = None
  /\ ~Busy(claim)
  /\ Spend("clicks", MaxClicks)
  /\ claim' = Taken(claim, 1)
  /\ loading' = TRUE
  /\ timer' = "armed"
  /\ calls' = calls \cup {[leg   |-> IF blocked.entry.of = 0 THEN "fees" ELSE "status",
                           entry |-> blocked.entry,
                           bid   |-> [nonce |-> blocked.entry.nonce, fees |-> blocked.entry.floor],
                           on    |-> blocked.on, gen |-> dataGen, slot |-> claim.ticket + 1]}
  /\ UNCHANGED <<chain, dataGen, blocked, review, pending>>

PriceResend(c, told) == GoOn(c, [c EXCEPT !.leg = "fees", !.on = [c.on EXCEPT !.mined = @ \cup told]])

(* Asking for the receipt has the sender record what it says. *)
Learn(of) ==
  ledger' = {IF r.id = of /\ of \in mined THEN [r EXCEPT !.status = "confirmed"] ELSE r : r \in ledger}

(* Mutated form of StatusSays: whatever the status, the resend goes on. *)
BrokenStatusSays(c) ==
  PriceResend(c, IF c.entry.of \in mined THEN {c.entry.nonce} ELSE {})

StatusSays(c) ==
  \/ c.entry.of \in mined /\ EndResend(c)
  \/ c.entry.of \notin mined /\ PriceResend(c, {})

(* An attempt that mined is reread for and not replaced; any other answer, a *)
(* failure included, goes on.                                                *)
StatusReply(c, answered) ==
  /\ c.leg = "status"
  /\ \/ Stale(c) /\ EndResend(c)
     \/ ~Stale(c) /\ answered /\ StatusSays(c)
     \/ ~Stale(c) /\ ~answered /\ PriceResend(c, {})
  /\ IF answered THEN Learn(c.entry.of) ELSE UNCHANGED ledger
  /\ UNCHANGED review

FeesReply(c, answered) ==
  /\ c.leg = "fees"
  /\ \/ /\ Stale(c) \/ ~answered \/ ~Bumpable(c.entry.floor)
        /\ EndResend(c)
     \/ /\ ~Stale(c) /\ answered /\ Bumpable(c.entry.floor)
        /\ \E tier \in Tiers :
             GoOn(c, [c EXCEPT !.leg = "quote",
                               !.bid = [c.bid EXCEPT !.fees = ReplacementFees(tier, c.entry.floor)]])
  /\ UNCHANGED <<ledger, review>>

(* Mutated form of QuoteReply: the legs before it are not asked about again. *)
BrokenQuoteReply(c, answered) ==
  /\ c.leg = "quote"
  /\ EndResend(c)
  /\ review' = IF answered THEN [bid |-> c.bid, on |-> c.on, gen |-> c.gen] ELSE review
  /\ UNCHANGED ledger

QuoteReply(c, answered) ==
  /\ c.leg = "quote"
  /\ EndResend(c)
  /\ review' = IF answered /\ ~Stale(c) THEN [bid |-> c.bid, on |-> c.on, gen |-> c.gen] ELSE review
  /\ UNCHANGED ledger

Callback(c, answered) ==
  /\ \/ StatusReply(c, answered)
     \/ FeesReply(c, answered)
     \/ QuoteReply(c, answered)
  /\ IF answered THEN UNCHANGED used ELSE Spend("turns", MaxTurns)
  /\ UNCHANGED <<stranded, mined, now, dataGen, blocked, timer, pending>>

Lapse ==
  /\ Busy(claim)
  /\ claim' = Lapsed(claim)
  /\ UNCHANGED <<chain, dataGen, blocked, review, pending, loading, timer, calls>>

LapseAfterLoss == Lapse /\ (\A c \in calls : ~IsCurrent(claim, c.slot)) /\ UNCHANGED used

LapseBeforeReply == Lapse /\ (\E c \in calls : IsCurrent(claim, c.slot)) /\ Spend("turns", MaxTurns)

LapseTimer ==
  /\ timer = "armed"
  /\ \/ Busy(claim) /\ timer' = "early" /\ UNCHANGED loading
     \/ ~Busy(claim) /\ timer' = "none" /\ loading' = FALSE
  /\ UNCHANGED <<chain, dataGen, blocked, review, pending, claim, calls, used>>

LoseCallback(c) ==
  /\ Spend("turns", MaxTurns)
  /\ calls' = calls \ {c}
  /\ UNCHANGED <<chain, dataGen, blocked, review, pending, claim, loading, timer>>

(***************************************************************************)
(* Sends: the review that is confirmed, a transfer of the form, and what   *)
(* the human and the sender make of them.                                  *)
(***************************************************************************)
NextNonce == Cardinality({r.nonce : r \in ledger} \cup stranded)

Submit(bid) ==
  /\ pending = None
  /\ pending' = bid
  /\ review' = None
  /\ UNCHANGED <<chain, dataGen, blocked, legs, used>>

ConfirmReview == review # None /\ Submit(review.bid)

(* Advanced pins the nonce of a transfer that waits. *)
SubmitTransfer(tier) ==
  /\ Cardinality(ledger) + Cardinality(stranded) < MaxRows
  /\ \E nonce \in {NextNonce} \cup {r.nonce : r \in {a \in ledger : RowWaiting(a)}} :
       Submit([nonce |-> nonce, fees |-> tier])

DismissResend ==
  /\ review # None
  /\ review' = None
  /\ UNCHANGED <<chain, dataGen, blocked, pending, legs, used>>

(* A transfer of this wallet's, one not yet known by its hash, and what      *)
(* another app sent in words the view does not read.                         *)
Makes == {m \in [legible : BOOLEAN, transfer : BOOLEAN, hashed : BOOLEAN] :
            m.legible = m.transfer /\ (m.transfer \/ m.hashed)}

(* The signer approves and the sender broadcasts; a nonce the chain is past  *)
(* it does not.                                                              *)
Broadcast(make) ==
  /\ pending # None
  /\ pending.nonce >= Cardinality(mined)
  /\ Cardinality(ledger) + Cardinality(stranded) < MaxRows
  /\ ledger' = ledger \cup {[id |-> Cardinality(ledger) + 1, nonce |-> pending.nonce, time |-> now,
                            fees |-> pending.fees, status |-> "pending", stalled |-> FALSE,
                            legible |-> make.legible, transfer |-> make.transfer,
                            hashed |-> make.hashed]}
  /\ pending' = None
  /\ UNCHANGED <<stranded, mined, now, dataGen, blocked, review, legs, used>>

Declined ==
  /\ pending # None
  /\ pending' = None
  /\ UNCHANGED <<chain, dataGen, blocked, review, legs, used>>

(***************************************************************************)
(* The sender's ledger and the chain.                                      *)
(***************************************************************************)
Strands ==
  /\ Cardinality(ledger) + Cardinality(stranded) < MaxRows
  /\ stranded = {}
  /\ pending = None
  /\ stranded' = {NextNonce}
  /\ UNCHANGED <<ledger, mined, now, dataGen, blocked, review, pending, legs, used>>

Mines(r) ==
  /\ r.id \notin mined
  /\ r.nonce = Cardinality(mined)
  /\ mined' = mined \cup {r.id}
  /\ UNCHANGED <<ledger, stranded, now, dataGen, blocked, review, pending, legs, used>>

Settles(r, status) ==
  /\ ledger' = (ledger \ {r}) \cup {[r EXCEPT !.status = status]}
  /\ UNCHANGED <<stranded, mined, now, dataGen, blocked, review, pending, legs, used>>

(* The sweep finds the receipt, or a newer sender that another attempt mined. *)
SenderLearns(r) ==
  /\ RowWaiting(r)
  /\ \/ r.id \in mined /\ Settles(r, "confirmed")
     \/ /\ \E m \in ledger : RowMined(m) /\ m.nonce = r.nonce
        /\ Settles(r, "replaced")

(* The sender stops asking for a row's receipt. *)
Stalls(r) ==
  /\ RowWaiting(r) /\ ~r.stalled
  /\ ledger' = (ledger \ {r}) \cup {[r EXCEPT !.stalled = TRUE]}
  /\ UNCHANGED <<stranded, mined, now, dataGen, blocked, review, pending, legs, used>>

TimePasses ==
  /\ now < MaxNow
  /\ now' = now + 1
  /\ UNCHANGED <<ledger, stranded, mined, dataGen, blocked, review, pending, legs, used>>

(***************************************************************************)
(* The data lane's history, and moves of the selection.                    *)
(***************************************************************************)
Publish(entry) ==
  blocked' = [entry |-> entry,
              on    |-> [attempts |-> {r.fees : r \in {a \in ledger : RowWaiting(a) /\ a.nonce = entry.nonce}},
                         mined    |-> {r.nonce : r \in {a \in ledger : RowMined(a)}}]]

HistoryRead ==
  /\ Publish(BlockedNonces(MarkReplaced(ledger), stranded, now))
  /\ UNCHANGED <<chain, dataGen, review, pending, legs, used>>

HistoryRefused ==
  /\ blocked' = NotBlocked
  /\ UNCHANGED <<chain, dataGen, review, pending, legs, used>>

MoveSelection ==
  /\ Spend("turns", MaxTurns)
  /\ dataGen' = dataGen + 1
  /\ blocked' = NotBlocked
  /\ review' = None
  /\ UNCHANGED <<chain, pending, legs>>

-----------------------------------------------------------------------------
Init ==
  /\ ledger = {} /\ stranded = {} /\ mined = {} /\ now = 0
  /\ dataGen = 0
  /\ blocked = NotBlocked
  /\ review = None
  /\ pending = None
  /\ claim = FreeClaim
  /\ loading = FALSE /\ timer = "none"
  /\ calls = {}
  /\ used = [clicks |-> 0, turns |-> 0]

Next ==
  \/ ResendBlockedNonce
  \/ \E c \in calls, answered \in BOOLEAN : Callback(c, answered)
  \/ LapseAfterLoss
  \/ LapseBeforeReply
  \/ LapseTimer
  \/ \E c \in calls : LoseCallback(c)
  \/ ConfirmReview
  \/ \E tier \in Tiers : SubmitTransfer(tier)
  \/ DismissResend
  \/ \E make \in Makes : Broadcast(make)
  \/ Declined
  \/ Strands
  \/ \E r \in ledger : Mines(r)
  \/ \E r \in ledger : SenderLearns(r)
  \/ \E r \in ledger : Stalls(r)
  \/ TimePasses
  \/ HistoryRead
  \/ HistoryRefused
  \/ MoveSelection

Spec == Init /\ [][Next]_vars

(* Every call is answered, times out or is lost, and timers fire. *)
Fairness ==
  /\ WF_vars(\E c \in calls : Callback(c, TRUE))
  /\ WF_vars(LapseAfterLoss)
  /\ WF_vars(LapseTimer)

FairSpec == Spec /\ Fairness

-----------------------------------------------------------------------------
TypeOK ==
  /\ ledger \subseteq Row
  /\ stranded \subseteq Nat /\ mined \subseteq Nat /\ now \in Nat
  /\ dataGen \in Nat
  /\ blocked \in [entry : Entries, on : On]
  /\ review \in Review \cup {None}
  /\ pending \in Bid \cup {None}
  /\ claim \in Claims(Nat, 1)
  /\ loading \in BOOLEAN /\ timer \in LapseTimers
  /\ calls \subseteq Call
  /\ used \in [clicks : Nat, turns : Nat]

(* A replacement put up for review is one nodes take: a tenth above every    *)
(* attempt the history showed waiting at its nonce, on both fields, and its  *)
(* tip within its fee (blockedNonces' floors, through three calls, to        *)
(* replacementFees).                                                         *)
ReviewOutbids ==
  review # None =>
    /\ \A a \in review.on.attempts : Outbids(review.bid.fees, a)
    /\ review.bid.fees.tip <= review.bid.fees.fee

(* Nothing is put up for review at a nonce that the history it was clicked   *)
(* on, or the status it was checked by, had said was past.                   *)
NothingPastIsReviewed ==
  review # None => \A n \in review.on.mined : n < review.bid.nonce

(* A review belongs to the selection on screen: no leg of a click made       *)
(* before a move brings it back.                                             *)
ReviewIsSelections == review # None => review.gen = dataGen

(* While the three calls are out the button is shut; an earlier click's      *)
(* timer or late reply does not open it.                                     *)
ResendShowsSpinner == Busy(claim) => loading

OwnCallOut == \E c \in calls : IsCurrent(claim, c.slot)

(* The timer fired early, and the leg that could have made up for it is lost.*)
Stranded == timer = "early" /\ claim.held /\ ~OwnCallOut

(* While the button is shut the lapse timer is still to fire, or was spent   *)
(* early on a claim that is still held (beginClaim).                         *)
LapseIsArmed == loading => timer = "armed" \/ (timer = "early" /\ claim.held)

(* A claim that is held has one of its own legs out, and no step but the loss*)
(* of that leg ends it: every leg passes the claim on or gives it up.        *)
Attended == claim.held => OwnCallOut

LossAloneNeglects ==
  [][Attended => Attended' \/ \E c \in calls : IsCurrent(claim, c.slot) /\ LoseCallback(c)]_vars

(* The button comes back, whichever of the three calls is lost, late,        *)
(* refused or overtaken by a move, and whenever its timer fires: all but a   *)
(* timer fired early and a leg lost together (beginClaim).                   *)
ResendEnds == loading ~> ~loading \/ Stranded
=============================================================================

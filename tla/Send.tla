-------------------------------- MODULE Send --------------------------------
(***************************************************************************)
(* The life of the wallet's own send: submitted, polled until its signer   *)
(* settles it, or cancelled.  The three calls are synchronous, and each    *)
(* spins a nested event loop in which any other handler runs, the same one *)
(* included.  `stack` is the C++ stack of the handlers suspended in such a *)
(* call.  The backend is a concurrent module and may answer any of them in *)
(* any order, but only the handler on top of the stack can return.         *)
(*                                                                         *)
(* The sender's requests are external: what becomes of one is the signer's *)
(* and the network's doing.  A slot of the view is delivered in the order  *)
(* it was called in, so a click and its slot are one step.  Another app's  *)
(* sends and the resend of a blocked nonce are left out.                   *)
(***************************************************************************)
EXTENDS Sequences, Naturals

CONSTANTS Ids, NoId, Waiting, NoOutcome, NoQuote,
          MaxDepth,    \* bound on handlers suspended in a call
          MaxMoves,    \* bound on moves of the selection
          MaxQuotes,   \* bound on edits of the form
          MaxCancels,  \* bound on cancellations
          MaxFails     \* bound on refused and unanswered calls

ASSUME SendAssumption ==
  /\ NoId \notin Ids
  /\ {MaxDepth, MaxMoves, MaxQuotes, MaxCancels, MaxFails} \subseteq Nat

VARIABLES
  pending,     \* pendingRequestId, and pendingApprovalHandle with it
  polling,     \* m_sendPoll is active
  outcome,     \* lastSendOutcomeJson, and the request it is the outcome of
  sendError,   \* sendError is not empty
  submitting,  \* the view's sendSubmitting
  dataGen,     \* m_dataGen
  quoting,     \* the generation of an edit's quote that is out
  stack,       \* handlers suspended in a synchronous call, the top one last
  requests,    \* what the sender holds
  used

shownVars == <<pending, polling, outcome, sendError, submitting>>
vars      == <<shownVars, dataGen, quoting, stack, requests, used>>

Moving   == {"unborn", "awaitingApproval", "broadcasting"}
Finals   == {"broadcast", "rejected", "cancelled", "failed"}
Statuses == Moving \cup Finals

Final(id) == requests[id] \in Finals

Spend(what, max) == used[what] < max /\ used' = [used EXCEPT ![what] = @ + 1]

(***************************************************************************)
(* The stack.  A frame keeps what its handler holds across the call: the   *)
(* generation it began at and the request it is about.                     *)
(***************************************************************************)
Room == Len(stack) < MaxDepth

Suspend(op) ==
  stack' = Append(stack, [op |-> op, id |-> pending, gen |-> dataGen, reply |-> Waiting])

Beneath == SubSeq(stack, 1, Len(stack) - 1)

Top == stack[Len(stack)]

Returning(op) == stack # <<>> /\ Top.op = op /\ Top.reply # Waiting

Answer(i, reply) == stack' = [stack EXCEPT ![i].reply = reply]

Asked(i, op) == stack[i].op = op /\ stack[i].reply = Waiting

(* sendPolled: what a reply settles.  A refusal that may yet pass, an        *)
(* unanswered call and a send still moving all settle nothing.               *)
Unsettled == [settled |-> FALSE]
Settles(status) == [settled |-> TRUE, status |-> status]

(* Mutated form of StatusReply: every answer is taken for a final one. *)
BrokenStatusReply(id) == Settles(requests[id])

StatusReply(id) == IF Final(id) THEN Settles(requests[id]) ELSE Unsettled

(* applySend: taken under an id, or refused; no answer is a refusal. *)
Took(id) == [taken |-> TRUE, id |-> id]
NotTaken == [taken |-> FALSE]

(***************************************************************************)
(* submitSend                                                              *)
(***************************************************************************)
SubmitSend ==
  /\ Room
  /\ pending = NoId /\ ~submitting
  /\ submitting' = TRUE
  /\ sendError' = FALSE
  /\ Suspend("send")
  /\ UNCHANGED <<pending, polling, outcome, dataGen, quoting, requests, used>>

AnswerSend(i) ==
  /\ Asked(i, "send")
  /\ \/ \E id \in Ids :
          /\ requests[id] = "unborn"
          /\ requests' = [requests EXCEPT ![id] = "awaitingApproval"]
          /\ \/ Answer(i, Took(id)) /\ UNCHANGED used
             \/ Answer(i, NotTaken) /\ Spend("fails", MaxFails)
     \/ /\ Answer(i, NotTaken) /\ Spend("fails", MaxFails)
        /\ UNCHANGED requests
  /\ UNCHANGED <<shownVars, dataGen, quoting>>

(* Mutated form of SendTaken: the poll is not started. *)
BrokenSendTakenUnpolled(id) ==
  /\ pending' = id /\ submitting' = FALSE /\ outcome' = NoOutcome
  /\ UNCHANGED <<polling, sendError>>

SendTaken(id) ==
  /\ pending' = id /\ submitting' = FALSE
  /\ polling' = TRUE
  /\ outcome' = NoOutcome
  /\ UNCHANGED sendError

(* A refusal is shown to the selection it was made for, and to no other. *)
SendRefused(gen) ==
  /\ \/ gen = dataGen /\ sendError' = TRUE /\ submitting' = FALSE
     \/ gen # dataGen /\ UNCHANGED <<sendError, submitting>>
  /\ UNCHANGED <<pending, polling, outcome>>

ReturnSend ==
  /\ Returning("send")
  /\ stack' = Beneath
  /\ \/ Top.reply.taken /\ SendTaken(Top.reply.id)
     \/ ~Top.reply.taken /\ SendRefused(Top.gen)
  /\ UNCHANGED <<dataGen, quoting, requests, used>>

(***************************************************************************)
(* pollSend, from its timer or from a send_status_changed event            *)
(***************************************************************************)
PollSend ==
  /\ polling
  /\ \/ /\ pending = NoId
        /\ polling' = FALSE
        /\ UNCHANGED stack
     \/ /\ pending # NoId /\ Room
        /\ Suspend("status")
        /\ UNCHANGED polling
  /\ UNCHANGED <<pending, outcome, sendError, submitting, dataGen, quoting, requests, used>>

AnswerStatus(i) ==
  /\ Asked(i, "status")
  /\ \/ Answer(i, StatusReply(stack[i].id)) /\ UNCHANGED used
     \/ Answer(i, Unsettled) /\ Spend("fails", MaxFails)
  /\ UNCHANGED <<shownVars, dataGen, quoting, requests>>

(* Mutated form of Settle: the outcome goes up and the send stays pending. *)
BrokenSettle(frame) ==
  /\ outcome' = [id |-> frame.id, status |-> frame.reply.status]
  /\ UNCHANGED <<pending, polling>>

Settle(frame) ==
  /\ polling' = FALSE
  /\ outcome' = [id |-> frame.id, status |-> frame.reply.status]
  /\ pending' = NoId

(* A settled send is followed by refresh(), which suspends in its own calls. *)
ReturnStatus ==
  /\ Returning("status")
  /\ \/ /\ Top.reply.settled
        /\ Settle(Top)
        /\ stack' = Append(Beneath, [Top EXCEPT !.op = "refresh"])
     \/ /\ ~Top.reply.settled
        /\ stack' = Beneath
        /\ UNCHANGED <<pending, polling, outcome>>
  /\ UNCHANGED <<sendError, submitting, dataGen, quoting, requests, used>>

ReturnRefresh ==
  /\ Returning("refresh")
  /\ stack' = Beneath
  /\ UNCHANGED <<shownVars, dataGen, quoting, requests, used>>

(***************************************************************************)
(* cancelSend                                                              *)
(***************************************************************************)
CancelSend ==
  /\ Room
  /\ pending # NoId
  /\ Spend("cancels", MaxCancels)
  /\ Suspend("cancel")
  /\ UNCHANGED <<shownVars, dataGen, quoting, requests>>

(* Taken while nobody has approved; refused once the broadcast is claimed;   *)
(* of a send that is over the sender may say how it ended, or refuse.        *)
AnswerCancel(i) ==
  LET id == stack[i].id IN
  /\ Asked(i, "cancel")
  /\ \/ /\ requests[id] = "awaitingApproval"
        /\ requests' = [requests EXCEPT ![id] = "cancelled"]
        /\ \/ Answer(i, Settles("cancelled")) /\ UNCHANGED used
           \/ Answer(i, Unsettled) /\ Spend("fails", MaxFails)
     \/ /\ requests[id] # "awaitingApproval"
        /\ Answer(i, Unsettled)
        /\ UNCHANGED <<requests, used>>
     \/ /\ Final(id)
        /\ Answer(i, Settles(requests[id]))
        /\ UNCHANGED <<requests, used>>
     \/ /\ Answer(i, Unsettled) /\ Spend("fails", MaxFails)
        /\ UNCHANGED requests
  /\ UNCHANGED <<shownVars, dataGen, quoting>>

ReturnCancel ==
  /\ Returning("cancel")
  /\ stack' = Beneath
  /\ \/ Top.reply.settled /\ Settle(Top)
     \/ ~Top.reply.settled /\ UNCHANGED <<pending, polling, outcome>>
  /\ UNCHANGED <<sendError, submitting, dataGen, quoting, requests, used>>

(***************************************************************************)
(* What else writes sendError: a move of the selection withdraws it, an    *)
(* edit of the form clears it, and the edit's quote may be refused.        *)
(***************************************************************************)
SelectionMoves ==
  /\ Spend("moves", MaxMoves)
  /\ dataGen' = dataGen + 1
  /\ sendError' = FALSE
  /\ UNCHANGED <<pending, polling, outcome, submitting, quoting, stack, requests>>

QuoteEdit ==
  /\ quoting = NoQuote
  /\ Spend("quotes", MaxQuotes)
  /\ quoting' = dataGen
  /\ sendError' = FALSE
  /\ UNCHANGED <<pending, polling, outcome, submitting, dataGen, stack, requests>>

QuoteReply ==
  /\ quoting # NoQuote
  /\ quoting' = NoQuote
  /\ \/ UNCHANGED <<sendError, submitting>>
     \/ /\ quoting = dataGen
        /\ sendError' = TRUE
        /\ submitting' = FALSE
  /\ UNCHANGED <<pending, polling, outcome, dataGen, stack, requests, used>>

(***************************************************************************)
(* The signer and the sender.  A request nobody answers expires, a claimed *)
(* broadcast ends, and the sender may no longer hold either.               *)
(***************************************************************************)
Approve(id) ==
  /\ requests[id] = "awaitingApproval"
  /\ requests' = [requests EXCEPT ![id] = "broadcasting"]
  /\ UNCHANGED <<shownVars, dataGen, quoting, stack, used>>

SenderSettles(id) ==
  /\ \/ /\ requests[id] = "awaitingApproval"
        /\ requests' = [requests EXCEPT ![id] = "rejected"]
     \/ /\ requests[id] = "broadcasting"
        /\ requests' = [requests EXCEPT ![id] = "broadcast"]
     \/ /\ requests[id] \in {"awaitingApproval", "broadcasting"}
        /\ requests' = [requests EXCEPT ![id] = "failed"]
  /\ UNCHANGED <<shownVars, dataGen, quoting, stack, used>>

-----------------------------------------------------------------------------
Init ==
  /\ pending = NoId /\ polling = FALSE /\ outcome = NoOutcome
  /\ sendError = FALSE /\ submitting = FALSE
  /\ dataGen = 0 /\ quoting = NoQuote
  /\ stack = <<>>
  /\ requests = [id \in Ids |-> "unborn"]
  /\ used = [moves |-> 0, quotes |-> 0, cancels |-> 0, fails |-> 0]

Answers == \E i \in DOMAIN stack : AnswerSend(i) \/ AnswerStatus(i) \/ AnswerCancel(i)

Returns == ReturnSend \/ ReturnStatus \/ ReturnRefresh \/ ReturnCancel

Next ==
  \/ SubmitSend
  \/ PollSend
  \/ CancelSend
  \/ Answers
  \/ Returns
  \/ SelectionMoves
  \/ QuoteEdit
  \/ QuoteReply
  \/ \E id \in Ids : Approve(id) \/ SenderSettles(id)

Spec == Init /\ [][Next]_vars

(* A synchronous call returns, at worst by its timeout; the poll's timer     *)
(* keeps ticking; a quote is answered; and a request expires or ends.        *)
Fairness ==
  /\ WF_vars(Answers)
  /\ WF_vars(Returns)
  /\ WF_vars(PollSend)
  /\ WF_vars(QuoteReply)
  /\ \A id \in Ids : WF_vars(SenderSettles(id))

FairSpec == Spec /\ Fairness

-----------------------------------------------------------------------------
(***************************************************************************)
(* Properties.                                                             *)
(***************************************************************************)
StatusReplies == {Unsettled} \cup {Settles(status) : status \in Finals}
SendReplies   == {NotTaken} \cup {Took(id) : id \in Ids}

Frame ==
  [op : {"send"}, id : {NoId}, gen : Nat, reply : {Waiting} \cup SendReplies]
    \cup [op : {"status", "cancel", "refresh"}, id : Ids, gen : Nat,
          reply : {Waiting} \cup StatusReplies]

TypeOK ==
  /\ pending \in Ids \cup {NoId}
  /\ polling \in BOOLEAN /\ sendError \in BOOLEAN /\ submitting \in BOOLEAN
  /\ outcome \in {NoOutcome} \cup [id : Ids, status : Finals]
  /\ dataGen \in Nat
  /\ quoting \in Nat \cup {NoQuote}
  /\ stack \in Seq(Frame)
  /\ requests \in [Ids -> Statuses]
  /\ used \in [moves : Nat, quotes : Nat, cancels : Nat, fails : Nat]

(* A send that is pending is polled, whatever handlers were suspended when   *)
(* it was taken and whatever they do as they return: with the poll stopped   *)
(* an approved send would never be reported.                                 *)
PendingIsPolled == pending # NoId => polling

(* The receipt of an earlier send is never up beside a request that has not  *)
(* been answered yet (submitSend).                                           *)
NoReceiptBesidePending == pending # NoId => outcome = NoOutcome

(* What the last send is said to have come to is what its sender settled on, *)
(* though the reply was read while that send could still move.               *)
OutcomeIsTrue == outcome # NoOutcome => requests[outcome.id] = outcome.status

(* A pending request is forgotten only once it is over, or by a handler that *)
(* was suspended before it was taken.                                        *)
KeptUnlessReentered ==
  [][pending # NoId /\ pending' # pending => Final(pending) \/ Top.id # pending]_vars

(* Every pending send is reported in the end, through refused and unanswered *)
(* polls and refused cancellations.                                          *)
SendSettles == pending # NoId ~> pending = NoId

(* rep:146 says that the pending request is never forgotten, since that      *)
(* would orphan an approval the user still has to answer.                    *)
NothingOrphaned == [][pending # NoId /\ pending' # pending => Final(pending)]_vars
=============================================================================

----------------------------- MODULE Send_proofs -----------------------------
(***************************************************************************)
(* What holds of the wallet's own send however deep its synchronous calls  *)
(* nest and in whatever order they are answered: every depth, any number   *)
(* of requests.                                                            *)
(***************************************************************************)
EXTENDS Send, TLAPS

(* A settled reply is still what its request came to: a final status stays. *)
SaysTrue(f, held) ==
  f.op # "send" /\ f.reply # Waiting /\ f.reply.settled => held[f.id] = f.reply.status

RepliesTrue == \A i \in DOMAIN stack : SaysTrue(stack[i], requests)

IInv ==
  /\ TypeOK
  /\ RepliesTrue
  /\ PendingIsPolled
  /\ NoReceiptBesidePending
  /\ OutcomeIsTrue

-----------------------------------------------------------------------------
(* The stack. *)
LEMMA PushIn ==
  ASSUME NEW S, NEW s \in Seq(S), NEW f \in S
  PROVE  /\ Append(s, f) \in Seq(S)
         /\ \A i \in DOMAIN Append(s, f) :
               Append(s, f)[i] = f \/ \E j \in DOMAIN s : Append(s, f)[i] = s[j]
  OBVIOUS

LEMMA PopIn ==
  ASSUME NEW S, NEW s \in Seq(S), s # <<>>
  PROVE  LET b == SubSeq(s, 1, Len(s) - 1)
         IN  /\ b \in Seq(S)
             /\ \A i \in DOMAIN b : \E j \in DOMAIN s : b[i] = s[j]
             /\ Len(s) \in DOMAIN s /\ s[Len(s)] \in S
  OBVIOUS

LEMMA ReplaceIn ==
  ASSUME NEW S, NEW s \in Seq(S), NEW i \in DOMAIN s, NEW f \in S
  PROVE  /\ [s EXCEPT ![i] = f] \in Seq(S)
         /\ \A j \in DOMAIN [s EXCEPT ![i] = f] :
               [s EXCEPT ![i] = f][j] = f
                 \/ (j \in DOMAIN s /\ [s EXCEPT ![i] = f][j] = s[j])
  OBVIOUS

-----------------------------------------------------------------------------
(* What the sender has settled stays settled, so a reply that was true when  *)
(* it was made is true when its handler returns.                             *)
FinalsStay == \A id \in Ids : requests[id] \in Finals => requests'[id] = requests[id]

LEMMA TruthStays ==
  ASSUME TypeOK, FinalsStay, NEW f \in Frame, SaysTrue(f, requests)
  PROVE  SaysTrue(f, requests')
  BY DEF TypeOK, FinalsStay, SaysTrue, Frame, SendReplies, StatusReplies, Settles, Unsettled, Finals

LEMMA OutcomeStays ==
  ASSUME TypeOK, FinalsStay, OutcomeIsTrue, outcome' = outcome
  PROVE  OutcomeIsTrue'
  BY DEF TypeOK, FinalsStay, OutcomeIsTrue

(* A stack of which every frame was there before, or is a true one. *)
LEMMA StackStays ==
  ASSUME IInv, FinalsStay, NEW f \in Frame, SaysTrue(f, requests'),
         \A i \in DOMAIN stack' :
            stack'[i] = f \/ \E j \in DOMAIN stack : stack'[i] = stack[j]
  PROVE  RepliesTrue'
<1> SUFFICES ASSUME NEW i \in DOMAIN stack' PROVE SaysTrue(stack'[i], requests')
  BY DEF RepliesTrue
<1>1. CASE stack'[i] = f
  BY <1>1 DEF SaysTrue
<1>2. CASE \E j \in DOMAIN stack : stack'[i] = stack[j]
  <2>1. PICK j \in DOMAIN stack : stack'[i] = stack[j]
    BY <1>2
  <2>2. PICK g \in Frame : g = stack[j]
    BY DEF IInv, TypeOK
  <2>3. SaysTrue(g, requests)
    BY <2>2 DEF IInv, RepliesTrue, SaysTrue
  <2>4. SaysTrue(g, requests')
    BY <2>3, TruthStays DEF IInv
  <2> QED BY <2>1, <2>2, <2>4 DEF SaysTrue
<1> QED BY <1>1, <1>2

LEMMA SuspendKeeps ==
  ASSUME IInv, NEW op \in {"send", "status", "cancel"}, Suspend(op),
         op = "send" <=> pending = NoId, UNCHANGED requests
  PROVE  stack' \in Seq(Frame) /\ RepliesTrue'
<1> DEFINE f == [op |-> op, id |-> pending, gen |-> dataGen, reply |-> Waiting]
<1>1. f \in Frame
  BY SendAssumption DEF IInv, TypeOK, Frame
<1>2. SaysTrue(f, requests')
  BY DEF SaysTrue
<1>3. FinalsStay
  BY DEF FinalsStay
<1>4. stack \in Seq(Frame) /\ stack' = Append(stack, f)
  BY DEF IInv, TypeOK, Suspend
<1> HIDE DEF f
<1>5. /\ stack' \in Seq(Frame)
      /\ \A i \in DOMAIN stack' : stack'[i] = f \/ \E j \in DOMAIN stack : stack'[i] = stack[j]
  BY <1>1, <1>4, PushIn
<1> QED BY <1>1, <1>2, <1>3, <1>5, StackStays

LEMMA AnswerKeeps ==
  ASSUME IInv, NEW i \in DOMAIN stack, NEW reply, Answer(i, reply), FinalsStay,
         [stack[i] EXCEPT !.reply = reply] \in Frame,
         SaysTrue([stack[i] EXCEPT !.reply = reply], requests')
  PROVE  stack' \in Seq(Frame) /\ RepliesTrue'
<1>1. PICK f \in Frame : f = [stack[i] EXCEPT !.reply = reply]
  OBVIOUS
<1>2. stack \in Seq(Frame) /\ stack' = [stack EXCEPT ![i] = f]
  BY <1>1 DEF IInv, TypeOK, Answer
<1>3. /\ stack' \in Seq(Frame)
      /\ \A j \in DOMAIN stack' : stack'[j] = f \/ \E k \in DOMAIN stack : stack'[j] = stack[k]
  BY <1>2, ReplaceIn
<1>4. SaysTrue(f, requests')
  BY <1>1 DEF SaysTrue
<1> QED BY <1>3, <1>4, StackStays

(* The top frame, once answered, and the stack without it. *)
LEMMA TopIn ==
  ASSUME IInv, stack # <<>>
  PROVE  /\ Top \in Frame /\ SaysTrue(Top, requests)
         /\ Beneath \in Seq(Frame)
         /\ \A i \in DOMAIN Beneath : \E j \in DOMAIN stack : Beneath[i] = stack[j]
<1>1. stack \in Seq(Frame)
  BY DEF IInv, TypeOK
<1>2. /\ Beneath \in Seq(Frame)
      /\ \A i \in DOMAIN Beneath : \E j \in DOMAIN stack : Beneath[i] = stack[j]
      /\ Len(stack) \in DOMAIN stack /\ Top \in Frame
  BY <1>1, PopIn DEF Beneath, Top
<1>3. SaysTrue(Top, requests)
  BY <1>2 DEF IInv, RepliesTrue, Top, SaysTrue
<1> QED BY <1>2, <1>3

LEMMA PopKeeps ==
  ASSUME IInv, stack # <<>>, stack' = Beneath, FinalsStay
  PROVE  stack' \in Seq(Frame) /\ RepliesTrue'
<1>1. Top \in Frame /\ SaysTrue(Top, requests)
  BY TopIn
<1>2. PICK f \in Frame : f = Top
  BY <1>1
<1>3. SaysTrue(f, requests')
  BY <1>1, <1>2, TruthStays DEF IInv, SaysTrue
<1> QED BY <1>3, TopIn, StackStays

-----------------------------------------------------------------------------
(* Handlers that suspend, answers that arrive, handlers that return. *)
LEMMA SubmitKeeps == ASSUME IInv, SubmitSend PROVE IInv'
<1>1. stack' \in Seq(Frame) /\ RepliesTrue'
  BY SuspendKeeps DEF SubmitSend
<1> QED
  BY <1>1 DEF SubmitSend, IInv, TypeOK, PendingIsPolled, NoReceiptBesidePending, OutcomeIsTrue

LEMMA PollKeeps == ASSUME IInv, PollSend PROVE IInv'
<1>1. CASE pending = NoId /\ polling' = FALSE /\ stack' = stack
  BY <1>1 DEF PollSend, IInv, TypeOK, RepliesTrue, PendingIsPolled, NoReceiptBesidePending,
              OutcomeIsTrue
<1>2. CASE pending # NoId /\ Suspend("status") /\ polling' = polling
  <2>1. stack' \in Seq(Frame) /\ RepliesTrue'
    BY <1>2, SuspendKeeps DEF PollSend
  <2> QED
    BY <1>2, <2>1 DEF PollSend, IInv, TypeOK, PendingIsPolled, NoReceiptBesidePending, OutcomeIsTrue
<1> QED BY <1>1, <1>2 DEF PollSend

LEMMA CancelKeeps == ASSUME IInv, CancelSend PROVE IInv'
<1>1. stack' \in Seq(Frame) /\ RepliesTrue'
  BY SuspendKeeps DEF CancelSend
<1>2. used' \in [moves : Nat, quotes : Nat, cancels : Nat, fails : Nat]
  BY DEF CancelSend, Spend, IInv, TypeOK
<1> QED
  BY <1>1, <1>2 DEF CancelSend, shownVars, IInv, TypeOK, PendingIsPolled, NoReceiptBesidePending,
                    OutcomeIsTrue

(* What an answer changes: the stack, the sender's requests, the bounds. *)
LEMMA AnsweredKeeps ==
  ASSUME IInv, stack' \in Seq(Frame), RepliesTrue', FinalsStay,
         requests' \in [Ids -> Statuses],
         used' = used \/ \E max : Spend("fails", max),
         UNCHANGED <<shownVars, dataGen, quoting>>
  PROVE  IInv'
<1>1. used' \in [moves : Nat, quotes : Nat, cancels : Nat, fails : Nat]
  BY DEF Spend, IInv, TypeOK
<1>2. OutcomeIsTrue'
  BY OutcomeStays DEF shownVars, IInv
<1> QED BY <1>1, <1>2 DEF shownVars, IInv, TypeOK, PendingIsPolled, NoReceiptBesidePending

LEMMA AnswerSendKeeps ==
  ASSUME IInv, NEW i \in DOMAIN stack, AnswerSend(i) PROVE IInv'
<1>1. stack[i] \in Frame /\ stack[i].op = "send"
  BY DEF IInv, TypeOK, AnswerSend, Asked
<1>2. FinalsStay /\ requests' \in [Ids -> Statuses]
  BY DEF AnswerSend, IInv, TypeOK, FinalsStay, Finals, Moving, Statuses
<1>3. PICK reply \in SendReplies : Answer(i, reply)
  BY DEF AnswerSend, SendReplies
<1>4. /\ [stack[i] EXCEPT !.reply = reply] \in Frame
      /\ SaysTrue([stack[i] EXCEPT !.reply = reply], requests')
  BY <1>1, <1>3 DEF Frame, SaysTrue
<1>5. stack' \in Seq(Frame) /\ RepliesTrue'
  BY <1>2, <1>3, <1>4, AnswerKeeps
<1>6. /\ used' = used \/ \E max : Spend("fails", max)
      /\ UNCHANGED <<shownVars, dataGen, quoting>>
  BY DEF AnswerSend
<1> QED BY <1>2, <1>5, <1>6, AnsweredKeeps

LEMMA AnswerStatusKeeps ==
  ASSUME IInv, NEW i \in DOMAIN stack, AnswerStatus(i) PROVE IInv'
<1>1. /\ stack[i] \in Frame /\ stack[i].op = "status" /\ stack[i].id \in Ids
      /\ requests' = requests
  BY DEF IInv, TypeOK, AnswerStatus, Asked, Frame
<1>2. FinalsStay /\ requests' \in [Ids -> Statuses]
  BY <1>1 DEF IInv, TypeOK, FinalsStay
<1>3. PICK reply \in {Unsettled, StatusReply(stack[i].id)} : Answer(i, reply)
  BY DEF AnswerStatus
<1>4. reply \in StatusReplies /\ (reply.settled => requests[stack[i].id] = reply.status)
  BY <1>1 DEF StatusReply, StatusReplies, Final, Settles, Unsettled
<1>5. /\ [stack[i] EXCEPT !.reply = reply] \in Frame
      /\ SaysTrue([stack[i] EXCEPT !.reply = reply], requests')
  BY <1>1, <1>4 DEF Frame, SaysTrue
<1>6. stack' \in Seq(Frame) /\ RepliesTrue'
  BY <1>2, <1>3, <1>5, AnswerKeeps
<1>7. /\ used' = used \/ \E max : Spend("fails", max)
      /\ UNCHANGED <<shownVars, dataGen, quoting>>
  BY DEF AnswerStatus
<1> QED BY <1>2, <1>6, <1>7, AnsweredKeeps

LEMMA AnswerCancelKeeps ==
  ASSUME IInv, NEW i \in DOMAIN stack, AnswerCancel(i) PROVE IInv'
<1>1. stack[i] \in Frame /\ stack[i].op = "cancel" /\ stack[i].id \in Ids
  BY DEF IInv, TypeOK, AnswerCancel, Asked, Frame
<1>2. FinalsStay /\ requests' \in [Ids -> Statuses]
  BY DEF AnswerCancel, IInv, TypeOK, FinalsStay, Finals, Moving, Statuses
<1>3. PICK reply \in StatusReplies :
         Answer(i, reply) /\ (reply.settled => requests'[stack[i].id] = reply.status)
  <2>1. CASE Answer(i, Unsettled)
    BY <2>1 DEF StatusReplies, Unsettled
  <2>2. CASE requests' = [requests EXCEPT ![stack[i].id] = "cancelled"]
               /\ Answer(i, Settles("cancelled"))
    BY <1>1, <2>2 DEF IInv, TypeOK, StatusReplies, Settles, Finals
  <2>3. CASE Final(stack[i].id) /\ requests' = requests
               /\ Answer(i, Settles(requests[stack[i].id]))
    BY <2>3 DEF Final, StatusReplies, Settles
  <2> QED BY <2>1, <2>2, <2>3 DEF AnswerCancel
<1>4. /\ [stack[i] EXCEPT !.reply = reply] \in Frame
      /\ SaysTrue([stack[i] EXCEPT !.reply = reply], requests')
  BY <1>1, <1>3 DEF Frame, SaysTrue
<1>5. stack' \in Seq(Frame) /\ RepliesTrue'
  BY <1>2, <1>3, <1>4, AnswerKeeps
<1>6. /\ used' = used \/ \E max : Spend("fails", max)
      /\ UNCHANGED <<shownVars, dataGen, quoting>>
  BY DEF AnswerCancel
<1> QED BY <1>2, <1>5, <1>6, AnsweredKeeps

(* A settled reply publishes a true outcome and leaves nothing pending. *)
LEMMA SettleKeeps ==
  ASSUME IInv, NEW f \in Frame, f.op # "send", f.reply # Waiting, f.reply.settled,
         SaysTrue(f, requests), Settle(f), requests' = requests
  PROVE  /\ outcome' \in [id : Ids, status : Finals] /\ polling' = FALSE /\ pending' = NoId
         /\ PendingIsPolled' /\ NoReceiptBesidePending' /\ OutcomeIsTrue'
  BY DEF Settle, Frame, StatusReplies, Settles, Unsettled, SaysTrue, PendingIsPolled,
         NoReceiptBesidePending, OutcomeIsTrue

LEMMA ReturnSendKeeps == ASSUME IInv, ReturnSend PROVE IInv'
<1>1. stack # <<>> /\ stack' = Beneath /\ FinalsStay
  BY DEF ReturnSend, Returning, FinalsStay
<1>2. stack' \in Seq(Frame) /\ RepliesTrue'
  BY <1>1, PopKeeps
<1>3. Top \in Frame /\ Top.op = "send" /\ Top.reply \in SendReplies
  BY <1>1, TopIn DEF ReturnSend, Returning, Frame
<1>4. CASE Top.reply.taken /\ SendTaken(Top.reply.id)
  <2>1. Top.reply.id \in Ids
    BY <1>3, <1>4 DEF SendReplies, Took, NotTaken
  <2> QED BY <1>2, <1>4, <2>1 DEF SendTaken, ReturnSend, IInv, TypeOK, PendingIsPolled,
                                  NoReceiptBesidePending, OutcomeIsTrue
<1>5. CASE SendRefused(Top.gen)
  BY <1>2, <1>5 DEF SendRefused, ReturnSend, IInv, TypeOK, PendingIsPolled,
                    NoReceiptBesidePending, OutcomeIsTrue
<1> QED BY <1>4, <1>5 DEF ReturnSend

LEMMA ReturnStatusKeeps == ASSUME IInv, ReturnStatus PROVE IInv'
<1>1. stack # <<>> /\ FinalsStay /\ Top.op = "status" /\ Top.reply # Waiting
  BY DEF ReturnStatus, Returning, FinalsStay
<1>2. /\ Top \in Frame /\ SaysTrue(Top, requests) /\ Beneath \in Seq(Frame)
      /\ \A i \in DOMAIN Beneath : \E j \in DOMAIN stack : Beneath[i] = stack[j]
  BY <1>1, TopIn
<1>3. CASE Top.reply.settled /\ Settle(Top) /\ stack' = Append(Beneath, [Top EXCEPT !.op = "refresh"])
  <2>1. PICK f \in Frame : f = [Top EXCEPT !.op = "refresh"]
    BY <1>1, <1>2 DEF Frame
  <2>2. SaysTrue(f, requests')
    BY <1>1, <1>2, <2>1 DEF SaysTrue, ReturnStatus, Frame
  <2>3. stack' = Append(Beneath, f)
    BY <1>3, <2>1
  <2>4. /\ stack' \in Seq(Frame)
        /\ \A i \in DOMAIN stack' : stack'[i] = f \/ \E j \in DOMAIN Beneath : stack'[i] = Beneath[j]
    <3> HIDE DEF Beneath
    <3> QED BY <1>2, <2>3, PushIn
  <2>5. RepliesTrue'
    BY <1>1, <1>2, <2>2, <2>4, StackStays
  <2>6. /\ outcome' \in [id : Ids, status : Finals] /\ polling' = FALSE /\ pending' = NoId
        /\ PendingIsPolled' /\ NoReceiptBesidePending' /\ OutcomeIsTrue'
    BY <1>1, <1>2, <1>3, SettleKeeps DEF ReturnStatus
  <2> QED BY <2>4, <2>5, <2>6 DEF ReturnStatus, IInv, TypeOK
<1>4. CASE stack' = Beneath /\ UNCHANGED <<pending, polling, outcome>>
  <2>1. stack' \in Seq(Frame) /\ RepliesTrue'
    BY <1>1, <1>4, PopKeeps
  <2> QED BY <1>4, <2>1 DEF ReturnStatus, IInv, TypeOK, PendingIsPolled,
                            NoReceiptBesidePending, OutcomeIsTrue
<1> QED BY <1>3, <1>4 DEF ReturnStatus

LEMMA ReturnCancelKeeps == ASSUME IInv, ReturnCancel PROVE IInv'
<1>1. /\ stack # <<>> /\ stack' = Beneath /\ FinalsStay
      /\ Top.op = "cancel" /\ Top.reply # Waiting
  BY DEF ReturnCancel, Returning, FinalsStay
<1>2. stack' \in Seq(Frame) /\ RepliesTrue'
  BY <1>1, PopKeeps
<1>3. CASE Top.reply.settled /\ Settle(Top)
  <2>1. /\ outcome' \in [id : Ids, status : Finals] /\ polling' = FALSE /\ pending' = NoId
        /\ PendingIsPolled' /\ NoReceiptBesidePending' /\ OutcomeIsTrue'
    BY <1>1, <1>3, TopIn, SettleKeeps DEF ReturnCancel
  <2> QED BY <1>2, <2>1 DEF ReturnCancel, IInv, TypeOK
<1>4. CASE UNCHANGED <<pending, polling, outcome>>
  BY <1>2, <1>4 DEF ReturnCancel, IInv, TypeOK, PendingIsPolled, NoReceiptBesidePending,
                    OutcomeIsTrue
<1> QED BY <1>3, <1>4 DEF ReturnCancel

LEMMA ReturnRefreshKeeps == ASSUME IInv, ReturnRefresh PROVE IInv'
<1>1. stack' \in Seq(Frame) /\ RepliesTrue'
  BY PopKeeps DEF ReturnRefresh, Returning, FinalsStay
<1> QED BY <1>1 DEF ReturnRefresh, shownVars, IInv, TypeOK, PendingIsPolled,
                    NoReceiptBesidePending, OutcomeIsTrue

(* The steps that leave the stack alone. *)
LEMMA OtherKeeps ==
  ASSUME IInv,
         \/ SelectionMoves \/ QuoteEdit \/ QuoteReply
         \/ \E id \in Ids : Approve(id) \/ SenderSettles(id)
         \/ UNCHANGED vars
  PROVE  IInv'
<1>1. CASE SelectionMoves \/ QuoteEdit \/ QuoteReply \/ UNCHANGED vars
  <2>1. /\ used' \in [moves : Nat, quotes : Nat, cancels : Nat, fails : Nat]
        /\ sendError' \in BOOLEAN /\ submitting' \in BOOLEAN
        /\ dataGen' \in Nat /\ quoting' \in Nat \cup {NoQuote}
    <3>1. CASE SelectionMoves
      <4>1. used' \in [moves : Nat, quotes : Nat, cancels : Nat, fails : Nat]
        BY <3>1 DEF SelectionMoves, Spend, IInv, TypeOK
      <4>2. dataGen' \in Nat /\ quoting' \in Nat \cup {NoQuote}
        BY <3>1 DEF SelectionMoves, IInv, TypeOK
      <4>3. sendError' \in BOOLEAN /\ submitting' \in BOOLEAN
        BY <3>1 DEF SelectionMoves, IInv, TypeOK
      <4> QED BY <4>1, <4>2, <4>3
    <3>2. CASE QuoteEdit
      <4>1. used' \in [moves : Nat, quotes : Nat, cancels : Nat, fails : Nat]
        BY <3>2 DEF QuoteEdit, Spend, IInv, TypeOK
      <4>2. dataGen' \in Nat /\ quoting' \in Nat \cup {NoQuote}
        BY <3>2 DEF QuoteEdit, IInv, TypeOK
      <4>3. sendError' \in BOOLEAN /\ submitting' \in BOOLEAN
        BY <3>2 DEF QuoteEdit, IInv, TypeOK
      <4> QED BY <4>1, <4>2, <4>3
    <3>3. CASE QuoteReply
      BY <3>3 DEF QuoteReply, IInv, TypeOK
    <3>4. CASE UNCHANGED vars
      BY <3>4 DEF vars, shownVars, IInv, TypeOK
    <3> QED BY <1>1, <3>1, <3>2, <3>3, <3>4
  <2>2. UNCHANGED <<pending, polling, outcome, stack, requests>>
    BY <1>1 DEF SelectionMoves, QuoteEdit, QuoteReply, vars, shownVars
  <2>3. PendingIsPolled' /\ NoReceiptBesidePending' /\ OutcomeIsTrue' /\ RepliesTrue'
    BY <2>2 DEF IInv, RepliesTrue, PendingIsPolled, NoReceiptBesidePending, OutcomeIsTrue
  <2> QED BY <2>1, <2>2, <2>3 DEF IInv, TypeOK
<1>2. ASSUME NEW id \in Ids, Approve(id) \/ SenderSettles(id) PROVE IInv'
  <2>1. FinalsStay /\ requests' \in [Ids -> Statuses]
    BY <1>2 DEF Approve, SenderSettles, FinalsStay, IInv, TypeOK, Finals, Moving, Statuses
  <2>2. stack' = stack /\ UNCHANGED <<shownVars, dataGen, quoting, used>>
    BY <1>2 DEF Approve, SenderSettles
  <2>3. stack' \in Seq(Frame) /\ RepliesTrue'
    <3>1. \A i \in DOMAIN stack : stack[i] \in Frame /\ SaysTrue(stack[i], requests)
      BY DEF IInv, TypeOK, RepliesTrue
    <3>2. \A f \in Frame : SaysTrue(f, requests) => SaysTrue(f, requests')
      BY <2>1, TruthStays DEF IInv
    <3> QED BY <2>2, <3>1, <3>2 DEF RepliesTrue, IInv, TypeOK
  <2> QED BY <2>1, <2>2, <2>3, AnsweredKeeps
<1> QED BY <1>1, <1>2

LEMMA StepKeeps == IInv /\ [Next]_vars => IInv'
<1> SUFFICES ASSUME IInv, [Next]_vars PROVE IInv'
  OBVIOUS
<1>1. CASE SubmitSend \/ PollSend \/ CancelSend
  BY <1>1, SubmitKeeps, PollKeeps, CancelKeeps
<1>2. CASE Answers
  BY <1>2, AnswerSendKeeps, AnswerStatusKeeps, AnswerCancelKeeps DEF Answers
<1>3. CASE Returns
  BY <1>3, ReturnSendKeeps, ReturnStatusKeeps, ReturnRefreshKeeps, ReturnCancelKeeps DEF Returns
<1>4. CASE \/ SelectionMoves \/ QuoteEdit \/ QuoteReply
           \/ \E id \in Ids : Approve(id) \/ SenderSettles(id)
           \/ UNCHANGED vars
  BY <1>4, OtherKeeps
<1> QED BY <1>1, <1>2, <1>3, <1>4 DEF Next

LEMMA InitKeeps == Init => IInv
<1> SUFFICES ASSUME Init PROVE IInv
  OBVIOUS
<1>1. stack \in Seq(Frame) /\ DOMAIN stack = {}
  BY DEF Init
<1>2. requests \in [Ids -> Statuses]
  BY DEF Init, Statuses, Moving
<1> QED BY <1>1, <1>2 DEF Init, IInv, TypeOK, RepliesTrue, PendingIsPolled,
                          NoReceiptBesidePending, OutcomeIsTrue

LEMMA Invariance == Spec => []IInv
  BY InitKeeps, StepKeeps, PTL DEF Spec

(* The variables keep their types. *)
THEOREM TypeCorrect == Spec => []TypeOK
<1>1. IInv => TypeOK
  BY DEF IInv
<1> QED BY <1>1, Invariance, PTL

(* A pending send is always polled: no order of nested calls stops the poll  *)
(* under it.                                                                 *)
THEOREM AlwaysPolled == Spec => []PendingIsPolled
<1>1. IInv => PendingIsPolled
  BY DEF IInv
<1> QED BY <1>1, Invariance, PTL

(* No receipt is up beside a request that has not been answered. *)
THEOREM ReceiptComesAlone == Spec => []NoReceiptBesidePending
<1>1. IInv => NoReceiptBesidePending
  BY DEF IInv
<1> QED BY <1>1, Invariance, PTL

(* The outcome on screen is the one its request came to. *)
THEOREM OutcomeStaysTrue == Spec => []OutcomeIsTrue
<1>1. IInv => OutcomeIsTrue
  BY DEF IInv
<1> QED BY <1>1, Invariance, PTL

(* A pending request is forgotten only when it is over, or by a handler      *)
(* suspended before it was taken: re-entry is the only way to orphan one.    *)
THEOREM OnlyReentryForgets == Spec => KeptUnlessReentered
<1> DEFINE Kept == pending # NoId /\ pending' # pending => Final(pending) \/ Top.id # pending
<1>1. ASSUME IInv, [Next]_vars PROVE [Kept]_vars
  <2> SUFFICES ASSUME pending # NoId, pending' # pending, Top.id = pending PROVE Final(pending)
    OBVIOUS
  <2>1. ASSUME Top \in Frame, SaysTrue(Top, requests), Top.op # "send", Top.reply # Waiting,
               Top.reply.settled
        PROVE  Final(pending)
    BY <2>1 DEF SaysTrue, Frame, StatusReplies, Settles, Unsettled, Final
  <2>2. CASE ReturnSend
    <3>1. Top.id = NoId
      BY <1>1, <2>2, TopIn DEF ReturnSend, Returning, Frame
    <3> QED BY <3>1
  <2>3. CASE ReturnStatus \/ ReturnCancel
    BY <1>1, <2>1, <2>3, TopIn DEF ReturnStatus, ReturnCancel, Returning
  <2> QED
    BY <1>1, <2>2, <2>3 DEF Next, SubmitSend, PollSend, CancelSend, Answers, AnswerSend, AnswerStatus,
                      AnswerCancel, Returns, ReturnRefresh, SelectionMoves, QuoteEdit, QuoteReply,
                      Approve, SenderSettles, shownVars, vars
<1> QED BY <1>1, Invariance, PTL DEF Spec, KeptUnlessReentered
=============================================================================

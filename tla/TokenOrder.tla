----------------------------- MODULE TokenOrder -----------------------------
(***************************************************************************)
(* The order the token rows are built in: one setting of the wallet        *)
(* backend, chosen here or in another instance, and echoed by every read   *)
(* of tokens and balances.  set_token_sort and list_tokens are synchronous *)
(* and run an event loop inside which anything else may happen, so the     *)
(* handlers that wait on them are a stack; get_balances is not.            *)
(*                                                                         *)
(* The backend serves its calls in the order they were made.  Orders carry *)
(* the version of the setting they are, which only the properties read.    *)
(***************************************************************************)
EXTENDS Naturals, Sequences

CONSTANTS Orders,      \* the orders this build knows
          NotSaid,     \* a reply that names no order
          MaxChoices,  \* bound on choices made here
          MaxOthers,   \* bound on choices made in other instances, and other notices
          MaxRefusals  \* bound on refused or unheard calls

ASSUME OrderAssumption ==
  /\ {MaxChoices, MaxOthers, MaxRefusals} \subseteq Nat

VARIABLES
  stored,      \* the backend's setting
  tokenSort,   \* what the view's menu shows
  choiceGen,   \* m_sortChoiceGen
  waiting,     \* the handlers suspended in a synchronous call, innermost last
  balances,    \* get_balances calls on the data lane: at most one
  again,       \* m_dataLane owes a re-run
  due,         \* refreshes queued by refreshSoon
  inFlight,    \* m_inFlight and m_refreshAgain
  events,      \* token_sort_changed on its way here
  chosen,      \* history variable: version of the last choice accepted here
  overtaken,   \* history variable: the setting changed again before a choice returned
  spent

reads == <<balances, again>>
orderVars == <<stored, tokenSort, choiceGen, waiting, reads, due, inFlight, events, chosen, overtaken, spent>>

Version == [order : Orders, version : Nat]

ASSUME NotSaidAssumption == NotSaid \notin Version

Replies == Version \cup {NotSaid}
Handler == [kind : {"choice", "tokens"}, reply : Replies, gen : Nat]
Read    == [reply : Replies, gen : Nat]

Charge(what, max) == spent[what] < max /\ spent' = [spent EXCEPT ![what] = @ + 1]

Top == waiting[Len(waiting)]

Below == SubSeq(waiting, 1, Len(waiting) - 1)

ChoiceWaits == \E i \in DOMAIN waiting : waiting[i].kind = "choice" /\ waiting[i].reply # NotSaid

(* The backend stores an order and tells every instance. *)
Store(order) ==
  /\ stored' = [order |-> order, version |-> stored.version + 1]
  /\ events' = Append(events, stored')
  /\ overtaken' = (overtaken \/ ChoiceWaits)

(***************************************************************************)
(* chooseTokenSort.                                                        *)
(***************************************************************************)
(* Mutated form of ChooseTokenSort: the choice is counted when it returns. *)
BrokenChooseTokenSort(order) ==
  /\ Charge("choices", MaxChoices)
  /\ Store(order)
  /\ waiting' = Append(waiting, [kind |-> "choice", reply |-> stored', gen |-> choiceGen])
  /\ chosen' = stored'.version
  /\ UNCHANGED <<tokenSort, choiceGen, reads, due, inFlight>>

ChooseTokenSort(order) ==
  /\ Charge("choices", MaxChoices)
  /\ choiceGen' = choiceGen + 1
  /\ Store(order)
  /\ waiting' = Append(waiting, [kind |-> "choice", reply |-> stored', gen |-> choiceGen'])
  /\ chosen' = stored'.version
  /\ UNCHANGED <<tokenSort, reads, due, inFlight>>

ChoiceRefused ==
  /\ Charge("refusals", MaxRefusals)
  /\ choiceGen' = choiceGen + 1
  /\ waiting' = Append(waiting, [kind |-> "choice", reply |-> NotSaid, gen |-> choiceGen'])
  /\ UNCHANGED <<stored, tokenSort, reads, due, inFlight, events, chosen, overtaken>>

Publish(reply) == tokenSort' = IF reply = NotSaid THEN tokenSort ELSE reply

ChoiceReturns ==
  /\ waiting # <<>> /\ Top.kind = "choice"
  /\ Publish(Top.reply)
  /\ waiting' = Below
  /\ UNCHANGED <<stored, choiceGen, reads, due, inFlight, events, chosen, overtaken, spent>>

(***************************************************************************)
(* The readers: list_tokens inside a refresh, then get_balances.           *)
(***************************************************************************)
Adopt(reply, gen) == IF gen = choiceGen THEN Publish(reply) ELSE UNCHANGED tokenSort

(* Mutated form of Refresh: a refresh begins whether or not one is running.  *)
BrokenRefresh ==
  /\ due > 0
  /\ due' = due - 1
  /\ inFlight' = [inFlight EXCEPT !.running = TRUE]
  /\ waiting' = Append(waiting, [kind |-> "tokens", reply |-> NotSaid, gen |-> choiceGen])
  /\ UNCHANGED <<stored, tokenSort, choiceGen, reads, events, chosen, overtaken, spent>>

Refresh ==
  /\ due > 0
  /\ due' = due - 1
  /\ \/ /\ inFlight.running
        /\ inFlight' = [inFlight EXCEPT !.again = TRUE]
        /\ UNCHANGED waiting
     \/ /\ ~inFlight.running
        /\ inFlight' = [inFlight EXCEPT !.running = TRUE]
        /\ waiting' = Append(waiting, [kind |-> "tokens", reply |-> NotSaid, gen |-> choiceGen])
  /\ UNCHANGED <<stored, tokenSort, choiceGen, reads, events, chosen, overtaken, spent>>

(* The backend builds the rows of list_tokens in the order it has stored. *)
BackendLists ==
  \E i \in DOMAIN waiting :
    /\ waiting[i].kind = "tokens" /\ waiting[i].reply = NotSaid
    /\ waiting' = [waiting EXCEPT ![i].reply = stored]
    /\ UNCHANGED <<stored, tokenSort, choiceGen, reads, due, inFlight, events, chosen, overtaken, spent>>

LoadBalances ==
  \/ balances = {} /\ balances' = {[reply |-> NotSaid, gen |-> choiceGen]} /\ UNCHANGED again
  \/ balances # {} /\ again' = TRUE /\ UNCHANGED balances

EndRefresh ==
  /\ LoadBalances
  /\ inFlight' = [running |-> FALSE, again |-> FALSE]
  /\ due' = IF inFlight.again THEN due + 1 ELSE due

ListReturns ==
  /\ waiting # <<>> /\ Top.kind = "tokens"
  /\ \/ Top.reply # NotSaid /\ Adopt(Top.reply, Top.gen) /\ UNCHANGED spent
     \/ Top.reply = NotSaid /\ UNCHANGED tokenSort /\ Charge("refusals", MaxRefusals)
  /\ waiting' = Below
  /\ EndRefresh
  /\ UNCHANGED <<stored, choiceGen, events, chosen, overtaken>>

BackendReads ==
  \E c \in balances :
    /\ c.reply = NotSaid
    /\ balances' = {[c EXCEPT !.reply = stored]}
    /\ UNCHANGED <<stored, tokenSort, choiceGen, waiting, again, due, inFlight, events, chosen, overtaken, spent>>

(* `heard`: answered, and the selection has not moved since. *)
BalancesReply(c, heard) ==
  /\ c \in balances /\ c.reply # NotSaid
  /\ IF heard THEN Adopt(c.reply, c.gen) /\ UNCHANGED spent
     ELSE UNCHANGED tokenSort /\ Charge("refusals", MaxRefusals)
  /\ balances' = IF again THEN {[reply |-> NotSaid, gen |-> choiceGen]} ELSE {}
  /\ again' = FALSE
  /\ UNCHANGED <<stored, choiceGen, waiting, due, inFlight, events, chosen, overtaken>>

(***************************************************************************)
(* Events, and the other instances.                                        *)
(***************************************************************************)
(* Mutated form of SortChanged: the event is adopted and nothing is read. *)
BrokenSortChanged ==
  /\ events # <<>>
  /\ tokenSort' = Head(events)
  /\ events' = Tail(events)
  /\ UNCHANGED <<stored, choiceGen, waiting, reads, due, inFlight, chosen, overtaken, spent>>

SortChanged ==
  /\ events # <<>>
  /\ tokenSort' = Head(events)
  /\ events' = Tail(events)
  /\ due' = due + 1
  /\ UNCHANGED <<stored, choiceGen, waiting, reads, inFlight, chosen, overtaken, spent>>

OthersChoose(order) ==
  /\ Charge("others", MaxOthers)
  /\ order # stored.order
  /\ Store(order)
  /\ UNCHANGED <<tokenSort, choiceGen, waiting, reads, due, inFlight, chosen>>

Notice ==
  /\ Charge("others", MaxOthers)
  /\ due' = due + 1
  /\ UNCHANGED <<stored, tokenSort, choiceGen, waiting, reads, inFlight, events, chosen, overtaken>>

-----------------------------------------------------------------------------
OrderInit ==
  /\ stored \in [order : Orders, version : {0}]
  /\ tokenSort = NotSaid
  /\ choiceGen = 0
  /\ waiting = <<>>
  /\ balances = {} /\ again = FALSE
  /\ due = 1 /\ inFlight = [running |-> FALSE, again |-> FALSE]
  /\ events = <<>>
  /\ chosen = 0 /\ overtaken = FALSE
  /\ spent = [choices |-> 0, others |-> 0, refusals |-> 0]

OrderNext ==
  \/ \E order \in Orders : ChooseTokenSort(order)
  \/ ChoiceRefused
  \/ ChoiceReturns
  \/ Refresh
  \/ BackendLists
  \/ ListReturns
  \/ BackendReads
  \/ \E c \in balances, heard \in BOOLEAN : BalancesReply(c, heard)
  \/ SortChanged
  \/ \E order \in Orders : OthersChoose(order)
  \/ Notice

OrderSpec == OrderInit /\ [][OrderNext]_orderVars

(* Synchronous calls return, queued refreshes run, events arrive, and the    *)
(* data lane's call comes back.                                              *)
OrderFairness ==
  /\ WF_orderVars(ChoiceReturns)
  /\ WF_orderVars(Refresh)
  /\ WF_orderVars(BackendLists)
  /\ WF_orderVars(waiting # <<>> /\ Top.reply # NotSaid /\ ListReturns)
  /\ WF_orderVars(BackendReads)
  /\ WF_orderVars(\E c \in balances, heard \in BOOLEAN : BalancesReply(c, heard))
  /\ WF_orderVars(SortChanged)

FairOrderSpec == OrderSpec /\ OrderFairness

-----------------------------------------------------------------------------
OrderTypeOK ==
  /\ stored \in Version /\ tokenSort \in Replies
  /\ choiceGen \in Nat /\ chosen \in Nat /\ due \in Nat
  /\ waiting \in Seq(Handler)
  /\ balances \subseteq Read
  /\ again \in BOOLEAN /\ overtaken \in BOOLEAN
  /\ inFlight \in [running : BOOLEAN, again : BOOLEAN]
  /\ events \in Seq(Version)
  /\ spent \in [choices : Nat, others : Nat, refusals : Nat]

(* However choices, events and queued refreshes nest in each other's event   *)
(* loops, one refresh() at most is on the stack: the one m_inFlight stands   *)
(* for, whose list_tokens it is suspended in (refresh).                      *)
OneRefreshOnStack ==
  /\ \A i, j \in DOMAIN waiting :
       waiting[i].kind = "tokens" /\ waiting[j].kind = "tokens" => i = j
  /\ inFlight.running <=> \E i \in DOMAIN waiting : waiting[i].kind = "tokens"

(* No reader puts back an order that a choice made here has replaced, though *)
(* its call went out before the choice and lands inside it, or goes out      *)
(* inside it and lands after (m_sortChoiceGen, counted before the call).     *)
ReadsKeepTheChoice ==
  [][ ListReturns \/ (\E c \in balances, heard \in BOOLEAN : BalancesReply(c, heard))
      => tokenSort' = tokenSort \/ tokenSort'.version >= chosen ]_orderVars

(* What convergence comes to at rest: with nothing suspended, out, queued or *)
(* on its way, the menu shows the order the rows are built in.               *)
RestShowsOrder ==
  waiting = <<>> /\ balances = {} /\ events = <<>> /\ due = 0 =>
    overtaken \/ spent.refusals > 0 \/ tokenSort = stored

(* Where nothing is refused, the menu ends up on the order the rows are      *)
(* built in, whoever chose it and whatever was in flight.  Excepted is a     *)
(* choice overtaken before its call returned: chooseTokenSort then publishes *)
(* what it chose over what has replaced it.                                  *)
OrderConverges ==
  <>[](overtaken \/ spent.refusals > 0 \/ (tokenSort # NotSaid /\ tokenSort.order = stored.order))
=============================================================================

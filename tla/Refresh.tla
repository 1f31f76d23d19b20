------------------------------- MODULE Refresh -------------------------------
(***************************************************************************)
(* refresh(): the synchronous half of a re-read.  Each of its module calls *)
(* spins a nested event loop, so between the call and its return every     *)
(* other handler may run: the person's clicks, the change events of the    *)
(* registry and of the keystore, queued timers and the accounts poll.      *)
(* `step` is the call refresh() is standing in; at "idle" it is not        *)
(* running.  A nested refresh() only queues one more behind the running    *)
(* one, so at most one is ever on the stack and a single program counter   *)
(* is its whole control state.                                             *)
(*                                                                         *)
(* The registry's networks and the keystore's accounts belong to other     *)
(* applications.  They change on their own, and the events that announce   *)
(* a change arrive later, or for the keystore not at all.  Their published *)
(* order is left out: where the code takes the first one, any may be it.   *)
(***************************************************************************)
EXTENDS Naturals

CONSTANTS Accounts, NoAccount, Chains, NoChain, NoAnswer,
          MaxRegistry,   \* bound on changes of the registry
          MaxKeystore,   \* bound on changes of the keystore
          MaxPicks,      \* bound on the person's picks
          MaxFails       \* bound on refused, lost and late calls

ASSUME RefreshAssumption ==
  /\ NoAccount \notin Accounts
  /\ NoChain \notin Chains
  /\ {MaxRegistry, MaxKeystore, MaxPicks, MaxFails} \subseteq Nat

VARIABLES
  account, chain,         \* the selection
  strayed,                \* history variable: the account was picked off a roster it had left
  networks, roster,       \* networksJson, accountsJson
  networkLost,            \* the last list_networks was refused
  step,                   \* where refresh() stands; # "idle" is m_inFlight
  answer,                 \* what the call it stands in has answered
  witness,                \* registryGen as loadNetwork took it
  refreshAgain, queued,   \* m_refreshAgain; a zero timer holds a refresh()
  registryGen,            \* m_registryGen
  poll,                   \* the accounts poll's claim and call
  registry, registryNews, \* eth_rpc's networks; a change not yet announced
  keystore, rosterNews,   \* the keystore's accounts; a change not yet announced
  changedAt,              \* history variable: how often the registry changed
  heardAt, publishedAt,   \* history variables: of what the view has heard and shows
  used

selection == <<account, chain, strayed>>
published == <<networks, roster, networkLost, publishedAt>>
control   == <<step, answer, witness, refreshAgain, queued>>
outside   == <<registry, registryNews, keystore, rosterNews, changedAt>>
vars      == <<selection, published, control, registryGen, heardAt, poll, outside, used>>

Steps == {"idle", "networks", "tokens", "accounts", "contacts"}
Polls == {"none", "out", "late", "lost"}

Spend(what, max) == used[what] < max /\ used' = [used EXCEPT ![what] = @ + 1]

(***************************************************************************)
(* Entering refresh(), and the zero timer that enters it.                  *)
(***************************************************************************)
Refusal == [ok |-> FALSE]

Enter(call) == step' = call /\ answer' = NoAnswer

(* Mutated form of EnterRefresh: a refresh asked for in a nested loop is dropped. *)
BrokenEnterRefresh ==
  \/ /\ step # "idle"
     /\ UNCHANGED <<step, answer, witness, refreshAgain>>
  \/ /\ step = "idle"
     /\ Enter("networks")
     /\ witness' = registryGen
     /\ UNCHANGED refreshAgain

EnterRefresh ==
  \/ /\ step # "idle"
     /\ refreshAgain' = TRUE
     /\ UNCHANGED <<step, answer, witness>>
  \/ /\ step = "idle"
     /\ Enter("networks")
     /\ witness' = registryGen
     /\ UNCHANGED refreshAgain

QueuedRefresh ==
  /\ queued
  /\ queued' = FALSE
  /\ EnterRefresh
  /\ UNCHANGED <<selection, published, registryGen, heardAt, poll, outside, used>>

(***************************************************************************)
(* The calls refresh() stands in.  The module answers at some moment while *)
(* the loop spins, and the call returns at a later one.                    *)
(***************************************************************************)
RegistryAnswers ==
  /\ step = "networks" /\ answer = NoAnswer
  /\ \/ /\ answer' = [ok |-> TRUE, value |-> registry, at |-> changedAt]
        /\ UNCHANGED used
     \/ /\ Spend("fails", MaxFails)
        /\ answer' = Refusal
  /\ UNCHANGED <<selection, published, step, witness, refreshAgain, queued, registryGen, heardAt,
                 poll, outside>>

KeystoreAnswers ==
  /\ step = "accounts" /\ answer = NoAnswer
  /\ \/ /\ answer' = [ok |-> TRUE, value |-> keystore]
        /\ UNCHANGED used
     \/ /\ Spend("fails", MaxFails)
        /\ answer' = Refusal
  /\ UNCHANGED <<selection, published, step, witness, refreshAgain, queued, registryGen, heardAt,
                 poll, outside>>

(* Mutated form of NetworksReturn: an answer is published whatever was       *)
(* announced while it was awaited.                                           *)
BrokenNetworksReturn ==
  /\ step = "networks" /\ answer # NoAnswer /\ answer.ok
  /\ networks' = answer.value /\ publishedAt' = answer.at /\ networkLost' = FALSE
  /\ \/ chain \in answer.value /\ chain' = chain
     \/ chain \notin answer.value /\ chain' \in answer.value
     \/ answer.value = {} /\ chain' = NoChain
  /\ Enter("accounts")
  /\ UNCHANGED <<account, strayed, roster, witness, refreshAgain, queued, registryGen, heardAt,
                 poll, outside, used>>

(* An answer taken before the registry was announced to have changed is      *)
(* dropped and asked for again.                                              *)
NetworksReturn ==
  /\ step = "networks" /\ answer # NoAnswer
  /\ \/ /\ witness # registryGen
        /\ refreshAgain' = TRUE
        /\ Enter("accounts")
        /\ UNCHANGED <<chain, networks, networkLost, publishedAt>>
     \/ /\ witness = registryGen /\ ~answer.ok
        /\ networks' = {} /\ chain' = NoChain /\ networkLost' = TRUE
        /\ Enter("accounts")
        /\ UNCHANGED <<refreshAgain, publishedAt>>
     \/ /\ witness = registryGen /\ answer.ok
        /\ networks' = answer.value /\ publishedAt' = answer.at /\ networkLost' = FALSE
        /\ \/ chain \in answer.value /\ chain' = chain
           \/ chain \notin answer.value /\ chain' \in answer.value
           \/ answer.value = {} /\ chain' = NoChain
        /\ refreshAgain' = (refreshAgain \/ (answer.value # {} /\ chain' # chain))
        /\ Enter(IF answer.value = {} THEN "accounts" ELSE "tokens")
  /\ UNCHANGED <<account, strayed, roster, witness, queued, registryGen, heardAt, poll, outside,
                 used>>

TokensReturn ==
  /\ step = "tokens"
  /\ Enter("accounts")
  /\ UNCHANGED <<selection, published, witness, refreshAgain, queued, registryGen, heardAt, poll,
                 outside, used>>

(* Mutated form of LeaveRefresh: the refresh owed to a nested one is forgotten. *)
BrokenLeaveRefresh ==
  /\ step' = "idle" /\ answer' = NoAnswer
  /\ refreshAgain' = FALSE
  /\ UNCHANGED queued

(* The end of refresh(): its asynchronous reads go out (DataLane, FeeTiers)  *)
(* and the one queued behind it is put on a clean stack.                     *)
LeaveRefresh ==
  /\ step' = "idle" /\ answer' = NoAnswer
  /\ refreshAgain' = FALSE
  /\ queued' = (queued \/ refreshAgain)

AccountsReturn ==
  /\ step = "accounts" /\ answer # NoAnswer
  /\ \/ /\ answer.ok
        /\ roster' = answer.value
        /\ Enter("contacts")
        /\ UNCHANGED <<refreshAgain, queued>>
     \/ /\ ~answer.ok
        /\ LeaveRefresh
        /\ UNCHANGED roster
  /\ UNCHANGED <<selection, networks, networkLost, publishedAt, witness, registryGen, heardAt, poll,
                 outside, used>>

(* Mutated form of ContactsReturn: the selection stays on an account that is gone. *)
BrokenContactsReturn ==
  /\ step = "contacts"
  /\ LeaveRefresh
  /\ UNCHANGED <<selection, published, witness, registryGen, heardAt, poll, outside, used>>

(* The address book is read with the roster already published, and only then *)
(* is the selection moved off an account that is gone.                       *)
ContactsReturn ==
  /\ step = "contacts"
  /\ \/ account \in roster /\ account' = account
     \/ account \notin roster /\ account' \in roster
     \/ roster = {} /\ account' = NoAccount
  /\ strayed' = FALSE
  /\ LeaveRefresh
  /\ UNCHANGED <<chain, published, witness, registryGen, heardAt, poll, outside, used>>

(***************************************************************************)
(* The person.  An account or a chain picked from a list the view is about *)
(* to replace is taken as it comes.  For the chain, refresh() follows and  *)
(* puts the cursor back in scope; for the account, nothing does.           *)
(***************************************************************************)
SelectAccount(who) ==
  /\ account' = who
  /\ strayed' = (who \notin roster)
  /\ Spend("picks", MaxPicks)
  /\ UNCHANGED <<chain, published, control, registryGen, heardAt, poll, outside>>

SelectChain(net) ==
  /\ net # chain
  /\ chain' = net
  /\ Spend("picks", MaxPicks)
  /\ EnterRefresh
  /\ UNCHANGED <<account, strayed, published, queued, registryGen, heardAt, poll, outside>>

(***************************************************************************)
(* Change events, and the poll that stands in for the ones never sent.     *)
(* Several zero timers may be queued; they are one here, since all but the *)
(* first find nothing new to do that a later one would not.                *)
(***************************************************************************)
(* Mutated form of NetworksChanged: the generation moves and nothing re-reads. *)
BrokenNetworksChanged ==
  /\ registryNews
  /\ registryNews' = FALSE
  /\ registryGen' = registryGen + 1
  /\ heardAt' = changedAt
  /\ UNCHANGED <<selection, published, control, poll, registry, keystore, rosterNews, changedAt,
                 used>>

NetworksChanged ==
  /\ registryNews
  /\ registryNews' = FALSE
  /\ registryGen' = registryGen + 1
  /\ heardAt' = changedAt
  /\ queued' = TRUE
  /\ UNCHANGED <<selection, published, step, answer, witness, refreshAgain, poll, registry,
                 keystore, rosterNews, changedAt, used>>

AccountsChanged ==
  /\ rosterNews
  /\ rosterNews' = FALSE
  /\ queued' = TRUE
  /\ UNCHANGED <<selection, published, step, answer, witness, refreshAgain, registryGen, heardAt,
                 poll, registry, registryNews, keystore, changedAt, used>>

AccountsPoll ==
  /\ step = "idle"
  /\ poll \in {"none", "late"}
  /\ poll' = "out"
  /\ UNCHANGED <<selection, published, control, registryGen, heardAt, outside, used>>

(* Mutated form of PollReply: a roster that differs is not followed up. *)
BrokenPollReply ==
  /\ poll # "none"
  /\ poll' = "none"
  /\ UNCHANGED <<selection, published, control, registryGen, heardAt, outside, used>>

(* A reply to a lapsed claim, a refused one and one equal to the roster on   *)
(* screen change nothing.                                                    *)
PollReply ==
  /\ \/ /\ poll = "out"
        /\ queued' = (queued \/ keystore # roster)
        /\ UNCHANGED used
     \/ /\ poll = "out" /\ Spend("fails", MaxFails)
        /\ UNCHANGED queued
     \/ /\ poll = "late"
        /\ UNCHANGED <<queued, used>>
  /\ poll' = "none"
  /\ UNCHANGED <<selection, published, step, answer, witness, refreshAgain, registryGen, heardAt,
                 outside>>

PollIsLost ==
  /\ poll = "out"
  /\ Spend("fails", MaxFails)
  /\ poll' \in {"late", "lost"}
  /\ UNCHANGED <<selection, published, control, registryGen, heardAt, outside>>

PollLapses ==
  /\ poll = "lost"
  /\ poll' = "none"
  /\ UNCHANGED <<selection, published, control, registryGen, heardAt, outside, used>>

(***************************************************************************)
(* The other applications.                                                 *)
(***************************************************************************)
RegistryChanges(nets) ==
  /\ nets # registry
  /\ Spend("registry", MaxRegistry)
  /\ registry' = nets
  /\ registryNews' = TRUE
  /\ changedAt' = changedAt + 1
  /\ UNCHANGED <<selection, published, control, registryGen, heardAt, poll, keystore, rosterNews>>

KeystoreChanges(whos, told) ==
  /\ whos # keystore
  /\ Spend("keystore", MaxKeystore)
  /\ keystore' = whos
  /\ rosterNews' = (rosterNews \/ told)
  /\ UNCHANGED <<selection, published, control, registryGen, heardAt, poll, registry, registryNews,
                 changedAt>>

-----------------------------------------------------------------------------
Init ==
  /\ account = NoAccount /\ chain = NoChain /\ strayed = FALSE
  /\ networks = {} /\ roster = {} /\ networkLost = FALSE
  /\ step = "networks" /\ answer = NoAnswer /\ witness = 0
  /\ refreshAgain = FALSE /\ queued = FALSE
  /\ registryGen = 0
  /\ poll = "none"
  /\ registry \in SUBSET Chains /\ registryNews = FALSE
  /\ keystore \in SUBSET Accounts /\ rosterNews = FALSE
  /\ changedAt = 0 /\ heardAt = 0 /\ publishedAt = 0
  /\ used = [registry |-> 0, keystore |-> 0, picks |-> 0, fails |-> 0]

Calls == RegistryAnswers \/ NetworksReturn \/ TokensReturn \/ KeystoreAnswers \/ AccountsReturn
           \/ ContactsReturn

Next ==
  \/ QueuedRefresh
  \/ Calls
  \/ \E who \in Accounts : SelectAccount(who)
  \/ \E net \in Chains : SelectChain(net)
  \/ NetworksChanged
  \/ AccountsChanged
  \/ AccountsPoll
  \/ PollReply
  \/ PollIsLost
  \/ PollLapses
  \/ \E nets \in SUBSET Chains : RegistryChanges(nets)
  \/ \E whos \in SUBSET Accounts, told \in BOOLEAN : KeystoreChanges(whos, told)

Spec == Init /\ [][Next]_vars

(* A synchronous call returns (at worst by its timeout), posted events and   *)
(* zero timers are dispatched, and the accounts poll keeps ticking.          *)
Fairness ==
  /\ WF_vars(Calls)
  /\ WF_vars(QueuedRefresh)
  /\ WF_vars(NetworksChanged)
  /\ WF_vars(AccountsChanged)
  /\ WF_vars(AccountsPoll)
  /\ WF_vars(PollReply)
  /\ WF_vars(PollLapses)

FairSpec == Spec /\ Fairness

-----------------------------------------------------------------------------
(***************************************************************************)
(* Properties.                                                             *)
(***************************************************************************)
Answers == {NoAnswer, Refusal}
  \cup [ok : {TRUE}, value : SUBSET Chains, at : Nat]
  \cup [ok : {TRUE}, value : SUBSET Accounts]

TypeOK ==
  /\ account \in Accounts \cup {NoAccount}
  /\ chain \in Chains \cup {NoChain}
  /\ networks \subseteq Chains /\ roster \subseteq Accounts
  /\ step \in Steps /\ answer \in Answers
  /\ poll \in Polls
  /\ strayed \in BOOLEAN /\ networkLost \in BOOLEAN /\ refreshAgain \in BOOLEAN /\ queued \in BOOLEAN
  /\ registryNews \in BOOLEAN /\ rosterNews \in BOOLEAN
  /\ witness \in Nat /\ registryGen \in Nat /\ changedAt \in Nat
  /\ heardAt \in Nat /\ publishedAt \in Nat
  /\ registry \subseteq Chains /\ keystore \subseteq Accounts

(* Between refreshes the Send cursor is a network of the registry as it is   *)
(* published, or none when there are none: whatever was picked, announced or *)
(* refused while the last refresh was spinning has a refresh of its own.     *)
CursorInScope ==
  step = "idle" /\ ~queued =>
    chain \in networks \/ (networks = {} /\ chain = NoChain)

(* Outside the window in which the address book is read, the account on      *)
(* screen is one the roster on screen has, unless it was picked from rows    *)
(* the roster had already replaced: an account that leaves takes the         *)
(* selection with it, in whatever order keystore, replies and picks come     *)
(* (loadAccounts).                                                           *)
AccountOnRoster ==
  step # "contacts" => account \in roster \/ (roster = {} /\ account = NoAccount) \/ strayed

(* A snapshot of the registry is published only if it is no older than the   *)
(* last change the view has heard of (the m_registryGen witness).            *)
NoOlderRegistry ==
  [][networks' # networks /\ ~networkLost' => publishedAt' >= heardAt]_vars

(* A refresh asked for while one is running is not dropped: it stays owed    *)
(* until a refresh begins.                                                   *)
OwedRefreshRuns == refreshAgain \/ queued ~> step = "networks" /\ answer = NoAnswer

(* The networks on screen end up as the registry has them, unless the last   *)
(* read of it was refused, which is one nothing asks again.                  *)
RegistryConverges == <>[](networks = registry \/ networkLost)

(* What convergence comes to at rest: with no refresh running or queued and  *)
(* no change still to be announced, the networks on screen are the           *)
(* registry's, unless the last read of it was refused.                       *)
RestShowsRegistry ==
  step = "idle" /\ ~queued /\ ~registryNews => networks = registry \/ networkLost

(* The roster on screen ends up as the keystore has it, announced or not,    *)
(* through refused reads and lost polls.                                     *)
RosterConverges == <>[](roster = keystore)
=============================================================================

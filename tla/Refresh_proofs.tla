--------------------------- MODULE Refresh_proofs ---------------------------
(***************************************************************************)
(* The synchronous half of the view, whose calls spin nested event loops.  *)
(*                                                                         *)
(* Why refresh() leaves the selection in scope and publishes no snapshot   *)
(* of the registry older than what the view has heard, for any accounts    *)
(* and chains and any interleaving of clicks, events, timers and polls     *)
(* with the calls it stands in.                                            *)
(***************************************************************************)
EXTENDS Refresh, TokenOrder, TLAPS

InScope == chain \in networks \/ (networks = {} /\ chain = NoChain)

(* From the moment the registry has answered, a cursor out of scope has a    *)
(* refresh of its own to come: owed, or on a zero timer.                     *)
ScopeOrOwed == step # "networks" /\ ~refreshAgain /\ ~queued => InScope

(* What refresh() holds is an answer to the call it stands in. *)
AnswerFits ==
  /\ step = "networks" => answer \in {NoAnswer, Refusal} \cup
                                     [ok : {TRUE}, value : SUBSET Chains, at : Nat]
  /\ step = "accounts" => answer \in {NoAnswer, Refusal} \cup [ok : {TRUE}, value : SUBSET Accounts]
  /\ step \notin {"networks", "accounts"} => answer = NoAnswer

(* The generation counts what was heard: as long as it stands where the      *)
(* refresh took it, the snapshot it holds is no older than that.             *)
SnapshotIsHeard ==
  /\ heardAt <= changedAt /\ witness <= registryGen
  /\ step = "networks" /\ witness = registryGen /\ answer # NoAnswer /\ answer.ok =>
       answer.at >= heardAt

(* Only a running refresh owes another. *)
OwedIsRunning == refreshAgain => step # "idle"

IInv == TypeOK /\ AnswerFits /\ ScopeOrOwed /\ AccountOnRoster /\ SnapshotIsHeard /\ OwedIsRunning

USE RefreshAssumption

(* The parts of the invariant that a step leaves as they were when it leaves *)
(* what they read.                                                           *)
LEMMA TypeFacts ==
  ASSUME IInv
  PROVE  /\ strayed \in BOOLEAN /\ networkLost \in BOOLEAN /\ refreshAgain \in BOOLEAN /\ queued \in BOOLEAN
         /\ registryNews \in BOOLEAN /\ rosterNews \in BOOLEAN
         /\ witness \in Nat /\ registryGen \in Nat /\ changedAt \in Nat
         /\ heardAt \in Nat /\ publishedAt \in Nat
         /\ registry \in SUBSET Chains /\ keystore \in SUBSET Accounts
BY DEF IInv, TypeOK

(* An answer that is given is one of its call's. *)
LEMMA AnswerGiven ==
  ASSUME IInv, answer # NoAnswer, answer.ok
  PROVE  /\ step = "networks" => answer \in [ok : {TRUE}, value : SUBSET Chains, at : Nat]
         /\ step = "accounts" => answer \in [ok : {TRUE}, value : SUBSET Accounts]
<1>1. Refusal.ok = FALSE
  BY DEF Refusal
<1>2. answer # Refusal
  BY <1>1
<1> QED BY <1>2 DEF IInv, AnswerFits

-----------------------------------------------------------------------------
(***************************************************************************)
(* Entering, from an event's timer or a click.                             *)
(***************************************************************************)

(* Entering leaves a refresh under way that will put the cursor in scope, or *)
(* one owed by the one that runs.                                            *)
LEMMA EnterKeeps ==
  ASSUME IInv, EnterRefresh, heardAt' = heardAt, changedAt' = changedAt,
         registryGen' = registryGen
  PROVE  /\ step' \in Steps /\ answer' \in Answers /\ refreshAgain' \in BOOLEAN
         /\ witness' \in Nat /\ (step' = step \/ (step' = "networks" /\ step = "idle"))
         /\ AnswerFits' /\ ScopeOrOwed' /\ SnapshotIsHeard' /\ OwedIsRunning'
<1>1. CASE step # "idle" /\ refreshAgain' = TRUE /\ UNCHANGED <<step, answer, witness>>
  BY <1>1 DEF IInv, TypeOK, AnswerFits, ScopeOrOwed, InScope, SnapshotIsHeard, OwedIsRunning
<1>2. CASE step = "idle" /\ Enter("networks") /\ witness' = registryGen /\ UNCHANGED refreshAgain
  <2>1. step' = "networks" /\ answer' = NoAnswer
    BY <1>2 DEF Enter
  <2> QED
    BY <1>2, <2>1 DEF IInv, TypeOK, Steps, Answers, AnswerFits, ScopeOrOwed, InScope, SnapshotIsHeard,
                      OwedIsRunning
<1> QED BY <1>1, <1>2 DEF EnterRefresh

LEMMA QueuedKeeps ==
  ASSUME IInv, QueuedRefresh
  PROVE  IInv'
<1>1. /\ queued' = FALSE /\ EnterRefresh
      /\ UNCHANGED <<account, strayed, chain, networks, roster, networkLost, publishedAt, registryGen, heardAt,
                     poll, registry, registryNews, keystore, rosterNews, changedAt>>
  BY DEF QueuedRefresh, selection, published, outside
<1> QED BY <1>1, EnterKeeps DEF IInv, TypeOK, AccountOnRoster

LEMMA ClicksKeep ==
  ASSUME IInv, (\E who \in Accounts : SelectAccount(who)) \/ (\E net \in Chains : SelectChain(net))
  PROVE  IInv'
<1>1. CASE \E who \in Accounts : SelectAccount(who)
  <2>1. /\ account' \in Accounts /\ strayed' = (account' \notin roster)
        /\ UNCHANGED <<chain, networks, roster, networkLost, publishedAt, step, answer, witness,
                       refreshAgain, queued, registryGen, heardAt, poll, registry, registryNews,
                       keystore, rosterNews, changedAt>>
    BY <1>1 DEF SelectAccount, published, control, outside
  <2>2. AccountOnRoster' /\ strayed' \in BOOLEAN
    BY <2>1 DEF AccountOnRoster
  <2>3. AnswerFits' /\ ScopeOrOwed' /\ SnapshotIsHeard' /\ OwedIsRunning'
    BY <2>1 DEF IInv, AnswerFits, ScopeOrOwed, InScope, SnapshotIsHeard, OwedIsRunning
  <2>4. TypeOK'
    BY <2>1, <2>2 DEF IInv, TypeOK
  <2> QED BY <2>2, <2>3, <2>4 DEF IInv
<1>2. CASE \E net \in Chains : SelectChain(net)
  <2>1. /\ chain' \in Chains /\ EnterRefresh
        /\ UNCHANGED <<account, strayed, networks, roster, networkLost, publishedAt, queued, registryGen,
                       heardAt, poll, registry, registryNews, keystore, rosterNews, changedAt>>
    BY <1>2 DEF SelectChain, published, outside
  <2> QED BY <2>1, EnterKeeps DEF IInv, TypeOK, AccountOnRoster
<1> QED BY <1>1, <1>2

-----------------------------------------------------------------------------
(***************************************************************************)
(* The calls refresh() stands in.                                          *)
(***************************************************************************)

(* An answer is given now, so it is no older than anything heard so far. *)
LEMMA AnswersKeep ==
  ASSUME IInv, RegistryAnswers \/ KeystoreAnswers
  PROVE  IInv'
<1>1. UNCHANGED <<account, strayed, chain, networks, roster, networkLost, publishedAt, step, witness,
                  refreshAgain, queued, registryGen, heardAt, poll, registry, registryNews,
                  keystore, rosterNews, changedAt>>
  BY DEF RegistryAnswers, KeystoreAnswers, selection, published, outside
<1>2. CASE RegistryAnswers
  <2>1. /\ step = "networks"
        /\ answer' \in {Refusal, [ok |-> TRUE, value |-> registry, at |-> changedAt]}
    BY <1>2 DEF RegistryAnswers
  <2>2. answer' \in {Refusal} \cup [ok : {TRUE}, value : SUBSET Chains, at : Nat]
    <3>1. [ok |-> TRUE, value |-> registry, at |-> changedAt]
            \in [ok : {TRUE}, value : SUBSET Chains, at : Nat]
      BY TypeFacts
    <3> QED BY <2>1, <3>1
  <2>3. answer'.ok => answer'.at = changedAt
    BY <2>1 DEF Refusal
  <2>4. TypeOK' /\ AnswerFits'
    BY <1>1, <2>1, <2>2 DEF IInv, TypeOK, Answers, AnswerFits
  <2>5. SnapshotIsHeard'
    BY <1>1, <2>3, TypeFacts DEF IInv, SnapshotIsHeard
  <2> QED BY <1>1, <2>4, <2>5 DEF IInv, ScopeOrOwed, InScope, AccountOnRoster, OwedIsRunning
<1>3. CASE KeystoreAnswers
  <2>1. step = "accounts" /\ answer' \in {Refusal, [ok |-> TRUE, value |-> keystore]}
    BY <1>3 DEF KeystoreAnswers
  <2>2. answer' \in {Refusal} \cup [ok : {TRUE}, value : SUBSET Accounts]
    <3>1. [ok |-> TRUE, value |-> keystore] \in [ok : {TRUE}, value : SUBSET Accounts]
      BY TypeFacts
    <3> QED BY <2>1, <3>1
  <2>3. TypeOK' /\ AnswerFits'
    BY <1>1, <2>1, <2>2 DEF IInv, TypeOK, Answers, AnswerFits
  <2>4. SnapshotIsHeard'
    BY <1>1, <2>1, TypeFacts DEF IInv, TypeOK, Answers, SnapshotIsHeard
  <2> QED BY <1>1, <2>3, <2>4 DEF IInv, ScopeOrOwed, InScope, AccountOnRoster, OwedIsRunning
<1> QED BY <1>2, <1>3

(* Whatever the registry said, the cursor is in scope after it, or the       *)
(* refresh owes another.                                                     *)
LEMMA NetworksKeep ==
  ASSUME IInv, NetworksReturn
  PROVE  IInv'
<1>1. /\ step = "networks" /\ answer # NoAnswer
      /\ UNCHANGED <<account, strayed, roster, witness, queued, registryGen, heardAt, poll, registry,
                     registryNews, keystore, rosterNews, changedAt>>
  BY DEF NetworksReturn, outside
<1>2. answer.ok => answer \in [ok : {TRUE}, value : SUBSET Chains, at : Nat]
  BY <1>1, AnswerGiven
<1>3. /\ step' \in {"accounts", "tokens"} /\ answer' = NoAnswer
      /\ refreshAgain' \in BOOLEAN /\ networkLost' \in BOOLEAN /\ publishedAt' \in Nat
      /\ networks' \subseteq Chains /\ chain' \in Chains \cup {NoChain}
      /\ refreshAgain' \/ InScope'
  <2>1. CASE /\ refreshAgain' = TRUE /\ Enter("accounts")
             /\ UNCHANGED <<chain, networks, networkLost, publishedAt>>
    BY <2>1 DEF Enter, IInv, TypeOK
  <2>2. CASE /\ networks' = {} /\ chain' = NoChain /\ networkLost' = TRUE
             /\ Enter("accounts") /\ UNCHANGED <<refreshAgain, publishedAt>>
    BY <2>2 DEF Enter, IInv, TypeOK, InScope
  <2>3. CASE /\ answer.ok
             /\ networks' = answer.value /\ publishedAt' = answer.at /\ networkLost' = FALSE
             /\ \/ chain \in answer.value /\ chain' = chain
                \/ chain \notin answer.value /\ chain' \in answer.value
                \/ answer.value = {} /\ chain' = NoChain
             /\ refreshAgain' = (refreshAgain \/ (answer.value # {} /\ chain' # chain))
             /\ Enter(IF answer.value = {} THEN "accounts" ELSE "tokens")
    BY <1>2, <2>3 DEF Enter, InScope
  <2> QED BY <2>1, <2>2, <2>3 DEF NetworksReturn
<1> QED BY <1>1, <1>3 DEF IInv, TypeOK, Steps, Answers, AnswerFits, ScopeOrOwed, InScope, AccountOnRoster,
                          SnapshotIsHeard, OwedIsRunning

LEMMA TokensKeep ==
  ASSUME IInv, TokensReturn
  PROVE  IInv'
BY DEF TokensReturn, Enter, selection, published, outside, IInv, TypeOK, Steps, Answers, AnswerFits,
       ScopeOrOwed, InScope, AccountOnRoster, SnapshotIsHeard, OwedIsRunning

(* What was owed is on a timer before refresh() is idle. *)
LEMMA LeaveKeeps ==
  ASSUME IInv, step # "networks", LeaveRefresh, UNCHANGED <<chain, networks, witness, registryGen,
                                                            heardAt, changedAt>>
  PROVE  /\ step' = "idle" /\ answer' = NoAnswer /\ refreshAgain' = FALSE /\ queued' \in BOOLEAN
         /\ AnswerFits' /\ ScopeOrOwed' /\ SnapshotIsHeard' /\ OwedIsRunning'
BY DEF LeaveRefresh, IInv, TypeOK, AnswerFits, ScopeOrOwed, InScope, SnapshotIsHeard, OwedIsRunning

LEMMA AccountsKeep ==
  ASSUME IInv, AccountsReturn
  PROVE  IInv'
<1>1. /\ step = "accounts" /\ answer # NoAnswer
      /\ UNCHANGED <<account, strayed, chain, networks, networkLost, publishedAt, witness, registryGen, heardAt,
                     poll, registry, registryNews, keystore, rosterNews, changedAt>>
  BY DEF AccountsReturn, selection, outside
<1>2. CASE answer.ok /\ roster' = answer.value /\ Enter("contacts") /\ UNCHANGED <<refreshAgain, queued>>
  <2>1. roster' \subseteq Accounts
    BY <1>1, <1>2, AnswerGiven
  <2> QED BY <1>1, <1>2, <2>1 DEF Enter, IInv, TypeOK, Steps, Answers, AnswerFits, ScopeOrOwed, InScope,
                                 AccountOnRoster, SnapshotIsHeard, OwedIsRunning
<1>3. CASE LeaveRefresh /\ UNCHANGED roster
  BY <1>1, <1>3, LeaveKeeps DEF IInv, TypeOK, Steps, Answers, AccountOnRoster
<1> QED BY <1>2, <1>3 DEF AccountsReturn

LEMMA ContactsKeep ==
  ASSUME IInv, ContactsReturn
  PROVE  IInv'
<1>1. /\ step = "contacts" /\ LeaveRefresh /\ strayed' = FALSE
      /\ UNCHANGED <<chain, networks, roster, networkLost, publishedAt, witness, registryGen, heardAt,
                     poll, registry, registryNews, keystore, rosterNews, changedAt>>
  BY DEF ContactsReturn, published, outside
<1>2. account' \in Accounts \cup {NoAccount}
      /\ (account' \in roster \/ (roster = {} /\ account' = NoAccount))
  BY DEF ContactsReturn, IInv, TypeOK
<1> QED BY <1>1, <1>2, LeaveKeeps DEF IInv, TypeOK, Steps, Answers, AccountOnRoster

-----------------------------------------------------------------------------
(***************************************************************************)
(* Events, the poll, and the other applications.                           *)
(***************************************************************************)

(* What happens outside the calls disturbs nothing but a timer and the ages. *)
LEMMA OutsideKeeps ==
  ASSUME IInv, UNCHANGED <<account, strayed, chain, networks, roster, step, answer, refreshAgain>>,
         queued => queued'
  PROVE  AnswerFits' /\ ScopeOrOwed' /\ AccountOnRoster' /\ OwedIsRunning'
BY DEF IInv, AnswerFits, ScopeOrOwed, InScope, AccountOnRoster, OwedIsRunning

(* A change that is heard leaves the snapshot being read behind it. *)
LEMMA EventsKeep ==
  ASSUME IInv, NetworksChanged \/ AccountsChanged
  PROVE  IInv'
<1>1. /\ queued' = TRUE
      /\ UNCHANGED <<account, strayed, chain, networks, roster, networkLost, publishedAt, step, answer, witness,
                     refreshAgain, poll, registry, keystore, changedAt>>
      /\ AnswerFits' /\ ScopeOrOwed' /\ AccountOnRoster' /\ OwedIsRunning'
  BY OutsideKeeps DEF NetworksChanged, AccountsChanged, selection, published
<1>2. CASE NetworksChanged
  <2>1. registryNews' = FALSE /\ registryGen' = registryGen + 1 /\ heardAt' = changedAt
        /\ rosterNews' = rosterNews
    BY <1>2 DEF NetworksChanged
  <2>2. witness <= registryGen
    BY DEF IInv, SnapshotIsHeard
  <2>3. SnapshotIsHeard'
    BY <1>1, <2>1, <2>2, TypeFacts DEF SnapshotIsHeard
  <2>4. registryNews' \in BOOLEAN /\ rosterNews' \in BOOLEAN
    BY <2>1, TypeFacts
  <2>5. registryGen' \in Nat /\ heardAt' \in Nat
    BY <2>1, TypeFacts
  <2>6. TypeOK'
    BY <1>1, <2>4, <2>5 DEF IInv, TypeOK
  <2> QED BY <1>1, <2>3, <2>6 DEF IInv
<1>3. CASE AccountsChanged
  <2>1. rosterNews' = FALSE /\ UNCHANGED <<registryGen, heardAt, registryNews>>
    BY <1>3 DEF AccountsChanged
  <2>2. SnapshotIsHeard'
    BY <1>1, <2>1 DEF IInv, SnapshotIsHeard
  <2>3. TypeOK'
    BY <1>1, <2>1, TypeFacts DEF IInv, TypeOK
  <2> QED BY <1>1, <2>2, <2>3 DEF IInv
<1> QED BY <1>2, <1>3

LEMMA PollKeeps ==
  ASSUME IInv, AccountsPoll \/ PollReply \/ PollIsLost \/ PollLapses
  PROVE  IInv'
<1>1. UNCHANGED <<account, strayed, chain, networks, roster, networkLost, publishedAt, step, answer, witness,
                  refreshAgain, registryGen, heardAt, registry, registryNews, keystore, rosterNews,
                  changedAt>>
  BY DEF AccountsPoll, PollReply, PollIsLost, PollLapses, selection, published, control, outside
<1>2. poll' \in Polls
  BY DEF AccountsPoll, PollReply, PollIsLost, PollLapses, Polls
<1>3. queued' = queued \/ queued' = (queued \/ keystore # roster)
  BY DEF AccountsPoll, PollReply, PollIsLost, PollLapses, control
<1>4. queued' \in BOOLEAN /\ (queued => queued')
  <2>1. CASE queued' = queued
    BY <2>1, TypeFacts
  <2>2. CASE queued' = (queued \/ keystore # roster)
    BY <2>2, Zenon
  <2> QED BY <1>3, <2>1, <2>2
<1>5. AnswerFits' /\ ScopeOrOwed' /\ AccountOnRoster' /\ OwedIsRunning'
  BY <1>1, <1>4, OutsideKeeps
<1>6. SnapshotIsHeard'
  BY <1>1 DEF IInv, SnapshotIsHeard
<1>7. TypeOK'
  BY <1>1, <1>2, <1>4, TypeFacts DEF IInv, TypeOK
<1> QED BY <1>5, <1>6, <1>7 DEF IInv

LEMMA OthersKeep ==
  ASSUME IInv,
         \/ \E nets \in SUBSET Chains : RegistryChanges(nets)
         \/ \E whos \in SUBSET Accounts, told \in BOOLEAN : KeystoreChanges(whos, told)
  PROVE  IInv'
<1>1. UNCHANGED <<account, strayed, chain, networks, roster, networkLost, publishedAt, step, answer, witness,
                  refreshAgain, queued, registryGen, heardAt, poll>>
  BY DEF RegistryChanges, KeystoreChanges, selection, published, control
<1>2. /\ registry' \subseteq Chains /\ keystore' \subseteq Accounts
      /\ registryNews' \in BOOLEAN /\ rosterNews' \in BOOLEAN
      /\ changedAt' = changedAt \/ changedAt' = changedAt + 1
  <2>1. CASE \E nets \in SUBSET Chains : RegistryChanges(nets)
    BY <2>1, TypeFacts DEF RegistryChanges
  <2>2. ASSUME NEW whos \in SUBSET Accounts, NEW told \in BOOLEAN, KeystoreChanges(whos, told)
        PROVE  <1>2
    <3>1. /\ keystore' = whos /\ rosterNews' = (rosterNews \/ told)
          /\ UNCHANGED <<registry, registryNews, changedAt>>
      BY <2>2 DEF KeystoreChanges
    <3>2. rosterNews' \in BOOLEAN
      BY <3>1, TypeFacts
    <3> QED BY <3>1, <3>2, TypeFacts
  <2> QED BY <2>1, <2>2
<1>3. AnswerFits' /\ ScopeOrOwed' /\ AccountOnRoster' /\ OwedIsRunning'
  BY <1>1, OutsideKeeps
<1>4. changedAt' \in Nat /\ changedAt <= changedAt'
  BY <1>2, TypeFacts
<1>5. SnapshotIsHeard'
  BY <1>1, <1>4, TypeFacts DEF IInv, SnapshotIsHeard
<1>6. TypeOK'
  BY <1>1, <1>2, <1>4, TypeFacts DEF IInv, TypeOK
<1> QED BY <1>3, <1>5, <1>6 DEF IInv

-----------------------------------------------------------------------------
LEMMA InitFits == Init => IInv
<1> SUFFICES ASSUME Init PROVE IInv
  OBVIOUS
<1>1. TypeOK
  BY DEF Init, TypeOK, Steps, Polls, Answers
<1>2. AnswerFits /\ ScopeOrOwed /\ AccountOnRoster /\ SnapshotIsHeard /\ OwedIsRunning
  BY DEF Init, AnswerFits, ScopeOrOwed, AccountOnRoster, SnapshotIsHeard, OwedIsRunning
<1> QED BY <1>1, <1>2 DEF IInv

LEMMA StepKeeps == IInv /\ [Next]_vars => IInv'
<1> SUFFICES ASSUME IInv, [Next]_vars PROVE IInv'
  OBVIOUS
<1>1. CASE QueuedRefresh
  BY <1>1, QueuedKeeps
<1>2. CASE Calls
  BY <1>2, AnswersKeep, NetworksKeep, TokensKeep, AccountsKeep, ContactsKeep DEF Calls
<1>3. CASE (\E who \in Accounts : SelectAccount(who)) \/ (\E net \in Chains : SelectChain(net))
  BY <1>3, ClicksKeep
<1>4. CASE NetworksChanged \/ AccountsChanged
  BY <1>4, EventsKeep
<1>5. CASE AccountsPoll \/ PollReply \/ PollIsLost \/ PollLapses
  BY <1>5, PollKeeps
<1>6. CASE \/ \E nets \in SUBSET Chains : RegistryChanges(nets)
           \/ \E whos \in SUBSET Accounts, told \in BOOLEAN : KeystoreChanges(whos, told)
  BY <1>6, OthersKeep
<1>7. CASE UNCHANGED vars
  <2>1. UNCHANGED <<account, strayed, chain, networks, roster, networkLost, publishedAt, step, answer, witness,
                    refreshAgain, queued, registryGen, heardAt, poll, registry, registryNews,
                    keystore, rosterNews, changedAt>>
    BY <1>7 DEF vars, selection, published, control, outside
  <2>2. AnswerFits' /\ ScopeOrOwed' /\ AccountOnRoster' /\ OwedIsRunning'
    BY <2>1, OutsideKeeps
  <2>3. SnapshotIsHeard'
    BY <2>1 DEF IInv, SnapshotIsHeard
  <2>4. TypeOK'
    BY <2>1 DEF IInv, TypeOK
  <2> QED BY <2>2, <2>3, <2>4 DEF IInv
<1> QED BY <1>1, <1>2, <1>3, <1>4, <1>5, <1>6, <1>7 DEF Next

LEMMA Inductive == Spec => []IInv
BY InitFits, StepKeeps, PTL DEF Spec

(* Every variable keeps its type, whatever runs inside the calls. *)
THEOREM TypeCorrect == Spec => []TypeOK
<1>1. IInv => TypeOK
  BY DEF IInv
<1> QED BY <1>1, Inductive, PTL

(* Between refreshes the Send cursor is a network on screen, or none when    *)
(* there are none, whatever was picked, announced or refused while the last  *)
(* refresh was spinning (loadNetwork, refresh()'s m_refreshAgain).           *)
THEOREM CursorComesIntoScope == Spec => []CursorInScope
<1>1. IInv => CursorInScope
  BY DEF IInv, ScopeOrOwed, InScope, OwedIsRunning, CursorInScope
<1> QED BY <1>1, Inductive, PTL

(* Outside the read of the address book the account on screen is on the      *)
(* roster on screen, unless it was picked off a roster that had left it      *)
(* (loadAccounts, selectAccount).                                            *)
THEOREM AccountStaysOnRoster == Spec => []AccountOnRoster
<1>1. IInv => AccountOnRoster
  BY DEF IInv
<1> QED BY <1>1, Inductive, PTL

(* No snapshot of the registry is published that is older than the last      *)
(* change the view has heard of, however many changes, events and refreshes  *)
(* cross (the m_registryGen witness of loadNetwork).                         *)
THEOREM RegistryNeverGoesBack == Spec => NoOlderRegistry
<1>1. IInv /\ [Next]_vars => [networks' # networks /\ ~networkLost' => publishedAt' >= heardAt]_vars
  <2> SUFFICES ASSUME IInv, Next, networks' # networks, ~networkLost' PROVE publishedAt' >= heardAt
    OBVIOUS
  <2>1. CASE NetworksReturn
    BY <2>1 DEF NetworksReturn, IInv, SnapshotIsHeard
  <2>2. CASE ~NetworksReturn
    BY <2>2 DEF Next, Calls, QueuedRefresh, RegistryAnswers, TokensReturn, KeystoreAnswers,
                AccountsReturn, ContactsReturn, SelectAccount, SelectChain, NetworksChanged,
                AccountsChanged, AccountsPoll, PollReply, PollIsLost, PollLapses, RegistryChanges,
                KeystoreChanges, published
  <2> QED BY <2>1, <2>2
<1> QED BY <1>1, Inductive, PTL DEF Spec, NoOlderRegistry

(* A refresh asked for while one runs is never left owed by an idle view:    *)
(* leaving puts it on a timer, and nothing else forgets it.                  *)
THEOREM NothingOwedWhenIdle == Spec => []OwedIsRunning
<1>1. IInv => OwedIsRunning
  BY DEF IInv
<1> QED BY <1>1, Inductive, PTL

(***************************************************************************)
(* At rest the registry is on screen: a snapshot is told apart by when it  *)
(* was taken, and one as young as the registry is the registry.            *)
(***************************************************************************)
AnswerIsRegistry ==
  step = "networks" /\ answer # NoAnswer /\ answer.ok =>
    answer.at <= changedAt /\ (answer.at = changedAt => answer.value = registry)

ShownIsHeard ==
  step # "networks" /\ ~refreshAgain /\ ~queued =>
    networkLost \/ (publishedAt >= heardAt /\ (publishedAt = changedAt => networks = registry))

RestInv ==
  /\ publishedAt <= changedAt
  /\ ~registryNews => heardAt = changedAt
  /\ AnswerIsRegistry
  /\ ShownIsHeard

LEMMA RestInitFits == Init => RestInv
BY DEF Init, RestInv, AnswerIsRegistry, ShownIsHeard

(* A step that leaves the registry and what is shown of it alone, and either *)
(* the call or what is still to be asked.                                    *)
LEMMA RestUntouched ==
  ASSUME IInv, RestInv,
         UNCHANGED <<networks, networkLost, publishedAt, registry, registryNews, changedAt, heardAt>>,
         \/ UNCHANGED <<step, answer>>
         \/ answer' = NoAnswer /\ step # "networks"
         \/ answer' = Refusal /\ step' = step,
         step' # "networks" /\ ~refreshAgain' /\ ~queued' =>
           step # "networks" /\ ~refreshAgain /\ ~queued
  PROVE  RestInv'
<1>1. AnswerIsRegistry'
  <2>1. CASE UNCHANGED <<step, answer>>
    BY <2>1 DEF RestInv, AnswerIsRegistry
  <2>2. CASE answer' = NoAnswer
    BY <2>2 DEF AnswerIsRegistry
  <2>3. CASE answer' = Refusal /\ step' = step
    BY <2>3 DEF AnswerIsRegistry, Refusal
  <2> QED BY <2>1, <2>2, <2>3
<1>2. ShownIsHeard'
  BY DEF RestInv, ShownIsHeard
<1> QED BY <1>1, <1>2 DEF RestInv

LEMMA RestEntered ==
  ASSUME IInv, RestInv, EnterRefresh,
         UNCHANGED <<networks, networkLost, publishedAt, registry, registryNews, changedAt, heardAt>>
  PROVE  RestInv'
<1>1. CASE step # "idle" /\ refreshAgain' = TRUE /\ UNCHANGED <<step, answer, witness>>
  BY <1>1, RestUntouched
<1>2. CASE step = "idle" /\ Enter("networks")
  <2>1. step' = "networks" /\ answer' = NoAnswer
    BY <1>2 DEF Enter
  <2> QED BY <1>2, <2>1, RestUntouched
<1> QED BY <1>1, <1>2 DEF EnterRefresh

LEMMA RestAnswered ==
  ASSUME IInv, RestInv, RegistryAnswers \/ KeystoreAnswers
  PROVE  RestInv'
<1>1. UNCHANGED <<networks, networkLost, publishedAt, step, refreshAgain, queued, heardAt, registry,
                  registryNews, changedAt>>
  BY DEF RegistryAnswers, KeystoreAnswers, published, outside
<1>2. CASE answer' = Refusal
  BY <1>1, <1>2, RestUntouched
<1>3. CASE answer' = [ok |-> TRUE, value |-> registry, at |-> changedAt]
  <2>1. AnswerIsRegistry'
    BY <1>1, <1>3, TypeFacts DEF AnswerIsRegistry
  <2>2. ShownIsHeard'
    BY <1>1 DEF RestInv, ShownIsHeard
  <2> QED BY <1>1, <2>1, <2>2 DEF RestInv
<1>4. CASE step = "accounts"
  BY <1>1, <1>4 DEF RestInv, AnswerIsRegistry, ShownIsHeard
<1> QED BY <1>2, <1>3, <1>4 DEF RegistryAnswers, KeystoreAnswers

(* What loadNetwork publishes under its witness is as young as anything      *)
(* heard; anything else it leaves to the refresh it then owes.               *)
LEMMA RestReturned ==
  ASSUME IInv, RestInv, NetworksReturn
  PROVE  RestInv'
<1>1. /\ step = "networks" /\ answer # NoAnswer /\ step' # "networks" /\ answer' = NoAnswer
      /\ UNCHANGED <<heardAt, registry, registryNews, changedAt>>
  BY DEF NetworksReturn, Enter, outside
<1>2. AnswerIsRegistry'
  BY <1>1 DEF AnswerIsRegistry
<1>3. publishedAt' <= changedAt' /\ ShownIsHeard'
  <2>1. CASE witness # registryGen /\ refreshAgain' = TRUE /\ UNCHANGED <<networks, networkLost, publishedAt>>
    BY <1>1, <2>1 DEF RestInv, ShownIsHeard
  <2>2. CASE networkLost' = TRUE /\ UNCHANGED publishedAt
    BY <1>1, <2>2 DEF RestInv, ShownIsHeard
  <2>3. CASE /\ witness = registryGen /\ answer.ok
             /\ networks' = answer.value /\ publishedAt' = answer.at
    BY <1>1, <2>3 DEF IInv, SnapshotIsHeard, RestInv, AnswerIsRegistry, ShownIsHeard
  <2> QED BY <2>1, <2>2, <2>3 DEF NetworksReturn
<1> QED BY <1>1, <1>2, <1>3 DEF RestInv

LEMMA RestLeft ==
  ASSUME IInv, RestInv, TokensReturn \/ AccountsReturn \/ ContactsReturn
  PROVE  RestInv'
<1>1. /\ step # "networks" /\ step' # "networks" /\ answer' = NoAnswer
      /\ UNCHANGED <<networks, networkLost, publishedAt, heardAt, registry, registryNews, changedAt>>
  BY DEF TokensReturn, AccountsReturn, ContactsReturn, Enter, LeaveRefresh, published, outside
<1>2. ~refreshAgain' /\ ~queued' => ~refreshAgain /\ ~queued
  BY DEF TokensReturn, AccountsReturn, ContactsReturn, LeaveRefresh
<1> QED BY <1>1, <1>2, RestUntouched

LEMMA RestHeard ==
  ASSUME IInv, RestInv, NetworksChanged \/ AccountsChanged
  PROVE  RestInv'
<1>1. queued' = TRUE
      /\ UNCHANGED <<networks, networkLost, publishedAt, step, answer, registry, changedAt>>
  BY DEF NetworksChanged, AccountsChanged, published
<1>2. ~registryNews' => heardAt' = changedAt'
  BY DEF NetworksChanged, AccountsChanged, RestInv
<1> QED BY <1>1, <1>2 DEF RestInv, AnswerIsRegistry, ShownIsHeard

(* A change leaves every snapshot behind it. *)
LEMMA RestOutside ==
  ASSUME IInv, RestInv,
         \/ \E nets \in SUBSET Chains : RegistryChanges(nets)
         \/ \E whos \in SUBSET Accounts, told \in BOOLEAN : KeystoreChanges(whos, told)
  PROVE  RestInv'
<1>1. CASE \E nets \in SUBSET Chains : RegistryChanges(nets)
  <2>1. /\ registryNews' = TRUE /\ changedAt' = changedAt + 1
        /\ UNCHANGED <<networks, networkLost, publishedAt, step, answer, refreshAgain, queued, heardAt>>
    BY <1>1 DEF RegistryChanges, published, control
  <2>2. publishedAt' < changedAt' /\ publishedAt \in Nat /\ changedAt \in Nat
    BY <2>1, TypeFacts DEF RestInv
  <2>3. AnswerIsRegistry'
    <3>1. SUFFICES ASSUME step = "networks", answer # NoAnswer, answer.ok
                   PROVE  answer.at <= changedAt' /\ answer.at # changedAt'
      BY <2>1 DEF AnswerIsRegistry
    <3>2. answer \in [ok : {TRUE}, value : SUBSET Chains, at : Nat]
      BY <3>1, AnswerGiven
    <3>3. answer.at \in Nat /\ answer.at <= changedAt
      BY <3>1, <3>2 DEF RestInv, AnswerIsRegistry
    <3> QED BY <2>1, <2>2, <3>3
  <2>4. ShownIsHeard'
    BY <2>1, <2>2 DEF RestInv, ShownIsHeard
  <2> QED BY <2>1, <2>2, <2>3, <2>4 DEF RestInv
<1>2. CASE \E whos \in SUBSET Accounts, told \in BOOLEAN : KeystoreChanges(whos, told)
  <2>1. UNCHANGED <<networks, networkLost, publishedAt, step, answer, refreshAgain, queued, heardAt,
                    registry, registryNews, changedAt>>
    BY <1>2 DEF KeystoreChanges, published, control
  <2> QED BY <2>1, RestUntouched
<1> QED BY <1>1, <1>2

LEMMA RestStepKeeps == IInv /\ RestInv /\ [Next]_vars => RestInv'
<1> SUFFICES ASSUME IInv, RestInv, [Next]_vars PROVE RestInv'
  OBVIOUS
<1>1. CASE QueuedRefresh
  BY <1>1, RestEntered DEF QueuedRefresh, published, outside
<1>2. CASE Calls
  BY <1>2, RestAnswered, RestReturned, RestLeft DEF Calls
<1>3. CASE \E who \in Accounts : SelectAccount(who)
  BY <1>3, RestUntouched DEF SelectAccount, published, control, outside
<1>4. CASE \E net \in Chains : SelectChain(net)
  BY <1>4, RestEntered DEF SelectChain, published, outside
<1>5. CASE NetworksChanged \/ AccountsChanged
  BY <1>5, RestHeard
<1>6. CASE AccountsPoll \/ PollReply \/ PollIsLost \/ PollLapses
  <2>1. UNCHANGED <<networks, networkLost, publishedAt, step, answer, refreshAgain, heardAt, registry,
                    registryNews, changedAt>>
    BY <1>6 DEF AccountsPoll, PollReply, PollIsLost, PollLapses, published, control, outside
  <2>2. queued => queued'
    BY <1>6, Zenon DEF AccountsPoll, PollReply, PollIsLost, PollLapses, control
  <2> QED BY <2>1, <2>2, RestUntouched
<1>7. CASE \/ \E nets \in SUBSET Chains : RegistryChanges(nets)
           \/ \E whos \in SUBSET Accounts, told \in BOOLEAN : KeystoreChanges(whos, told)
  BY <1>7, RestOutside
<1>8. CASE UNCHANGED vars
  BY <1>8, RestUntouched DEF vars, published, control, outside
<1> QED BY <1>1, <1>2, <1>3, <1>4, <1>5, <1>6, <1>7, <1>8 DEF Next

(* When no refresh runs or is queued and every change is announced, the      *)
(* registry is on screen as it is now, or the last read of it was refused:   *)
(* no interleaving of refreshes and changes leaves an old snapshot standing. *)
THEOREM RestIsConverged == Spec => []RestShowsRegistry
<1>1. Spec => [](IInv /\ RestInv)
  BY InitFits, StepKeeps, RestInitFits, RestStepKeeps, PTL DEF Spec
<1>2. IInv /\ RestInv => RestShowsRegistry
  <2> SUFFICES ASSUME IInv, RestInv, step = "idle", ~queued, ~registryNews, ~networkLost
               PROVE  networks = registry
    BY DEF RestShowsRegistry
  <2>1. ~refreshAgain
    BY DEF IInv, OwedIsRunning
  <2>2. publishedAt >= heardAt /\ heardAt = changedAt /\ publishedAt <= changedAt
    BY <2>1 DEF RestInv, ShownIsHeard
  <2>3. publishedAt = changedAt
    BY <2>2, TypeFacts
  <2> QED BY <2>1, <2>3 DEF RestInv, ShownIsHeard
<1> QED BY <1>1, <1>2, PTL

-----------------------------------------------------------------------------
(***************************************************************************)
(* TokenOrder.  A choice is counted before its call goes out, so a read    *)
(* that went out earlier holds a generation that is past, and one that     *)
(* goes out later is served after the choice.                              *)
(***************************************************************************)

(* A read of the present generation that is answered has seen the last       *)
(* choice made here.                                                         *)
SeesChoice(read, gen, floor) ==
  read.gen = gen /\ read.reply # NotSaid => read.reply.version >= floor

ReadsSeeChoice ==
  /\ stored.version >= chosen
  /\ \A i \in DOMAIN waiting : /\ waiting[i].gen <= choiceGen
                               /\ waiting[i].kind = "tokens" => SeesChoice(waiting[i], choiceGen, chosen)
  /\ \A c \in balances : c.gen <= choiceGen /\ SeesChoice(c, choiceGen, chosen)

OrderIInv == OrderTypeOK /\ OneRefreshOnStack /\ ReadsSeeChoice

USE OrderAssumption, NotSaidAssumption

(* Suspending a handler: it is on top, and those below it are as they were. *)
LEMMA Pushed ==
  ASSUME NEW stack \in Seq(Handler), NEW top \in Handler
  PROVE  /\ Append(stack, top) \in Seq(Handler)
         /\ \A i \in DOMAIN Append(stack, top) :
              \/ i \in DOMAIN stack /\ Append(stack, top)[i] = stack[i]
              \/ i = Len(stack) + 1 /\ Append(stack, top)[i] = top
         /\ \A i \in DOMAIN stack : i \in DOMAIN Append(stack, top) /\ Append(stack, top)[i] = stack[i]
         /\ Len(stack) + 1 \in DOMAIN Append(stack, top) /\ Len(stack) + 1 \notin DOMAIN stack
         /\ Append(stack, top)[Len(stack) + 1] = top
OBVIOUS

(* Returning to a handler: the one on top is gone. *)
LEMMA Popped ==
  ASSUME NEW stack \in Seq(Handler), stack # <<>>
  PROVE  /\ SubSeq(stack, 1, Len(stack) - 1) \in Seq(Handler)
         /\ Len(stack) \in DOMAIN stack /\ stack[Len(stack)] \in Handler
         /\ DOMAIN SubSeq(stack, 1, Len(stack) - 1) = DOMAIN stack \ {Len(stack)}
         /\ \A i \in DOMAIN SubSeq(stack, 1, Len(stack) - 1) :
              SubSeq(stack, 1, Len(stack) - 1)[i] = stack[i]
<1>1. Len(stack) \in Nat /\ Len(stack) >= 1
  OBVIOUS
<1>2. SubSeq(stack, 1, Len(stack) - 1) = [i \in 1 .. Len(stack) - 1 |-> stack[i]]
  BY <1>1
<1> QED BY <1>1, <1>2

LEMMA StoreFits ==
  ASSUME OrderIInv, NEW order \in Orders, Store(order)
  PROVE  /\ stored' \in Version /\ stored'.version = stored.version + 1
         /\ events' \in Seq(Version) /\ overtaken' \in BOOLEAN
<1>1. stored' = [order |-> order, version |-> stored.version + 1]
  BY DEF Store
<1>2. stored' \in Version /\ stored'.version = stored.version + 1
  BY <1>1 DEF OrderIInv, OrderTypeOK, Version
<1>3. events' \in Seq(Version)
  <2>1. events' = Append(events, stored') /\ events \in Seq(Version)
    BY DEF Store, OrderIInv, OrderTypeOK
  <2> QED BY <1>2, <2>1
<1>4. overtaken' \in BOOLEAN
  BY DEF Store
<1> QED BY <1>2, <1>3, <1>4

(* What a handler that chooses suspends in touches neither refreshes nor reads. *)
LEMMA ChoicePushKeeps ==
  ASSUME OrderIInv, NEW answered \in Replies,
         waiting' = Append(waiting, [kind |-> "choice", reply |-> answered, gen |-> choiceGen']),
         choiceGen' = choiceGen + 1,
         UNCHANGED <<balances, inFlight>>, stored'.version >= chosen'
  PROVE  waiting' \in Seq(Handler) /\ OneRefreshOnStack' /\ ReadsSeeChoice'
<1> DEFINE top == [kind |-> "choice", reply |-> answered, gen |-> choiceGen']
<1>1. choiceGen \in Nat /\ waiting \in Seq(Handler)
  BY DEF OrderIInv, OrderTypeOK
<1>2. top \in Handler /\ top.kind = "choice" /\ top.gen = choiceGen'
  BY <1>1 DEF Handler
<1> HIDE DEF top
<1>3. /\ waiting' \in Seq(Handler)
      /\ \A i \in DOMAIN waiting' : \/ i \in DOMAIN waiting /\ waiting'[i] = waiting[i]
                                    \/ i = Len(waiting) + 1 /\ waiting'[i] = top
      /\ \A i \in DOMAIN waiting : i \in DOMAIN waiting' /\ waiting'[i] = waiting[i]
  BY <1>1, <1>2, Pushed DEF top
<1>4. OneRefreshOnStack'
  <2>1. \A i \in DOMAIN waiting' : waiting'[i].kind = "tokens" =>
          i \in DOMAIN waiting /\ waiting[i].kind = "tokens"
    BY <1>2, <1>3
  <2>2. \A i \in DOMAIN waiting : waiting[i].kind = "tokens" =>
          i \in DOMAIN waiting' /\ waiting'[i].kind = "tokens"
    BY <1>3
  <2>3. \A i, j \in DOMAIN waiting' :
          waiting'[i].kind = "tokens" /\ waiting'[j].kind = "tokens" => i = j
    BY <2>1 DEF OrderIInv, OneRefreshOnStack
  <2>4. inFlight.running <=> \E i \in DOMAIN waiting : waiting[i].kind = "tokens"
    BY DEF OrderIInv, OneRefreshOnStack
  <2> QED BY <2>1, <2>2, <2>3, <2>4 DEF OneRefreshOnStack
<1>5. \A i \in DOMAIN waiting' :
        /\ waiting'[i].gen <= choiceGen'
        /\ waiting'[i].kind = "tokens" => SeesChoice(waiting'[i], choiceGen', chosen')
  <2>1. \A i \in DOMAIN waiting : waiting[i].gen \in Nat /\ waiting[i].gen <= choiceGen
    <3>1. \A i \in DOMAIN waiting : waiting[i] \in Handler
      BY <1>1
    <3> QED BY <3>1 DEF OrderIInv, ReadsSeeChoice, Handler
  <2>2. ASSUME NEW i \in DOMAIN waiting'
        PROVE  /\ waiting'[i].gen <= choiceGen'
               /\ waiting'[i].kind = "tokens" => waiting'[i].gen # choiceGen'
    <3>1. CASE i \in DOMAIN waiting /\ waiting'[i] = waiting[i]
      BY <1>1, <2>1, <3>1
    <3>2. CASE waiting'[i] = top
      BY <1>1, <1>2, <3>2
    <3> QED BY <1>3, <3>1, <3>2
  <2> QED BY <2>2 DEF SeesChoice
<1>6. \A c \in balances' : c.gen <= choiceGen' /\ SeesChoice(c, choiceGen', chosen')
  <2>1. \A c \in balances : c.gen \in Nat /\ c.gen <= choiceGen
    BY DEF OrderIInv, OrderTypeOK, ReadsSeeChoice, Read
  <2>2. \A c \in balances' : c.gen <= choiceGen' /\ c.gen # choiceGen'
    BY <1>1, <2>1
  <2> QED BY <2>2 DEF SeesChoice
<1> QED BY <1>3, <1>4, <1>5, <1>6 DEF ReadsSeeChoice

LEMMA SpentFits ==
  ASSUME OrderIInv, NEW what \in {"choices", "others", "refusals"}, NEW max, Charge(what, max)
  PROVE  spent' \in [choices : Nat, others : Nat, refusals : Nat]
<1>1. spent \in [choices : Nat, others : Nat, refusals : Nat]
  BY DEF OrderIInv, OrderTypeOK
<1> QED BY <1>1 DEF Charge

LEMMA ChoicesKeep ==
  ASSUME OrderIInv, (\E order \in Orders : ChooseTokenSort(order)) \/ ChoiceRefused
  PROVE  OrderIInv'
<1>1. CASE \E order \in Orders : ChooseTokenSort(order)
  <2>1. PICK order \in Orders : ChooseTokenSort(order)
    BY <1>1
  <2>2. /\ Store(order) /\ choiceGen' = choiceGen + 1 /\ chosen' = stored'.version
        /\ waiting' = Append(waiting, [kind |-> "choice", reply |-> stored', gen |-> choiceGen'])
        /\ UNCHANGED <<tokenSort, balances, again, due, inFlight>>
    BY <2>1 DEF ChooseTokenSort, reads
  <2>3. spent' \in [choices : Nat, others : Nat, refusals : Nat]
    BY <2>1, SpentFits DEF ChooseTokenSort
  <2>4. stored' \in Version /\ events' \in Seq(Version) /\ overtaken' \in BOOLEAN
        /\ stored'.version \in Nat
    BY <2>2, StoreFits DEF Version
  <2>5. waiting' \in Seq(Handler) /\ OneRefreshOnStack' /\ ReadsSeeChoice'
    BY <2>2, <2>4, ChoicePushKeeps DEF Replies
  <2>6. choiceGen' \in Nat /\ chosen' \in Nat
    BY <2>2, <2>4 DEF OrderIInv, OrderTypeOK
  <2>7. tokenSort' \in Replies /\ UNCHANGED <<balances, again, due, inFlight>>
    BY <2>2, <2>4 DEF OrderIInv, OrderTypeOK, Replies
  <2>8. OrderTypeOK'
    BY <2>3, <2>4, <2>5, <2>6, <2>7 DEF OrderIInv, OrderTypeOK
  <2> QED BY <2>5, <2>8 DEF OrderIInv
<1>2. CASE ChoiceRefused
  <2>1. /\ choiceGen' = choiceGen + 1
        /\ waiting' = Append(waiting, [kind |-> "choice", reply |-> NotSaid, gen |-> choiceGen'])
        /\ UNCHANGED <<stored, tokenSort, balances, again, due, inFlight, events, chosen, overtaken>>
    BY <1>2 DEF ChoiceRefused, reads
  <2>2. spent' \in [choices : Nat, others : Nat, refusals : Nat]
    BY <1>2, SpentFits DEF ChoiceRefused
  <2>3. waiting' \in Seq(Handler) /\ OneRefreshOnStack' /\ ReadsSeeChoice'
    BY <2>1, ChoicePushKeeps DEF Replies, OrderIInv, ReadsSeeChoice
  <2> QED BY <2>1, <2>2, <2>3 DEF OrderIInv, OrderTypeOK
<1> QED BY <1>1, <1>2

LEMMA ChoiceReturnKeeps ==
  ASSUME OrderIInv, ChoiceReturns
  PROVE  OrderIInv'
<1>1. /\ waiting # <<>> /\ waiting \in Seq(Handler) /\ waiting[Len(waiting)].kind = "choice"
      /\ waiting' = SubSeq(waiting, 1, Len(waiting) - 1)
      /\ tokenSort' \in {tokenSort, waiting[Len(waiting)].reply}
      /\ UNCHANGED <<stored, choiceGen, balances, again, due, inFlight, events, chosen, overtaken, spent>>
  BY DEF ChoiceReturns, Publish, Top, Below, reads, OrderIInv, OrderTypeOK
<1>2. /\ waiting' \in Seq(Handler) /\ waiting[Len(waiting)] \in Handler
      /\ DOMAIN waiting' = DOMAIN waiting \ {Len(waiting)}
      /\ \A i \in DOMAIN waiting' : waiting'[i] = waiting[i]
  BY <1>1, Popped
<1>3. OrderTypeOK'
  BY <1>1, <1>2 DEF OrderIInv, OrderTypeOK, Handler
<1>4. OneRefreshOnStack'
  BY <1>1, <1>2 DEF OrderIInv, OneRefreshOnStack
<1>5. ReadsSeeChoice'
  BY <1>1, <1>2 DEF OrderIInv, ReadsSeeChoice, SeesChoice
<1> QED BY <1>3, <1>4, <1>5 DEF OrderIInv

(* A refresh begins only where none is on the stack. *)
LEMMA RefreshKeeps ==
  ASSUME OrderIInv, Refresh
  PROVE  OrderIInv'
<1>1. /\ UNCHANGED <<stored, tokenSort, choiceGen, balances, again, events, chosen, overtaken, spent>>
      /\ due' \in Nat
  BY DEF Refresh, reads, OrderIInv, OrderTypeOK
<1>2. CASE inFlight.running /\ inFlight' = [inFlight EXCEPT !.again = TRUE] /\ UNCHANGED waiting
  <2>1. inFlight' \in [running : BOOLEAN, again : BOOLEAN] /\ inFlight'.running = inFlight.running
    BY <1>2 DEF OrderIInv, OrderTypeOK
  <2>2. OneRefreshOnStack'
    BY <1>2, <2>1 DEF OrderIInv, OneRefreshOnStack
  <2> QED BY <1>1, <1>2, <2>1, <2>2 DEF OrderIInv, OrderTypeOK, ReadsSeeChoice
<1>3. CASE /\ ~inFlight.running /\ inFlight' = [inFlight EXCEPT !.running = TRUE]
           /\ waiting' = Append(waiting, [kind |-> "tokens", reply |-> NotSaid, gen |-> choiceGen])
  <2> DEFINE top == [kind |-> "tokens", reply |-> NotSaid, gen |-> choiceGen]
  <2>1. inFlight' \in [running : BOOLEAN, again : BOOLEAN] /\ inFlight'.running
    BY <1>3 DEF OrderIInv, OrderTypeOK
  <2>2. choiceGen \in Nat /\ waiting \in Seq(Handler) /\ top \in Handler
    BY DEF OrderIInv, OrderTypeOK, Handler, Replies
  <2>3. top.kind = "tokens" /\ top.gen = choiceGen /\ top.reply = NotSaid
    OBVIOUS
  <2> HIDE DEF top
  <2>4. /\ waiting' \in Seq(Handler)
        /\ \A i \in DOMAIN waiting' : \/ i \in DOMAIN waiting /\ waiting'[i] = waiting[i]
                                      \/ i = Len(waiting) + 1 /\ waiting'[i] = top
        /\ Len(waiting) + 1 \in DOMAIN waiting' /\ waiting'[Len(waiting) + 1] = top
    BY <1>3, <2>2, Pushed DEF top
  <2>5. \A i \in DOMAIN waiting : waiting[i].kind # "tokens"
    BY <1>3 DEF OrderIInv, OneRefreshOnStack
  <2>6. OneRefreshOnStack'
    <3>1. \A i, j \in DOMAIN waiting' :
            waiting'[i].kind = "tokens" /\ waiting'[j].kind = "tokens" => i = j
      BY <2>4, <2>5
    <3>2. \E i \in DOMAIN waiting' : waiting'[i].kind = "tokens"
      BY <2>3, <2>4
    <3> QED BY <2>1, <3>1, <3>2 DEF OneRefreshOnStack
  <2>7. ReadsSeeChoice'
    <3>1. ASSUME NEW i \in DOMAIN waiting'
          PROVE  /\ waiting'[i].gen <= choiceGen'
                 /\ waiting'[i].kind = "tokens" => SeesChoice(waiting'[i], choiceGen', chosen')
      <4>1. CASE i \in DOMAIN waiting /\ waiting'[i] = waiting[i]
        BY <1>1, <4>1 DEF OrderIInv, ReadsSeeChoice
      <4>2. CASE waiting'[i] = top
        BY <1>1, <2>2, <2>3, <4>2 DEF SeesChoice
      <4> QED BY <2>4, <4>1, <4>2
    <3> QED BY <1>1, <3>1 DEF OrderIInv, ReadsSeeChoice
  <2> QED BY <1>1, <2>1, <2>4, <2>6, <2>7 DEF OrderIInv, OrderTypeOK
<1> QED BY <1>2, <1>3 DEF Refresh

(* An answer is the setting as it is now, which no choice made here is after. *)
LEMMA ListsKeep ==
  ASSUME OrderIInv, BackendLists
  PROVE  OrderIInv'
<1>1. PICK k \in DOMAIN waiting :
        /\ waiting[k].kind = "tokens" /\ waiting' = [waiting EXCEPT ![k].reply = stored]
        /\ UNCHANGED <<stored, tokenSort, choiceGen, balances, again, due, inFlight, events, chosen,
                       overtaken, spent>>
  BY DEF BackendLists, reads
<1>2. /\ waiting \in Seq(Handler) /\ waiting[k] \in Handler /\ stored \in Replies
      /\ stored.version >= chosen
  BY DEF OrderIInv, OrderTypeOK, ReadsSeeChoice, Replies
<1>3. [waiting[k] EXCEPT !.reply = stored] \in Handler
  BY <1>2 DEF Handler
<1>4. /\ waiting' \in Seq(Handler) /\ DOMAIN waiting' = DOMAIN waiting
      /\ \A i \in DOMAIN waiting : i # k => waiting'[i] = waiting[i]
      /\ waiting'[k] = [waiting[k] EXCEPT !.reply = stored]
  BY <1>1, <1>2, <1>3
<1>5. /\ waiting'[k].kind = waiting[k].kind /\ waiting'[k].gen = waiting[k].gen
      /\ waiting'[k].reply = stored
  BY <1>2, <1>4 DEF Handler
<1>6. \A i \in DOMAIN waiting : waiting'[i].kind = waiting[i].kind
  BY <1>4, <1>5
<1>7. OneRefreshOnStack'
  BY <1>1, <1>4, <1>6 DEF OrderIInv, OneRefreshOnStack
<1>8. ReadsSeeChoice'
  <2>1. ASSUME NEW i \in DOMAIN waiting'
        PROVE  /\ waiting'[i].gen <= choiceGen'
               /\ waiting'[i].kind = "tokens" => SeesChoice(waiting'[i], choiceGen', chosen')
    <3>1. CASE i = k
      BY <1>1, <1>2, <1>5, <3>1 DEF OrderIInv, ReadsSeeChoice, SeesChoice
    <3>2. CASE i # k
      BY <1>1, <1>4, <3>2 DEF OrderIInv, ReadsSeeChoice
    <3> QED BY <3>1, <3>2
  <2> QED BY <1>1, <2>1 DEF OrderIInv, ReadsSeeChoice
<1> QED BY <1>1, <1>4, <1>7, <1>8 DEF OrderIInv, OrderTypeOK

LEMMA ListReturnKeeps ==
  ASSUME OrderIInv, ListReturns
  PROVE  OrderIInv'
<1>1. /\ waiting # <<>> /\ waiting \in Seq(Handler) /\ waiting[Len(waiting)].kind = "tokens"
      /\ waiting' = SubSeq(waiting, 1, Len(waiting) - 1)
      /\ inFlight' = [running |-> FALSE, again |-> FALSE]
      /\ UNCHANGED <<stored, choiceGen, events, chosen, overtaken>>
  BY DEF ListReturns, EndRefresh, Top, Below, OrderIInv, OrderTypeOK
<1>2. /\ waiting' \in Seq(Handler) /\ waiting[Len(waiting)] \in Handler
      /\ Len(waiting) \in DOMAIN waiting /\ DOMAIN waiting' = DOMAIN waiting \ {Len(waiting)}
      /\ \A i \in DOMAIN waiting' : waiting'[i] = waiting[i]
  BY <1>1, Popped
<1>3. tokenSort' \in Replies
  BY <1>2 DEF ListReturns, Adopt, Publish, Top, Handler, OrderIInv, OrderTypeOK
<1>4. due' \in Nat
  BY DEF ListReturns, EndRefresh, OrderIInv, OrderTypeOK
<1>5. spent' \in [choices : Nat, others : Nat, refusals : Nat]
  BY SpentFits DEF ListReturns, OrderIInv, OrderTypeOK
<1>6. /\ again' \in BOOLEAN
      /\ balances' = balances \/ balances' = {[reply |-> NotSaid, gen |-> choiceGen]}
  BY DEF ListReturns, EndRefresh, LoadBalances, OrderIInv, OrderTypeOK
<1>7. choiceGen \in Nat /\ [reply |-> NotSaid, gen |-> choiceGen] \in Read
  BY DEF Read, Replies, OrderIInv, OrderTypeOK
<1>8. OneRefreshOnStack'
  BY <1>1, <1>2 DEF OrderIInv, OneRefreshOnStack
<1>9. ReadsSeeChoice'
  <2>1. \A c \in balances' : c.gen <= choiceGen /\ SeesChoice(c, choiceGen, chosen)
    BY <1>6, <1>7 DEF OrderIInv, ReadsSeeChoice, SeesChoice
  <2> QED BY <1>1, <1>2, <2>1 DEF OrderIInv, ReadsSeeChoice
<1>10. balances' \subseteq Read
  BY <1>6, <1>7 DEF OrderIInv, OrderTypeOK
<1> QED BY <1>1, <1>2, <1>3, <1>4, <1>5, <1>6, <1>8, <1>9, <1>10 DEF OrderIInv, OrderTypeOK

LEMMA BalancesKeep ==
  ASSUME OrderIInv,
         BackendReads \/ \E c \in balances, heard \in BOOLEAN : BalancesReply(c, heard)
  PROVE  OrderIInv'
<1>1. UNCHANGED <<stored, choiceGen, waiting, due, inFlight, events, chosen, overtaken>>
  BY DEF BackendReads, BalancesReply
<1>2. /\ OneRefreshOnStack' /\ choiceGen \in Nat /\ stored \in Version /\ stored.version >= chosen
      /\ balances \subseteq Read
  BY <1>1 DEF OrderIInv, OrderTypeOK, OneRefreshOnStack, ReadsSeeChoice
<1>3. /\ tokenSort' \in Replies /\ again' \in BOOLEAN
      /\ spent' \in [choices : Nat, others : Nat, refusals : Nat]
  <2>1. CASE BackendReads
    BY <2>1 DEF BackendReads, OrderIInv, OrderTypeOK
  <2>2. ASSUME NEW c \in balances, NEW heard \in BOOLEAN, BalancesReply(c, heard)
        PROVE  <1>3
    <3>1. c.reply \in Replies
      BY <1>2 DEF Read
    <3> QED BY <2>2, <3>1, SpentFits DEF BalancesReply, Adopt, Publish, OrderIInv, OrderTypeOK
  <2> QED BY <2>1, <2>2
<1>4. \A c \in balances' : c \in Read /\ c.gen <= choiceGen /\ SeesChoice(c, choiceGen, chosen)
  <2>1. CASE BackendReads
    <3>1. PICK c \in balances : balances' = {[c EXCEPT !.reply = stored]}
      BY <2>1 DEF BackendReads
    <3>2. c \in Read /\ c.gen <= choiceGen
      BY <1>2 DEF OrderIInv, ReadsSeeChoice
    <3>3. /\ [c EXCEPT !.reply = stored] \in Read /\ [c EXCEPT !.reply = stored].gen = c.gen
          /\ [c EXCEPT !.reply = stored].reply = stored
      BY <1>2, <3>2 DEF Read, Replies
    <3> QED BY <1>2, <3>1, <3>2, <3>3 DEF SeesChoice
  <2>2. CASE \E c \in balances, heard \in BOOLEAN : BalancesReply(c, heard)
    <3>1. balances' \subseteq {[reply |-> NotSaid, gen |-> choiceGen]}
      BY <2>2 DEF BalancesReply
    <3> QED BY <1>2, <3>1 DEF SeesChoice, Read, Replies
  <2> QED BY <2>1, <2>2
<1>5. ReadsSeeChoice'
  BY <1>1, <1>4 DEF OrderIInv, ReadsSeeChoice
<1>6. OrderTypeOK'
  BY <1>1, <1>3, <1>4 DEF OrderIInv, OrderTypeOK
<1> QED BY <1>2, <1>5, <1>6 DEF OrderIInv

(* Another instance's choice only moves the setting on. *)
LEMMA OutsideOrderKeeps ==
  ASSUME OrderIInv,
         SortChanged \/ Notice \/ \E order \in Orders : OthersChoose(order)
  PROVE  OrderIInv'
<1>1. UNCHANGED <<choiceGen, waiting, balances, again, inFlight, chosen>>
  BY DEF SortChanged, Notice, OthersChoose, reads
<1>2. /\ stored' \in Version /\ stored'.version >= chosen /\ events' \in Seq(Version)
      /\ overtaken' \in BOOLEAN /\ tokenSort' \in Replies /\ due' \in Nat
      /\ spent' \in [choices : Nat, others : Nat, refusals : Nat]
  <2>1. CASE SortChanged
    <3>1. events # <<>> /\ events \in Seq(Version)
      BY <2>1 DEF SortChanged, OrderIInv, OrderTypeOK
    <3>2. Head(events) \in Version /\ Tail(events) \in Seq(Version)
      BY <3>1
    <3> QED BY <2>1, <3>2 DEF SortChanged, OrderIInv, OrderTypeOK, ReadsSeeChoice, Replies
  <2>2. CASE Notice
    BY <2>2, SpentFits DEF Notice, OrderIInv, OrderTypeOK, ReadsSeeChoice
  <2>3. ASSUME NEW order \in Orders, OthersChoose(order)
        PROVE  <1>2
    <3>1. /\ Store(order) /\ UNCHANGED <<tokenSort, due>>
          /\ spent' \in [choices : Nat, others : Nat, refusals : Nat]
      BY <2>3, SpentFits DEF OthersChoose
    <3>2. stored.version \in Nat /\ chosen \in Nat /\ stored.version >= chosen
      BY DEF OrderIInv, OrderTypeOK, ReadsSeeChoice, Version
    <3>3. /\ stored' \in Version /\ stored'.version = stored.version + 1
          /\ events' \in Seq(Version) /\ overtaken' \in BOOLEAN
      BY <3>1, StoreFits
    <3>4. stored'.version >= chosen
      BY <3>2, <3>3
    <3>5. tokenSort' \in Replies /\ due' \in Nat
      BY <3>1 DEF OrderIInv, OrderTypeOK
    <3> QED BY <3>1, <3>3, <3>4, <3>5
  <2> QED BY <2>1, <2>2, <2>3
<1>3. OneRefreshOnStack'
  BY <1>1 DEF OrderIInv, OneRefreshOnStack
<1>4. ReadsSeeChoice'
  BY <1>1, <1>2 DEF OrderIInv, ReadsSeeChoice
<1>5. OrderTypeOK'
  BY <1>1, <1>2 DEF OrderIInv, OrderTypeOK
<1> QED BY <1>3, <1>4, <1>5 DEF OrderIInv

LEMMA OrderInitFits == OrderInit => OrderIInv
<1> SUFFICES ASSUME OrderInit PROVE OrderIInv
  OBVIOUS
<1>1. stored \in Version /\ stored.version = 0
  BY DEF OrderInit, Version
<1>2. OrderTypeOK
  <2>1. waiting \in Seq(Handler) /\ events \in Seq(Version) /\ balances \subseteq Read
    BY DEF OrderInit
  <2>2. spent \in [choices : Nat, others : Nat, refusals : Nat]
    BY DEF OrderInit
  <2>3. inFlight \in [running : BOOLEAN, again : BOOLEAN]
    BY DEF OrderInit
  <2> QED BY <1>1, <2>1, <2>2, <2>3 DEF OrderInit, OrderTypeOK, Replies
<1>3. OneRefreshOnStack
  BY DEF OrderInit, OneRefreshOnStack
<1>4. ReadsSeeChoice
  BY <1>1 DEF OrderInit, ReadsSeeChoice
<1> QED BY <1>2, <1>3, <1>4 DEF OrderIInv

LEMMA OrderStepKeeps == OrderIInv /\ [OrderNext]_orderVars => OrderIInv'
<1> SUFFICES ASSUME OrderIInv, [OrderNext]_orderVars PROVE OrderIInv'
  OBVIOUS
<1>1. CASE (\E order \in Orders : ChooseTokenSort(order)) \/ ChoiceRefused
  BY <1>1, ChoicesKeep
<1>2. CASE ChoiceReturns
  BY <1>2, ChoiceReturnKeeps
<1>3. CASE Refresh
  BY <1>3, RefreshKeeps
<1>4. CASE BackendLists
  BY <1>4, ListsKeep
<1>5. CASE ListReturns
  BY <1>5, ListReturnKeeps
<1>6. CASE BackendReads \/ \E c \in balances, heard \in BOOLEAN : BalancesReply(c, heard)
  BY <1>6, BalancesKeep
<1>7. CASE SortChanged \/ Notice \/ \E order \in Orders : OthersChoose(order)
  BY <1>7, OutsideOrderKeeps
<1>8. CASE UNCHANGED orderVars
  BY <1>8 DEF orderVars, reads, OrderIInv, OrderTypeOK, OneRefreshOnStack, ReadsSeeChoice
<1> QED BY <1>1, <1>2, <1>3, <1>4, <1>5, <1>6, <1>7, <1>8 DEF OrderNext

LEMMA OrderInductive == OrderSpec => []OrderIInv
BY OrderInitFits, OrderStepKeeps, PTL DEF OrderSpec

(* The stack of suspended handlers, the read on the lane and the events keep *)
(* their types, however deep the event loops nest.                           *)
THEOREM OrderTypeCorrect == OrderSpec => []OrderTypeOK
<1>1. OrderIInv => OrderTypeOK
  BY DEF OrderIInv
<1> QED BY <1>1, OrderInductive, PTL

(* However many choices and refreshes nest, at most one refresh() is on the  *)
(* stack, and m_inFlight says whether it is (refresh).  Refresh rests on it: *)
(* a single program counter is all of refresh()'s control state.             *)
THEOREM RefreshNeverNests == OrderSpec => []OneRefreshOnStack
<1>1. OrderIInv => OneRefreshOnStack
  BY DEF OrderIInv
<1> QED BY <1>1, OrderInductive, PTL

(* No read of tokens or balances puts back an order that a choice made here  *)
(* has replaced, for any orders and any number of choices, refreshes and     *)
(* other instances' choices in flight (m_sortChoiceGen).                     *)
THEOREM ReadsNeverUndoAChoice == OrderSpec => ReadsKeepTheChoice
<1>1. OrderIInv /\ [OrderNext]_orderVars =>
        [ ListReturns \/ (\E c \in balances, heard \in BOOLEAN : BalancesReply(c, heard))
            => tokenSort' = tokenSort \/ tokenSort'.version >= chosen ]_orderVars
  <2> SUFFICES ASSUME OrderIInv,
                      ListReturns \/ (\E c \in balances, heard \in BOOLEAN : BalancesReply(c, heard))
               PROVE  tokenSort' = tokenSort \/ tokenSort'.version >= chosen
    OBVIOUS
  <2>1. CASE ListReturns
    <3>1. /\ waiting # <<>> /\ waiting \in Seq(Handler)
          /\ waiting[Len(waiting)].kind = "tokens"
      BY <2>1 DEF ListReturns, Top, OrderIInv, OrderTypeOK
    <3>2. SeesChoice(waiting[Len(waiting)], choiceGen, chosen)
      BY <3>1, Popped DEF OrderIInv, ReadsSeeChoice
    <3> QED BY <2>1, <3>2 DEF ListReturns, Top, Adopt, Publish, SeesChoice
  <2>2. ASSUME NEW c \in balances, NEW heard \in BOOLEAN, BalancesReply(c, heard)
        PROVE  tokenSort' = tokenSort \/ tokenSort'.version >= chosen
    BY <2>2 DEF BalancesReply, Adopt, Publish, OrderIInv, ReadsSeeChoice, SeesChoice
  <2> QED BY <2>1, <2>2
<1> QED BY <1>1, OrderInductive, PTL DEF OrderSpec, ReadsKeepTheChoice

-----------------------------------------------------------------------------
(***************************************************************************)
(* At rest the menu shows the setting: whatever might put an older order   *)
(* on it leaves an event, a refresh or a re-read to come.                  *)
(***************************************************************************)
Undisturbed == ~overtaken /\ spent.refusals = 0

ToCome == events # <<>> \/ due > 0 \/ inFlight.running \/ again

Fresh(c) == c.gen = choiceGen /\ c.reply \in {NotSaid, stored}

OneReadOut == (again => balances # {}) /\ \A c, d \in balances : c = d

ChoicesStand ==
  \A i \in DOMAIN waiting : waiting[i].kind = "choice" => waiting[i].reply \in {NotSaid, stored}

MenuToCome ==
  ToCome \/ /\ tokenSort = stored \/ \E c \in balances : Fresh(c)
            /\ \A c \in balances : c.gen = choiceGen => Fresh(c)

OrderRests == OneReadOut /\ (Undisturbed => ChoicesStand /\ MenuToCome)

LEMMA OrderRestInitFits == OrderInit => OrderRests
BY DEF OrderInit, OrderRests, OneReadOut, ChoicesStand, MenuToCome, ToCome

LEMMA RefusalDisturbs ==
  ASSUME OrderIInv, Charge("refusals", MaxRefusals)
  PROVE  ~Undisturbed'
<1>1. spent.refusals \in Nat /\ spent'.refusals = spent.refusals + 1
  BY DEF Charge, OrderIInv, OrderTypeOK
<1> QED BY <1>1 DEF Undisturbed

(* A choice on the stack as another is stored is overtaken. *)
LEMMA StoreRests ==
  ASSUME OrderIInv, OrderRests, NEW order \in Orders, Store(order), UNCHANGED <<balances, again>>,
         \/ UNCHANGED waiting
         \/ \E gen \in Nat : waiting' = Append(waiting, [kind |-> "choice", reply |-> stored', gen |-> gen])
  PROVE  OrderRests'
<1>1. stored' \in Version /\ events' # <<>>
  <2>1. events \in Seq(Version) /\ events' = Append(events, stored')
    BY DEF OrderIInv, OrderTypeOK, Store
  <2> QED BY <2>1, StoreFits
<1>2. SUFFICES ASSUME Undisturbed' PROVE ChoicesStand'
  BY <1>1 DEF OrderRests, OneReadOut, MenuToCome, ToCome
<1>3. ~ChoiceWaits
  BY <1>2 DEF Undisturbed, Store
<1>4. \A i \in DOMAIN waiting : waiting[i].kind = "choice" => waiting[i].reply = NotSaid
  BY <1>3 DEF ChoiceWaits
<1>5. CASE UNCHANGED waiting
  BY <1>4, <1>5 DEF ChoicesStand
<1>6. ASSUME NEW gen \in Nat,
             waiting' = Append(waiting, [kind |-> "choice", reply |-> stored', gen |-> gen])
      PROVE  ChoicesStand'
  <2> DEFINE top == [kind |-> "choice", reply |-> stored', gen |-> gen]
  <2>1. top \in Handler /\ top.reply = stored' /\ waiting \in Seq(Handler)
    BY <1>1 DEF Handler, Replies, OrderIInv, OrderTypeOK
  <2> HIDE DEF top
  <2>2. \A i \in DOMAIN waiting' : (i \in DOMAIN waiting /\ waiting'[i] = waiting[i]) \/ waiting'[i] = top
    BY <1>6, <2>1, Pushed DEF top
  <2> QED BY <1>4, <2>1, <2>2 DEF ChoicesStand
<1> QED BY <1>5, <1>6

LEMMA ChoiceRests ==
  ASSUME OrderIInv, OrderRests, ChoiceReturns
  PROVE  OrderRests'
<1>1. /\ waiting # <<>> /\ waiting \in Seq(Handler) /\ waiting[Len(waiting)].kind = "choice"
      /\ waiting' = SubSeq(waiting, 1, Len(waiting) - 1)
      /\ tokenSort' = IF waiting[Len(waiting)].reply = NotSaid THEN tokenSort
                      ELSE waiting[Len(waiting)].reply
      /\ UNCHANGED <<stored, choiceGen, balances, again, due, inFlight, events, overtaken, spent>>
  BY DEF ChoiceReturns, Publish, Top, Below, reads, OrderIInv, OrderTypeOK
<1>2. /\ Len(waiting) \in DOMAIN waiting
      /\ \A i \in DOMAIN waiting' : i \in DOMAIN waiting /\ waiting'[i] = waiting[i]
  BY <1>1, Popped
<1>3. Undisturbed' => tokenSort' \in {tokenSort, stored}
  BY <1>1, <1>2 DEF Undisturbed, OrderRests, ChoicesStand
<1>4. Undisturbed' => ChoicesStand'
  BY <1>1, <1>2 DEF Undisturbed, OrderRests, ChoicesStand
<1>5. Undisturbed' => MenuToCome'
  BY <1>1, <1>3 DEF Undisturbed, OrderRests, MenuToCome, ToCome, Fresh
<1> QED BY <1>1, <1>4, <1>5 DEF OrderRests, OneReadOut

LEMMA RefreshRests ==
  ASSUME OrderIInv, OrderRests, Refresh
  PROVE  OrderRests'
<1>1. /\ UNCHANGED <<stored, tokenSort, choiceGen, balances, again, events, overtaken, spent>>
      /\ inFlight'.running
  BY DEF Refresh, reads, OrderIInv, OrderTypeOK
<1>2. Undisturbed' => ChoicesStand'
  <2>1. CASE UNCHANGED waiting
    BY <1>1, <2>1 DEF Undisturbed, OrderRests, ChoicesStand
  <2>2. CASE waiting' = Append(waiting, [kind |-> "tokens", reply |-> NotSaid, gen |-> choiceGen])
    <3> DEFINE top == [kind |-> "tokens", reply |-> NotSaid, gen |-> choiceGen]
    <3>1. top \in Handler /\ top.kind = "tokens" /\ waiting \in Seq(Handler)
      BY DEF Handler, Replies, OrderIInv, OrderTypeOK
    <3> HIDE DEF top
    <3>2. \A i \in DOMAIN waiting' : (i \in DOMAIN waiting /\ waiting'[i] = waiting[i]) \/ waiting'[i] = top
      BY <2>2, <3>1, Pushed DEF top
    <3> QED BY <1>1, <3>1, <3>2 DEF Undisturbed, OrderRests, ChoicesStand
  <2> QED BY <2>1, <2>2 DEF Refresh
<1> QED BY <1>1, <1>2 DEF OrderRests, OneReadOut, MenuToCome, ToCome

LEMMA ListsRest ==
  ASSUME OrderIInv, OrderRests, BackendLists
  PROVE  OrderRests'
<1>1. PICK k \in DOMAIN waiting :
        /\ waiting[k].kind = "tokens" /\ waiting' = [waiting EXCEPT ![k].reply = stored]
        /\ UNCHANGED <<stored, tokenSort, choiceGen, balances, again, due, inFlight, events, overtaken, spent>>
  BY DEF BackendLists, reads
<1>2. waiting \in Seq(Handler) /\ waiting[k] \in Handler
  BY DEF OrderIInv, OrderTypeOK
<1>3. /\ DOMAIN waiting' = DOMAIN waiting /\ waiting'[k].kind = waiting[k].kind
      /\ \A i \in DOMAIN waiting : i # k => waiting'[i] = waiting[i]
  BY <1>1, <1>2 DEF Handler
<1>4. Undisturbed' => ChoicesStand'
  BY <1>1, <1>3 DEF Undisturbed, OrderRests, ChoicesStand
<1> QED BY <1>1, <1>4 DEF OrderRests, OneReadOut, Undisturbed, MenuToCome, ToCome, Fresh

(* A refresh that ends has a read of balances follow it, now or after the    *)
(* one that is out.                                                          *)
LEMMA ListReturnRests ==
  ASSUME OrderIInv, OrderRests, ListReturns
  PROVE  OrderRests'
<1>1. /\ waiting # <<>> /\ waiting \in Seq(Handler)
      /\ waiting' = SubSeq(waiting, 1, Len(waiting) - 1)
      /\ UNCHANGED <<stored, choiceGen, events, overtaken>>
  BY DEF ListReturns, Below, OrderIInv, OrderTypeOK
<1>2. \A i \in DOMAIN waiting' : i \in DOMAIN waiting /\ waiting'[i] = waiting[i]
  BY <1>1, Popped
<1>3. Undisturbed' => Undisturbed
  BY RefusalDisturbs DEF ListReturns, Undisturbed
<1>4. Undisturbed' => ChoicesStand'
  BY <1>1, <1>2, <1>3 DEF OrderRests, ChoicesStand
<1>5. CASE balances = {} /\ balances' = {[reply |-> NotSaid, gen |-> choiceGen]} /\ UNCHANGED again
  <2>1. MenuToCome'
    BY <1>1, <1>5 DEF MenuToCome, Fresh
  <2> QED BY <1>4, <1>5, <2>1 DEF OrderRests, OneReadOut
<1>6. CASE balances # {} /\ again' = TRUE /\ UNCHANGED balances
  BY <1>4, <1>6 DEF OrderRests, OneReadOut, MenuToCome, ToCome
<1> QED BY <1>5, <1>6 DEF ListReturns, EndRefresh, LoadBalances

LEMMA BalancesRest ==
  ASSUME OrderIInv, OrderRests,
         BackendReads \/ \E c \in balances, heard \in BOOLEAN : BalancesReply(c, heard)
  PROVE  OrderRests'
<1>1. UNCHANGED <<stored, choiceGen, waiting, due, inFlight, events, overtaken>>
  BY DEF BackendReads, BalancesReply
<1>2. CASE BackendReads
  <2>1. PICK c \in balances :
          /\ c.reply = NotSaid /\ balances' = {[c EXCEPT !.reply = stored]}
          /\ UNCHANGED <<tokenSort, again, spent>>
    BY <1>2 DEF BackendReads
  <2>2. c \in Read /\ balances = {c}
    BY DEF OrderIInv, OrderTypeOK, OrderRests, OneReadOut
  <2>3. [c EXCEPT !.reply = stored].gen = c.gen /\ [c EXCEPT !.reply = stored].reply = stored
    BY <2>2 DEF Read
  <2>4. OneReadOut'
    BY <2>1 DEF OneReadOut
  <2>5. Undisturbed' => ChoicesStand' /\ MenuToCome'
    BY <1>1, <2>1, <2>2, <2>3 DEF OrderRests, Undisturbed, ChoicesStand, MenuToCome, ToCome, Fresh
  <2> QED BY <2>4, <2>5 DEF OrderRests
<1>3. ASSUME NEW c \in balances, NEW heard \in BOOLEAN, BalancesReply(c, heard)
      PROVE  OrderRests'
  <2>1. /\ c.reply # NotSaid /\ again' = FALSE
        /\ balances' = IF again THEN {[reply |-> NotSaid, gen |-> choiceGen]} ELSE {}
    BY <1>3 DEF BalancesReply
  <2>2. Undisturbed' => heard /\ UNCHANGED spent /\ Undisturbed
    BY <1>3, RefusalDisturbs DEF BalancesReply, Undisturbed
  <2>3. balances = {c}
    BY DEF OrderRests, OneReadOut
  <2>4. Undisturbed' => ChoicesStand'
    BY <1>1, <2>2 DEF OrderRests, ChoicesStand
  <2>5. Undisturbed' => MenuToCome'
    <3> SUFFICES ASSUME Undisturbed', ~ToCome' PROVE MenuToCome'
      BY DEF MenuToCome
    <3>1. CASE again
      <4>1. PICK n : n = [reply |-> NotSaid, gen |-> choiceGen]
        OBVIOUS
      <4>2. balances' = {n} /\ n.gen = choiceGen' /\ n.reply = NotSaid
        BY <1>1, <2>1, <3>1, <4>1
      <4> QED BY <4>2 DEF MenuToCome, Fresh
    <3>2. CASE ~again
      <4>1. ~ToCome /\ (tokenSort = stored \/ Fresh(c)) /\ (c.gen = choiceGen => Fresh(c))
        BY <1>1, <2>2, <2>3, <3>2 DEF OrderRests, MenuToCome, ToCome
      <4>2. tokenSort' = IF c.gen = choiceGen THEN c.reply ELSE tokenSort
        BY <1>3, <2>1, <2>2 DEF BalancesReply, Adopt, Publish
      <4>3. tokenSort' = stored
        BY <2>1, <4>1, <4>2 DEF Fresh
      <4> QED BY <1>1, <2>1, <3>2, <4>3 DEF MenuToCome
    <3> QED BY <3>1, <3>2
  <2>6. OneReadOut'
    BY <2>1 DEF OneReadOut
  <2> QED BY <2>4, <2>5, <2>6 DEF OrderRests
<1> QED BY <1>2, <1>3

LEMMA OrderRestStepKeeps == OrderIInv /\ OrderRests /\ [OrderNext]_orderVars => OrderRests'
<1> SUFFICES ASSUME OrderIInv, OrderRests, [OrderNext]_orderVars PROVE OrderRests'
  OBVIOUS
<1>1. CASE \E order \in Orders : ChooseTokenSort(order)
  <2>1. choiceGen' \in Nat
    BY <1>1 DEF ChooseTokenSort, OrderIInv, OrderTypeOK
  <2> QED BY <1>1, <2>1, StoreRests DEF ChooseTokenSort, reads
<1>2. CASE ChoiceRefused
  <2>1. ~Undisturbed'
    BY <1>2, RefusalDisturbs DEF ChoiceRefused
  <2> QED BY <1>2, <2>1 DEF ChoiceRefused, reads, OrderRests, OneReadOut
<1>3. CASE ChoiceReturns
  BY <1>3, ChoiceRests
<1>4. CASE Refresh
  BY <1>4, RefreshRests
<1>5. CASE BackendLists
  BY <1>5, ListsRest
<1>6. CASE ListReturns
  BY <1>6, ListReturnRests
<1>7. CASE BackendReads \/ \E c \in balances, heard \in BOOLEAN : BalancesReply(c, heard)
  BY <1>7, BalancesRest
<1>8. CASE SortChanged \/ Notice
  <2>1. /\ due' > 0
        /\ UNCHANGED <<stored, waiting, balances, again, overtaken>>
    BY <1>8 DEF SortChanged, Notice, reads, OrderIInv, OrderTypeOK
  <2>2. Undisturbed' => Undisturbed
    BY <1>8 DEF SortChanged, Notice, Charge, Undisturbed, OrderIInv, OrderTypeOK
  <2> QED BY <2>1, <2>2 DEF OrderRests, OneReadOut, ChoicesStand, MenuToCome, ToCome
<1>9. CASE \E order \in Orders : OthersChoose(order)
  BY <1>9, StoreRests DEF OthersChoose, reads
<1>10. CASE UNCHANGED orderVars
  BY <1>10 DEF orderVars, reads, OrderRests, OneReadOut, Undisturbed, ChoicesStand, MenuToCome, ToCome,
               Fresh
<1> QED BY <1>1, <1>2, <1>3, <1>4, <1>5, <1>6, <1>7, <1>8, <1>9, <1>10 DEF OrderNext

(* With nothing suspended, out, queued or on its way, the menu shows the     *)
(* order the rows are built in, unless a call was refused or a choice        *)
(* overtaken: every path by which an older order reaches the menu leaves an  *)
(* event, a refresh or a re-read behind it (chooseTokenSort, loadNetwork,    *)
(* loadBalancesAndHistory).                                                  *)
THEOREM RestHasTheOrder == OrderSpec => []RestShowsOrder
<1>1. OrderSpec => [](OrderIInv /\ OrderRests)
  BY OrderInitFits, OrderStepKeeps, OrderRestInitFits, OrderRestStepKeeps, PTL DEF OrderSpec
<1>2. OrderIInv /\ OrderRests => RestShowsOrder
  <2> SUFFICES ASSUME OrderIInv, OrderRests, Undisturbed,
                      waiting = <<>>, balances = {}, events = <<>>, due = 0
               PROVE  tokenSort = stored
    BY DEF RestShowsOrder, Undisturbed, OrderIInv, OrderTypeOK
  <2>1. ~inFlight.running /\ ~again
    BY DEF OrderIInv, OneRefreshOnStack, OrderRests, OneReadOut
  <2> QED BY <2>1 DEF OrderRests, MenuToCome, ToCome
<1> QED BY <1>1, <1>2, PTL

=============================================================================

# Verification of the Ethereum wallet view

TLA+ models of the backend half of `eth_wallet_ui` (`src/src/*.h`, `src/src/*.cpp`) and of the
part of the QML view that keeps state of its own, checked with TLC on small instances and, for
most of it, proved with TLAPS for every instance.

## The program

The view runs on one GUI thread and talks to other processes (the wallet backend, the
transaction sender, the keystore, `eth_rpc`) through a transport. Its calls are of two kinds.

* **Asynchronous** calls return at once and call back later, with an answer, a transport
  timeout, or never. Each is made under a *claim* (`InFlight`): a ticket and a deadline. Some
  claims are *lanes* (`AsyncLane`) that remember one re-run asked for while a call was live.
* **Synchronous** calls block their handler and spin a nested event loop, in which any other
  handler runs to completion or suspends in a call of its own: clicks, change events, timers,
  the same handler again.

There are no threads to race, nothing is persisted and nothing crashes separately; what is hard
is *when* replies arrive and *what ran* between a call and its return.

### Inventory

| component | state | operations | interacts through |
|---|---|---|---|
| claims and lanes (`guard.h`) | held, deadline, ticket; `again`, budget | take, release, busy, isCurrent, takeLane, laneFinish, lapse timer | every asynchronous call |
| scoped state and selection (`scope.h`, `apply.h`) | `ScopedState`, `m_dataGen` | enterScope, the appliers, publishSelection | written by every reply, withdrawn by every move |
| data lane (`loadBalancesAndHistory`) | lane, two spinners, sweep schedule | read, two chained callbacks, hand on | selection, refresh, sweep, receipts |
| refresh, registry, roster (`refresh`, `loadNetwork`, `loadAccounts`, `refreshAccounts`) | `m_inFlight`, `m_refreshAgain`, `m_registryGen`, networks, roster, poll claim | refresh and its calls, two picks, two events, accounts poll | moves the selection; starts every asynchronous read |
| fee tiers (`loadFeeTiers`) | claim, spinner, tiers | read, callback, lapse | chain, generation |
| own send (`submitSend`, `pollSend`, `cancelSend`) | pending id and handle, poll timer, outcome, sendError | submit, poll, cancel | the view's `sendSubmitting`; the quote's errors; another app's sends |
| quote lane (`runQuote`, `setQuoteAutoRefresh`) | lane, `m_quoteGen`, request, interactive flag, poll timer | quote, tick, close, callback | shares sendError with the send |
| another app's sends (`reviewIntentSend`, `acceptIntentSend`, `declineIntentSend`, view's `answerIntent`) | review, two claims, shell's id | review, price, accept, decline, answer | shares the pending id with the send |
| resend of a blocked nonce (`resendBlockedNonce`) | claim, review | three chained legs, dismiss | sends through submitSend |
| blocked nonces, replacement fees (`nonce.h`) | none: pure | blockedNonces, markReplaced, replacementFees | history reply, resend |
| verdict (`pollVerifiedProxy`, `applyVerdict`) | claim, silence count, poll | tick, probe, callback | withdraws quote and route; restarted by refresh |
| token order (`chooseTokenSort`, `adoptTokenSort`) | order, choice generation | choose, adopt | three readers echo the order |
| bare claims (`refreshPending`, `refreshTxStatus`, `fetchTxDetails`) | three claims | call, callback, lapse | start the data lane; details are scoped |
| contacts | book, locked, error | save, forget, load | read inside refresh |
| QML view | latches and ids above, navigation, forms | | |

What makes each correct is, in the same order: one call in force and a lane that always comes
down; no figure under another selection's name; the newest answer wins and something reads every
selection; nothing heard during a refresh is forgotten; tiers are the chain's; a send is never
lost sight of and its outcome is true; a quote prices the form on screen; every request is
answered once; nothing is reviewed for a transaction that mined; fees exceed the old ones;
silence is not "ready"; a choice is not undone by an older reply; a receipt re-read ends; a
locked book is not shown.

## Modules

| module | models |
|---|---|
| `Claim` | the claim, as operators on a record |
| `Scope` | the scoped values, `enterScope` and the appliers, as operators |
| `Screen` | the abstract specification: what the screen promises about balances and history |
| `DataLane` | the data lane under a moving selection; implements `Screen` |
| `LaneTiming` | the same lane against the clock: budgets, timeouts, the lapse timer |
| `Refresh` | `refresh()` with its nested event loops, the registry and the roster |
| `BareReads` | the four reads without a re-run: fee tiers, status, details, receipt sweep |
| `QuoteLane` | the quote of the Send form: edits and timer ticks on the second lane |
| `Verdict` | the verified-proxy probe, its poll and the silence that withdraws a verdict |
| `Nonces` | which nonce is blocked and what replaces it, as operators |
| `Resend` | the resend's three legs and its review, over the sender's ledger and the chain |
| `TokenOrder` | the order of the token rows, chosen here and elsewhere, and the reads that echo it |
| `Send` | submit, poll and cancel with their stack of suspended calls |
| `IntentSend` | another app's request: review, price, accept, decline, answer; the view as a replica |
| `*_proofs` | theorems, of the module the name begins with; `Clock_proofs` of `LaneTiming` and `Verdict`, `Refresh_proofs` of `Refresh` and `TokenOrder` |
| `MCResend` | the fee suggestions TLC gives `Resend`; the other modules are checked as they are |

`Claim` is under every lane and bare read. `Scope` is under `DataLane`, and `Nonces` under
`Resend`. Where one module needs what another checks, it has the promise and not the machinery:
`BareReads` asks the data lane for a history and gets one, `QuoteLane` has a verdict change and a
pending send as events, `Resend` submits in one step. `LaneTiming` and `TokenOrder` prefix the
names that every module has (`LaneSpec`, `OrderTypeOK`), since they are proved beside another.

### How state and steps correspond

A handler without a synchronous call is one action. An asynchronous call is a member of `calls`
from when it goes out until its callback fires; the record holds what the C++ lambda captured
(`who`, `gen`, `slot`). A figure is its provenance: the account and chain it was read for and
the version of the world it was read at, some version between the call and the callback.

*Lapse timers* (`DataLane`, `QuoteLane`, `BareReads`, `Resend`). Armed once with each claim, a
millisecond past its deadline, and coarse by Qt's choice: the action `LapseTimer` may fire at any
moment, and one that finds its claim busy is spent (`"early"`) and does nothing. One value stands for
the timers of all claims: those of earlier ones are due first, Qt's rounding keeps their order, and
what they find at a free lane the latest would find too. How much before its time a timer fires is
not bounded in these modules.

*DataLane.* `screen` is `ScopedState`, `lane` is `m_dataLane` with its lapse timer, `dataGen` is
`m_dataGen`. `due` stands for a refresh running or queued, or an event's own re-read; inside one, the
selection may move (`RefreshMovesSelection`) before `Reread`. `world` and `floor` are history
variables. The deadline may pass at any moment (`LapseAfterLoss`, `LapseBeforeReply`).

*LaneTiming.* Adds the clock and drops what is read. `Tick` is the only passage of time and never
passes a call or timer that is due. `Delay` is how late a callback may be dispatched, `Early` how
early a timer may fire: any number below a claim's own length is what a coarse one may do. The
history variables say which claim last had its own timer spent on it (`missed`) and which last lost
its call in force (`lost`).

*Refresh.* `step` is the synchronous call `refresh()` stands in; `answer` what the module has
answered, which is earlier than the return. `# "idle"` is `m_inFlight`. A nested `refresh()` only
sets `refreshAgain`, so there is never more than one on the stack. A pick of an account takes
whatever address it is given, as the slot does: the row clicked may be of a list the backend has
replaced meanwhile, and `strayed` remembers such a pick until the next roster is read. Registry and
keystore change by themselves; the registry's event comes later (`registryNews`), the keystore's may
never. The reads of token lists, labels, wallets and signers are calls in the same window as the one
they follow and publish nothing the properties speak of.

*BareReads.* One record per kind of read: `claim`, `loading`, `timer`, and `calls` for all four. A
tier set is the chain it names, details the selection their row was opened under, and each account
has one transaction, so a details reply's hash check is its account's. The four callbacks differ
as in the code: the fees' drops a reply for its ticket *or* its generation and then leaves its
spinner up, the status and details ones lower it whatever the generation, the sweep's asks for no
ticket. `known` is the wallet backend's record of receipts; `reread` is the data lane's promise. A
refusal and a failed call are one case (`answered` is false).

*QuoteLane.* A request is a form and the selection the *view* saw (`seen`), which lags the
backend's (`at`) by the property changes in `toView`. `price` holds `quoteJson` with the request it
priced, `quoteStale`, and `sendError` with the request whose refusal it words; the send's own
refusals are in `Send`. `lane.interactive` is `m_quoteAgainInteractive`. `Tick` is the 12 s timer's
body with its two early returns. `edit` is a history variable: whether the last edit has had an
answer of its own. A verdict change withdraws the figures and nothing else, as the code does.

*Verdict.* Mode and state are one word. Time is the poll's own beat of 5 s, so the silence bound is
kept in beats: `Beat` ages the claim and, if the poll runs, is one call of `pollVerifiedProxy`. The
probe is answered (`Answer`) before its reply arrives (`Callback`), which the code applies without
asking for its ticket. `unheard` and `outrun` are history variables: the beats since the verdict on
screen was last reported, and whether eth_rpc had taken it back before it was applied.

*Nonces and Resend.* Rows are a set; `blockedNonces` is for one chain, since the code treats
chains independently. `ledger` is the sender's, `mined` the chain's, and the view knows only what a
history read (`HistoryRead`, at any moment: the data lane's promise) made of the first. The three
legs pass one call record on, which keeps what the lambdas captured: the entry, the generation, the
ticket; `on` records in addition what that history said. Arithmetic is exact, and
`NonceAssumption` states what `kMaxBumpable` has to be for it to stay in a `quint64`.

*TokenOrder.* `waiting` is the stack of handlers suspended in `set_token_sort` or `list_tokens`;
only the top returns. An order carries the version of the setting it is, for the properties alone.
`due` counts queued refreshes; the token list is read once per refresh, standing for the last
chain's reply, which is the one adopted.

*Send.* `stack` holds the handlers suspended in a synchronous call. The concurrent backend may
answer any of them; only the top returns. A frame keeps what its handler holds in locals: the
generation it began at, the request it asked about, the reply. `requests` is the sender's view.
`submitting` is the QML latch: a click and the slot it calls are one step, since slots are
delivered in order. The resend's review is in `Resend`.

*IntentSend.* The view and the backend apart: `shown` is what the backend has published, `seen` the
view's replica of it, `toView` the property updates between them, one by one in the order a handler
set them, and `toBackend` the slots called. A request is named by its app, which makes one; a send
by its place in `sends`; an outcome by its send. Whether the wallet can serve a request is
membership of `fitting`, which may shrink under an open review (`WalletMoves`). A `Late` call's
claim lapses with the call still out, or never to return, and the sender may have taken it in both
cases. The timer that lowers `pricing` is not asked to be fair; no property waits for it. The
wallet's own send is here as what else writes the pending id, one at a time and with status calls
that do not nest: both are in `Send`. Left out are the approval handle and the hand-off to the
signer, the wording of errors, and tabs and forms.

## Runs

| run | asks |
|---|---|
| `data_lane` | do figures, generations, tickets and the sweep agree, whatever the order; does the lane implement `Screen`; do spinner and queued read survive a lost callback, a late one or an early timer; is the selection read for |
| `refresh` | do cursor and account fit the published lists, stale picks of an account apart; is no announcement lost; does everything converge |
| `bare_reads` | are tiers and details the selection's; do the buttons stay shut while a read is out and open after it; is a mined transaction shown |
| `lane_timing` | is the budget long enough; what must go wrong with one claim, under a timer that fires before its deadline, to strand the lane |
| `quote_lane` | do the figures price the form; is an edit answered as an edit; does an open form get a price |
| `verdict` | is an unconfirmed "ready" taken down in time; does the screen come to what eth_rpc says as long as anything asks |
| `resend` | is what is reviewed a replacement nodes take, at a nonce that can still be used, for the selection on screen; does the button come back |
| `token_order` | is one refresh at most on the stack; does a read never undo a choice; does the menu end up on the order of the rows |
| `send` | is a pending send polled and settled, are outcomes true, who may forget one |
| `send_orphan` | (violated) does only the end of a send forget it |
| `intent_send` | is a request sent once, at its own price, and its app answered once and never forgotten |
| `intent_send_crossed` | (violated) is an app answered with its own send |

### Bounds

Every bound is a constant named in its module. In `DataLane` two accounts and two chains are enough
for "another selection" and for leaving and coming back; three moves of the selection allow a return
with one more in between. One lost and one late callback put an orphaned claim and a lapsed reply
beside a live one; two losses lose the re-run as well. One change of the world orders old and new
figures across a re-read. In `Refresh`, one change of each owner, one pick and one failure of any
kind meet each other in every window of a refresh and of the one queued behind it. In `BareReads`
one account and one chain suffice, since having none is another selection: two moves leave it and
come back under a new generation; one click, notice and fault each meet in every order, and the
sweep, whose ticks cost nothing, runs on. One click each does not put two details or status reads
out at once; that a late reply of one leaves the other's spinner up rests on the theorem
`LiveAlwaysSpins`, and the run reaches it for fees. In `QuoteLane`, two selections and two moves,
three forms of which one describes no send, and three edits: a form changed, changed back, and the
page closed and opened in between; ticks are not bounded. In `Verdict`, `MaxSilent` is 2 and a claim
spans 3 beats, the smallest numbers with a beat that asks, one that cannot and a claim that outlasts
both (3 and 5 in the code); two faults lose the probe and the one after. In `Resend`, a wallet of
two numbers or two attempts at one, a moment of waiting, two clicks, and one turn: a move, a lost or
a late call. Suggested fees are 11, whose tenth is one, and 14, which is past a `kMaxBumpable` of 13
and is not bumped; tips are 1, whose tenth is none. With 13 the largest bump fits the word (`MaxWei`
is 15). The arithmetic over all fees is the theorem `ReplacementOutbids`. In `TokenOrder`, two
choices here, one other and one refusal nest two choices in a refresh and a refresh in each. In
`Send`, two requests and three suspended handlers put a poll beneath a cancel beneath a submit;
further polls only repeat what the second does. In `LaneTiming`, a call of two units, a dispatch
delay of one and a slack of three are the smallest numbers that satisfy `2 * Delay < Slack`, and an
`Early` of two is the least with which a timer finds its own claim live. In `IntentSend`, two apps
let a request replace another; two clicks are a Confirm beside an own send, a second Confirm, or a
Decline after one; one fault is a late, lost or refused call or a move of the wallet under the
review. The queues of `IntentSend`, `QuoteLane` and `TokenOrder` need no bound of their own: every
message is somebody's click, request or reply.

Where a timer may take claims without end (`BareReads`, `QuoteLane`, `Verdict`), tickets are not
counted up for ever: `TakenAgain` takes one that no call holds, since the code only compares them.

`CHECK_DEADLOCK FALSE` is set where a system left alone with its bounds spent really is at rest:
no read out, no refresh owed, no send pending. `Refresh` and `Verdict` never stop (a poll ticks, a
clock beats), and their runs check deadlock. No run uses symmetry, since most check liveness.

### Fairness

Weak fairness is asked only of the event loop, the transport and the clock: a call that is not lost
is answered or timed out by the transport (every one carries a `Timeout`), a deadline passes, timers
fire once, at their time or before it, queued refreshes run, events sent are delivered, the sender
settles or expires a request. The person, the chains and the owners of registry and keystore owe
nothing. In `Send` the top of the stack returns once answered, and a pending send's timer keeps
ticking. In `IntentSend` slots and property updates are delivered; nobody has to click, so an app
may wait as long as its own review is on screen (`NeverStranded`). `QuoteLane` has the one strong
fairness: of the replies to a form that is asked for again and again, not every one is a refusal;
without it a form nobody can pay for is rightly never priced. In `BareReads` fairness of replies
asks for answers of the sweep and of the other reads separately, so that a sweep is not kept out by
clicks.

## Theorems

All for every value of the constants, with the assumptions named in the modules (`ScopeAssumption`:
model values are distinct from real ones; `TimingAssumption`, `SendAssumption` and the like: numbers
are natural and the call time positive; `VerdictAssumption`: the threshold is shorter than a claim;
`NonceAssumption`: a bump of `kMaxBumpable` fits the word).

*`DataLane_proofs`.* The inductive invariant is `IInv`, the conjunction of: `Typed`; `CallsKnown` (a
call's ticket and generation have been given out, and one of the current generation names the
account on screen); `SingleFlight` (at most one call per ticket, so a callback under the ticket in
force is the only one); `AskedSince` (a call of the current ticket and generation was asked no
earlier than the floor); `FloorSeen` (the floor is not ahead of the world) and `ShowsSelection`.
`ScreenIsSelections` is not inductive by itself: what a callback publishes is right because of what
its call captured, so the captured values are in the invariant. `RowsNeverGoBack` needs
`AskedSince`, and that needs `SingleFlight`, or an older call of the same claim could still publish.
From the same invariant follow the refinement `KeepsThePromise` (each step of the lane is a step of
`Screen` or a stutter), and `SweepNeedsAnAnswer`, which needs the types alone: a reply that changes
the sweep puts the rows it was read from on screen, and the re-run handed on to afterwards leaves
both.

`LapseStaysArmed` has two parts. `LapseIsArmed`: who waits for the lane has its timer to come, or
the timer was spent early on a claim that is still held. `LossAloneNeglects`: a claim that is held
has its call out, and no step but the loss of that call ends this. Together they say that an early
timer alone strands nothing, nor does a lost call: it takes both, on one claim. The theorems of that
name in `BareReads_proofs`, `QuoteLane_proofs` and `Resend_proofs` say the same of theirs; of the
bare reads, whose spinners outlive a claim given back, the second part is about spinners, and names
the one other step that leaves one without a call: fees dropped for their generation
(`OnlyTheseNeglect`).

`StaleIsAlwaysReread` is what a lost read would break: a selection without fresh figures has its
read due, queued or out under this very claim and generation. It is carried as `Coming` through the
three places a lane is taken, handed on and given up.

*`Clock_proofs`* is about what time decides. Of `LaneTiming`, under `PromptDispatch`
(`2 * Delay < Slack`): each call under the claim in force has less time left than the claim
(`ClaimOutlasts`), which with `OneCallLive` gives `LapseIsEvidence` and `NeverTwoCalls`. Without any
condition on `Early` or `Delay`, `SpinnerStaysTimed`: whatever a spinner waits for, its own claim's
timer is armed and due a unit after the lapse, or it was spent on that claim while it was live, and
the claim's call is out or lost. Its invariant says that timers and claim count down together, so the
timer of the claim in force, which no other claim's uses up, has a unit more left than the claim has.

Of `Verdict`: `ReadyIsConfirmed` bounds a history variable by a counter of the code, and the two
differ by the beats that asked instead of counting. `Counted` is the strengthening: while "ready" is
up the poll runs, and the beats since the last report are those counted as silence, or one more, and
then its probe's claim is still held and every beat since it was taken was counted. Since a claim
outlasts the threshold (`MaxSilent < Beats`), the second beat that asks comes too late to matter.
`WatchAlwaysGoesOn` names the only two ways a screen without what eth_rpc says is left to itself:
the probe of the claim in force is lost (`ProbeLost`), on whose strength a refresh asked nothing, or
the report on screen was out of date as it was applied (`outrun`).

*`Refresh_proofs`.* `CursorInScope` is about the moment between refreshes, and what happens inside
one decides it. `ScopeOrOwed`: once the registry's answer is published, a cursor outside it has a
refresh owed or queued. `AnswerFits`: what `refresh()` holds answers the call it stands in.
`SnapshotIsHeard`: while the generation stands where the refresh took it, the snapshot is no older
than the last change heard of, from which `RegistryNeverGoesBack`. `OwedIsRunning`: only a running
refresh owes another. `AccountStaysOnRoster` has no assumption on what is picked: an account is off
the roster only while the address book is read, or as it was picked. `RestIsConverged` adds that an
answer taken under the current generation is the registry as it stands, or its event is still to
come, and that so is what is on screen.

Of `TokenOrder`: `RefreshNeverNests` counts the refreshes on the stack, which choices interleave
freely. `ReadsNeverUndoAChoice` rests on `ReadsSeeChoice`: an order read under the current count of
choices is no older than the choice that set it, be it in a suspended handler's reply or in a
balances call still out. `RestHasTheOrder` rests on `OrderRests`: until another handler's choice
overtakes one, or a call is refused, the menu has the stored order, or an event, a refresh or a read
that sees it is to come.

*`Send_proofs`.* The invariant adds to the type that a settled reply held on the stack stays true
(`RepliesTrue`): final statuses do not change, so an outcome published long after it was read is
still the sender's (`OutcomeStaysTrue`). `AlwaysPolled` and `ReceiptComesAlone` hold for every
depth of nesting. `OnlyReentryForgets` bounds the flaw `send_orphan` shows: a pending request is
forgotten only when it is over, or by a handler suspended before it was taken.

*`IntentSend_proofs`.* That a request is sent once rests on `SentInv`. `AskedForOnce`: a request's
slot is queued once, and only after it was made. `OneCallInForce`: at most one acceptance is out
under the claim in force. `HandedIsGone`: a request the sender has taken is neither on the review
nor in that acceptance, and one not yet reviewed is nowhere at all. `SentOnce` is not inductive
without them: a second send of a request would need its review up, or its acceptance out, after
the first. Sends the wallet heard no answer to are excepted, and must be: after a call given up by
the transport the review stays up, and a second Confirm sends again. `PriceAlwaysOwn` needs only
the types. `AnsweredOnceAlways` needs that whoever is being served is still waiting (`ServedInv`).

`WaiterIsAlwaysAttended` is what remains of `NeverStranded` without fairness: an app that waits
unseen has something on its way. Its invariant (`AttendInv`) says what. `Attended`: the request of
the app being served is queued, on the review, being refused, being sent, or has a settlement on
its way. `LastWord`: no request or decline in `toBackend` is behind the one of the app being served,
so an old one cannot close its review unheard. `UpToDate`: after the updates on their way, every
property the view has is the backend's. The order of `Pend` and `pollSend` matters here: `Settling`
asks that as the cleared id arrives the outcome is already there and no review is open, and none
is, because only the acceptance in force could put the review up again and its send has spent it
(`OneCallInForce`). `ReplicaAlwaysCatchesUp` and `WaiterIsAlwaysServed` are parts of it.

*`BareReads_proofs`.* `CallsFit`: a call of the current generation was made under the current
selection, and a fee call names a chain. From it each published value is the selection's
(`ReadsAlwaysFit`), whatever order the checks of the four callbacks come in. `LiveAlwaysSpins` is
inductive with the types: what lowers a spinner is a callback of the ticket in force, which frees
the claim first, or a timer that found it not busy. It holds for any number of reads of a kind.
`LapseStaysArmed` is as above, and has a row that is pending attended by the sweep.

*`QuoteLane_proofs`.* `CallsFit`: no call is of a later generation than the current one, and one of
the current generation asked the current request. It is what makes the comparison of `quoteGen` at
the callback enough, and it needs the generation to move with every change of the request, a return
to an earlier one included. `PriceFits` carries the invariant through the hand-on, which publishes
a reply and runs the queued request in one handler. `EditIsAlwaysHeard` is inductive with `Calm`:
at most one call owns the lane, and while it is out the claim is in force, so no tick takes the lane
from under it. That holds only while no callback is lost or late, which is the property's own
condition: a lapse frees the lane with the edit's call out. `QuoteIsAlwaysOnTheForm` says what
`QuoteIsForms` means on the screen: figures are up on an open page only, and price the form and the
selection that page shows. Beside `FormIsAsked` (the request is the open form, as the view sees the
selection) it takes that a move of the selection withdraws the figures before the view hears of it.

*`Resend_proofs`.* `ReplacementOutbids` is arithmetic alone, about every tier and every floor in
range. The rest is the invariant that hands what a history said down three calls: `Sound` (the
entry's nonce is above every mined one and its floor above every attempt, field by field), which
`BlockedNonces` establishes (`BlockedFits`; it rests on `LedgerFits`: the ledger is finite and no
row is from the future, so a least nonce and a newest attempt exist) and every leg preserves
(`CallsFit`), and `Acceptable`, which `FeesReply` adds for the call that quotes. The least and
greatest of a set of numbers come from the well-foundedness of `<` on the naturals.

What is proved in place of liveness is its safety half: whoever waits has what ends the wait ahead
of him, or the theorem names what took it away, and a system at rest shows what it should. These are
the `LapseStaysArmed` theorems, `SpinnerStaysTimed`, `StaleIsAlwaysReread`, `WatchAlwaysGoesOn`,
`AlwaysPolled`, `WaiterIsAlwaysAttended`, `NothingOwedWhenIdle`, `RestIsConverged` and
`RestHasTheOrder`. That what is ahead does come is fairness, and TLC's.

Only model-checked: every liveness property, since liveness under fairness is beyond TLAPS, and what
the two violated runs show. Every safety invariant and action property of a passing run is a
theorem. Only proved, and in no run: type correctness, the safety halves of liveness but
`AlwaysPolled` and `SpinnerStaysTimed`, and `OneCallLive`, `NoReceiptBesidePending`,
`ResendShowsSpinner`, `QuoteIsOnTheForm`, `WaiterIsServed` and `ReplicaCatchesUp`; TLC was asked
about each of them on the bounds of its module's run before it was proved.

## Where code and comments disagree

Two have a run that shows them.

1. `eth_wallet_ui.rep:146` wants no pending request forgotten; `pollSend()` clears whichever is
   pending when its call returns (`send_orphan`).
2. `EthWalletView.qml:233` answers an app with the send it asked for; an own send settling while a
   request is on its way to the backend answers that app instead (`intent_send_crossed`).

Others were met while modelling and have no run of their own; where a property is affected, it
states the exception.

*Lapse timers.* `backend.cpp:156` and `:180` rely on the lapse timer to bring the spinner down and
the queued read out when a callback never fires. `QTimer::singleShot` is coarse at these intervals:
it may fire before the deadline, and then finds the claim busy, does nothing and is not armed again.
If the same claim's callback is lost, the spinner stays up and the re-run queued until something
asks for a read. The runs have the branch, and `lane_timing` reaches the stranded state;
`SpinnerComesDown`, `QueuedReadGoesOut`, `LaneComesDown`, `SpinnersComeDown` and `ResendEnds` except
it and nothing more (for fees, a reply dropped for its generation counts as lost, since it leaves
the spinner to the timer: `backend.cpp:499`), and `StrandedTakesBoth` says that it takes both. The
quote lane recovers by its own ticks (`FormIsPriced`).

*Account picks.* `selectAccount()` takes any address (`backend.cpp:533`), and the row clicked is of
the view's copy of the roster: a pick that arrives after a refresh has published a roster without it
puts an account on screen that the wallet does not hold, until the next refresh. `AccountOnRoster`
excepts it. `backend.cpp:337` has roster and selection agree.

*Reads.* `scope.h:169` has the fee tiers re-read by every chain change; a chain change during a live
fee read finds the claim taken, and the live reply is dropped (`backend.cpp:487`). `backend.h:137`
wants a network read that failed to be asked again, and `m_networkRetry` is not used by anything.
`backend.cpp:337` wants roster and selection written without a spinning call between them, and
`loadContacts()` is one. `guard.h:80` says a lapsed reply applies nothing, while `owns()` compares
the ticket only, so one whose lane was not taken since does apply. `loadBalancesAndHistory()` with
no account lowers the spinner of a claim that is still live, and an account coming back meanwhile
reads without one.

*Verdict.* `backend.cpp:272` says of an event that switches verification on that the refresh it
causes carries the verdict and "nothing else is needed"; if the probe of an earlier read is still
out, that refresh asks nothing, and the earlier probe's "off" stops the poll. A first probe that is
lost leaves a poll that was never started. `guard.h:53` has no completion of a claim that was
re-issued apply anything, and the verdict's callback asks for no ticket. So may a late "off"
of eth_rpc's past stop the poll. `WatchedConverges` excepts the screens these leave with no poll,
probe or refresh to come (`Forsaken`), and no others; `ReadyIsConfirmed` holds in spite of them.

*Quote.* A verdict change withdraws the figures (`apply.h:312`: "not the one the user would be
signing") without moving the generation, so a quote already in flight is published after it.
`backend.cpp:231` keeps a tick from moving the figures of a send that awaits a human; one queued or
in flight as the send becomes pending still does. An edit whose reply outlived its claim, followed
by refused ticks only, leaves the form with neither figures nor wording. The refusal of an edit's
quote lowers `sendSubmitting` while the send is still out.

*Sends.* `EthWalletView.qml:196` wants either outcome of a submit to end the wait; a refusal that
comes back after the selection moved is neither (`apply.h:348`). `backend.cpp:971` prices a request
before the human decides; one that replaces a request still being priced never is
(`backend.cpp:974`). `README.md:92` has an app answered when its send is final; one whose accepted
send is pending when another app asks is told it was cancelled.

*Resend.* After a resend settles, the entry it came from stays on screen until the history is
reread, and can be resent at its old floor. The first leg asks about the newest attempt only, and a
history read between the legs withdraws nothing: `NothingPastIsReviewed` is about what the click
and its legs were told.

*Token order.* `chooseTokenSort()` publishes what it chose when its call returns, over an order
that replaced it inside that call; `OrderConverges` excepts it. A choice that is refused has
counted all the same, so reads that were out when it was made are not adopted.

## Not modelled

* Contacts: three handlers over one value, with no claim, generation or timer. `list_contacts` is a
  synchronous call like those of `TokenOrder`, and its hazard is the same: calls nest, and the
  outer one, answered before the key was locked, returns last and puts the book back up that the
  inner one had withdrawn. `backend.cpp:936` has what was read under the key go with it.
* Wording, formatting, layout, navigation, icons: no property is about them. `lastError` is among
  them: any handler may replace it, and nothing reads it back.
* `qrcodegen.js` is vendored; `kit/` and `accountkit/` render values modelled elsewhere.
* The other processes are the environment of each module: they answer in any way the view has to
  handle, in any order.
* The generated QtRO source, except in `IntentSend` and the selection of `QuoteLane`: setters
  publish only what changed, and the view gets properties one by one. In the other modules a
  handler's writes are one step.
* The rest of the view: forms, tabs and pickers, whose state is the person's to change at will.

## How the parts were ordered

The reads of the selection and the sends came first, since they carry the figures a person acts
on; the modules that share their claims (`BareReads`, `QuoteLane`, `Verdict`, `Resend`) after them,
then the token order. Left to do: a composition of `QuoteLane` with the latch of `Send`, and what
its shared error property comes to.

------------------------------ MODULE BareReads ------------------------------
(***************************************************************************)
(* The four reads that have a claim of their own and no re-run behind it:  *)
(* the fee tiers of a refresh, the status and the details of a row that is *)
(* clicked, and the receipt sweep.  They share the selection and its       *)
(* generation, and differ in what their callbacks check before they act.   *)
(*                                                                         *)
(* Each account has one transaction.  The data lane is the promise its own *)
(* module checks: asked to read the history again, it does.                *)
(***************************************************************************)
EXTENDS Claim

CONSTANTS Accounts, NoAccount, Chains, NoChain, Unknown,
          MaxMoves,   \* bound on moves of the selection
          MaxAsks,    \* bound on notices and clicks
          MaxFaults   \* bound on callbacks that never fire, outlive their claim or bring a failure, and on refused histories

ASSUME BareAssumption ==
  /\ NoAccount \notin Accounts /\ NoChain \notin Chains
  /\ {MaxMoves, MaxAsks, MaxFaults} \subseteq Nat
  /\ Unknown \notin Chains

Kinds == {"fees", "status", "details", "sweep"}

Selections == [account : Accounts \cup {NoAccount}, chain : Chains \cup {NoChain}]

ASSUME UnknownAssumption == Unknown \notin Selections /\ Unknown \notin {"pending", "mined"}

VARIABLES
  at,         \* the selection
  dataGen,    \* m_dataGen
  fees,       \* feeTiersJson: the chain it names, or Unknown for "{}"
  details,    \* txDetailsJson: the selection its row was opened under
  claim,      \* the four claims
  loading,    \* their spinners; the sweep has none
  timer,      \* their lapse timers; the sweep has none
  calls,      \* calls whose callback has not fired
  due,        \* a refresh is running or queued
  reread,     \* the data lane has been asked for the history
  row,        \* the status historyJson gives the account's transaction
  sweeping,   \* m_pendingPoll runs
  mined,      \* accounts whose transaction is mined
  known,      \* those of them whose receipt the wallet backend has asked for
  used

reads == <<claim, loading, timer, calls>>
screen == <<fees, details, row>>
vars == <<at, dataGen, screen, reads, due, reread, sweeping, mined, known, used>>

Call == [kind : Kinds, at : Selections, gen : Nat, slot : Nat]

Spend(what, max) == used[what] < max /\ used' = [used EXCEPT ![what] = @ + 1]

Owns(c) == IsCurrent(claim[c.kind], c.slot)

SlotsOf(kind) == {c.slot : c \in {d \in calls : d.kind = kind}}

(***************************************************************************)
(* beginClaim, and the take of the sweep, which arms nothing.              *)
(***************************************************************************)
Ask(kind) ==
  LET taken == TakenAgain(1, SlotsOf(kind))
  IN  /\ ~Busy(claim[kind])
      /\ claim' = [claim EXCEPT ![kind] = taken]
      /\ loading' = [loading EXCEPT ![kind] = kind # "sweep"]
      /\ timer' = [timer EXCEPT ![kind] = IF kind = "sweep" THEN "none" ELSE "armed"]
      /\ calls' = calls \cup {[kind |-> kind, at |-> at, gen |-> dataGen, slot |-> taken.ticket]}

(* No chain: the claim is taken and given back, its timer left to fire. *)
AskNothing(kind) ==
  LET taken == TakenAgain(1, SlotsOf(kind))
  IN  /\ ~Busy(claim[kind])
      /\ claim' = [claim EXCEPT ![kind] = Released(taken, taken.ticket)]
      /\ loading' = [loading EXCEPT ![kind] = FALSE]
      /\ timer' = [timer EXCEPT ![kind] = "armed"]
      /\ UNCHANGED calls

LoadFeeTiers ==
  \/ Busy(claim["fees"]) /\ UNCHANGED reads
  \/ at.chain = NoChain /\ AskNothing("fees")
  \/ at.chain # NoChain /\ Ask("fees")

(* The parts of refresh that are read here: the history, then the tiers. *)
Refresh ==
  /\ due
  /\ due' = FALSE
  /\ reread' = (at.account # NoAccount)
  /\ LoadFeeTiers
  /\ UNCHANGED <<at, dataGen, screen, sweeping, mined, known, used>>

(* refreshTxStatus and fetchTxDetails, from the page of a row. *)
ClickRow(kind) ==
  /\ at.account # NoAccount /\ row # Unknown
  /\ Spend("asks", MaxAsks)
  /\ Ask(kind)
  /\ UNCHANGED <<at, dataGen, screen, due, reread, sweeping, mined, known>>

RefreshPending ==
  /\ sweeping /\ at.account # NoAccount
  /\ Ask("sweep")
  /\ UNCHANGED <<at, dataGen, screen, due, reread, sweeping, mined, known, used>>

(***************************************************************************)
(* The four callbacks, each with its own order of checks.  A status or a   *)
(* sweep that was answered has had the wallet backend ask for the receipt. *)
(***************************************************************************)
Release(c) ==
  /\ claim' = [claim EXCEPT ![c.kind] = Released(@, c.slot)]
  /\ calls' = calls \ {c}

LowerSpinner(kind) == loading' = [loading EXCEPT ![kind] = FALSE]

Learn(c, answered) == known' = IF answered THEN known \cup (mined \cap {c.at.account}) ELSE known

(* Mutated form of FeesCallback: neither the ticket nor the generation is asked for. *)
BrokenFeesCallback(c, answered) ==
  /\ fees' = IF answered THEN c.at.chain ELSE Unknown
  /\ LowerSpinner("fees")
  /\ UNCHANGED <<details, reread, known>>

(* A reply dropped for its generation leaves the spinner to the timer. *)
FeesCallback(c, answered) ==
  /\ \/ /\ Owns(c) /\ c.gen = dataGen
        /\ fees' = IF answered THEN c.at.chain ELSE Unknown
        /\ LowerSpinner("fees")
     \/ /\ ~(Owns(c) /\ c.gen = dataGen)
        /\ UNCHANGED <<fees, loading>>
  /\ UNCHANGED <<details, reread, known>>

StatusCallback(c, answered) ==
  /\ \/ /\ Owns(c)
        /\ reread' = (reread \/ (answered /\ c.gen = dataGen))
        /\ LowerSpinner("status")
     \/ ~Owns(c) /\ UNCHANGED <<reread, loading>>
  /\ Learn(c, answered)
  /\ UNCHANGED <<fees, details>>

(* What is not answered is published as unavailable, under the same hash. *)
DetailsCallback(c) ==
  /\ \/ /\ Owns(c)
        /\ details' = IF c.gen = dataGen THEN c.at ELSE details
        /\ LowerSpinner("details")
     \/ ~Owns(c) /\ UNCHANGED <<details, loading>>
  /\ UNCHANGED <<fees, reread, known>>

(* No ticket is asked for, and a failed sweep reads the history like any. *)
SweepCallback(c, answered) ==
  /\ reread' = (reread \/ c.gen = dataGen)
  /\ Learn(c, answered)
  /\ UNCHANGED <<fees, details, loading>>

Callback(c, answered) ==
  /\ Release(c)
  /\ \/ c.kind = "fees" /\ FeesCallback(c, answered)
     \/ c.kind = "status" /\ StatusCallback(c, answered)
     \/ c.kind = "details" /\ DetailsCallback(c)
     \/ c.kind = "sweep" /\ SweepCallback(c, answered)
  /\ \/ answered /\ UNCHANGED used
     \/ ~answered /\ Spend("faults", MaxFaults)
  /\ UNCHANGED <<at, dataGen, row, timer, due, sweeping, mined>>

Lapse(kind) ==
  /\ Busy(claim[kind])
  /\ claim' = [claim EXCEPT ![kind] = Lapsed(@)]
  /\ UNCHANGED <<at, dataGen, screen, loading, timer, calls, due, reread, sweeping, mined, known>>

LapseAfterLoss(kind) ==
  Lapse(kind) /\ (\A c \in calls : c.kind = kind => ~Owns(c)) /\ UNCHANGED used

LapseBeforeReply(kind) ==
  Lapse(kind) /\ (\E c \in calls : c.kind = kind /\ Owns(c)) /\ Spend("faults", MaxFaults)

(* Mutated form of LapseTimer: it asks whether the call has answered. *)
BrokenLapseTimer(kind) ==
  /\ timer[kind] = "armed" /\ ~claim[kind].held
  /\ timer' = [timer EXCEPT ![kind] = "none"]
  /\ LowerSpinner(kind)
  /\ UNCHANGED <<at, dataGen, screen, claim, calls, due, reread, sweeping, mined, known, used>>

LapseTimer(kind) ==
  /\ timer[kind] = "armed"
  /\ \/ /\ Busy(claim[kind])
        /\ timer' = [timer EXCEPT ![kind] = "early"]
        /\ UNCHANGED loading
     \/ /\ ~Busy(claim[kind])
        /\ timer' = [timer EXCEPT ![kind] = "none"]
        /\ LowerSpinner(kind)
  /\ UNCHANGED <<at, dataGen, screen, claim, calls, due, reread, sweeping, mined, known, used>>

LoseCallback(c) ==
  /\ Spend("faults", MaxFaults)
  /\ calls' = calls \ {c}
  /\ UNCHANGED <<at, dataGen, screen, claim, loading, timer, due, reread, sweeping, mined, known>>

(***************************************************************************)
(* The selection, the data lane and the chain.                             *)
(***************************************************************************)
(* selectAccount reads the history, selectChain refreshes; a refresh that    *)
(* moves the selection itself has both still to do.                          *)
MoveSelection(to) ==
  /\ to # at
  /\ Spend("moves", MaxMoves)
  /\ at' = to
  /\ dataGen' = dataGen + 1
  /\ fees' = IF to.chain # at.chain THEN Unknown ELSE fees
  /\ details' = Unknown /\ row' = Unknown
  /\ due' = (due \/ to.chain # at.chain)
  /\ reread' = (to.account # NoAccount)
  /\ sweeping' = (sweeping /\ to.account # NoAccount)
  /\ UNCHANGED <<reads, mined, known>>

Notice ==
  /\ ~due
  /\ Spend("asks", MaxAsks)
  /\ due' = TRUE
  /\ UNCHANGED <<at, dataGen, screen, reads, reread, sweeping, mined, known>>

HistoryAnswers ==
  /\ reread
  /\ reread' = FALSE
  /\ row' = IF at.account \in known THEN "mined" ELSE "pending"
  /\ sweeping' = (at.account \notin known)
  /\ UNCHANGED <<at, dataGen, fees, details, reads, due, mined, known, used>>

(* Mutated form of HistoryRefused: a refused read ends the sweep. *)
BrokenHistoryRefused ==
  /\ reread
  /\ Spend("faults", MaxFaults)
  /\ reread' = FALSE
  /\ row' = Unknown
  /\ sweeping' = FALSE
  /\ UNCHANGED <<at, dataGen, fees, details, reads, due, mined, known>>

HistoryRefused ==
  /\ reread
  /\ Spend("faults", MaxFaults)
  /\ reread' = FALSE
  /\ row' = Unknown
  /\ UNCHANGED <<at, dataGen, fees, details, reads, due, sweeping, mined, known>>

Mines(who) ==
  /\ who \notin mined
  /\ mined' = mined \cup {who}
  /\ UNCHANGED <<at, dataGen, screen, reads, due, reread, sweeping, known, used>>

-----------------------------------------------------------------------------
Init ==
  /\ at = [account |-> NoAccount, chain |-> NoChain]
  /\ dataGen = 0
  /\ fees = Unknown /\ details = Unknown /\ row = Unknown
  /\ claim = [k \in Kinds |-> FreeClaim]
  /\ loading = [k \in Kinds |-> FALSE]
  /\ timer = [k \in Kinds |-> "none"]
  /\ calls = {}
  /\ due = TRUE /\ reread = FALSE /\ sweeping = FALSE
  /\ mined = {} /\ known = {}
  /\ used = [moves |-> 0, asks |-> 0, faults |-> 0]

Next ==
  \/ Refresh
  \/ \E kind \in {"status", "details"} : ClickRow(kind)
  \/ RefreshPending
  \/ \E c \in calls, answered \in BOOLEAN : Callback(c, answered)
  \/ \E kind \in Kinds : LapseAfterLoss(kind)
  \/ \E kind \in Kinds : LapseBeforeReply(kind)
  \/ \E kind \in Kinds : LapseTimer(kind)
  \/ \E c \in calls : LoseCallback(c)
  \/ \E to \in Selections : MoveSelection(to)
  \/ Notice
  \/ HistoryAnswers
  \/ HistoryRefused
  \/ \E who \in Accounts : Mines(who)

Spec == Init /\ [][Next]_vars

(* A queued refresh runs and timers fire; every call is answered, times out  *)
(* or is lost; the data lane answers.                                        *)
Fairness ==
  /\ WF_vars(Refresh)
  /\ WF_vars(RefreshPending)
  /\ WF_vars(HistoryAnswers)
  /\ WF_vars(\E c \in calls : c.kind # "sweep" /\ Callback(c, TRUE))
  /\ WF_vars(\E c \in calls : c.kind = "sweep" /\ Callback(c, TRUE))
  /\ WF_vars(\E kind \in Kinds : LapseAfterLoss(kind))
  /\ WF_vars(\E kind \in Kinds : LapseTimer(kind))

FairSpec == Spec /\ Fairness

-----------------------------------------------------------------------------
TypeOK ==
  /\ at \in Selections
  /\ dataGen \in Nat
  /\ fees \in Chains \cup {Unknown}
  /\ details \in Selections \cup {Unknown}
  /\ row \in {Unknown, "pending", "mined"}
  /\ claim \in [Kinds -> Claims(Nat, 1)]
  /\ loading \in [Kinds -> BOOLEAN] /\ timer \in [Kinds -> LapseTimers]
  /\ calls \subseteq Call
  /\ {due, reread, sweeping} \subseteq BOOLEAN
  /\ {mined, known} \subseteq SUBSET Accounts
  /\ used \in [moves : Nat, asks : Nat, faults : Nat]

(* The tiers on screen are those of the chain on screen, and the details are *)
(* of a row of the account and chain on screen, in whatever order the two    *)
(* reads, the moves and the replies of earlier claims come.                  *)
ReadsFitSelection ==
  /\ fees # Unknown => fees = at.chain
  /\ details # Unknown => details = at

(* A read that is out shows its spinner: the button it came from stays shut, *)
(* and no late reply of an earlier claim opens it (isCurrent before every    *)
(* setLoading, busy() in the timer).                                         *)
LiveShowsSpinner ==
  \A kind \in Kinds \ {"sweep"} : Busy(claim[kind]) => loading[kind]

OwnCallOut(kind) == \E c \in calls : c.kind = kind /\ Owns(c)

(* The timer fired early, and no callback of the claim is left to make up    *)
(* for it: it is lost, or was one of fees and dropped for its generation.    *)
Stranded(kind) ==
  timer[kind] = "early" /\ (claim[kind].held \/ kind = "fees") /\ ~OwnCallOut(kind)

(* A spinner that shows has had its timer armed for it, to come yet or spent *)
(* early (beginClaim).  And a row is shown pending only while the sweep runs.*)
LapseIsArmed ==
  /\ \A kind \in Kinds \ {"sweep"} : loading[kind] => timer[kind] # "none"
  /\ row = "pending" => sweeping

(* A spinner that shows has its own call out, and only two steps end that:   *)
(* the loss of the call, and fees dropped for their generation, which give   *)
(* the claim back and leave the spinner to the timer (loadFeeTiers).         *)
Attended(kind) == loading[kind] => OwnCallOut(kind)

Neglects(kind, c) ==
  /\ c.kind = kind /\ Owns(c)
  /\ \/ LoseCallback(c)
     \/ kind = "fees" /\ c.gen # dataGen /\ \E answered \in BOOLEAN : Callback(c, answered)

OnlyTheseNeglect ==
  [][\A kind \in Kinds \ {"sweep"} :
       Attended(kind) => Attended(kind)' \/ \E c \in calls : Neglects(kind, c)]_vars

(* A spinner comes down whatever becomes of the call it stands for, lost,    *)
(* late, refused, or dropped for its generation, and however early its timer *)
(* fires; it stays up only where both go wrong for one claim and no refresh  *)
(* is to come (beginClaim's timer).                                          *)
SpinnersComeDown ==
  \A kind \in Kinds \ {"sweep"} : loading[kind] ~> ~loading[kind] \/ (Stranded(kind) /\ ~due)

(* While the sweep runs, a transaction that is mined is shown so to the      *)
(* account it belongs to, through sweeps lost, late or failed and a history  *)
(* refused on the way.                                                       *)
MinedIsShown ==
  \A who \in Accounts :
    sweeping /\ at.account = who /\ who \in mined ~> row = "mined" \/ at.account # who
=============================================================================

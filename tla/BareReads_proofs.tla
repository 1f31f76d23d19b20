-------------------------- MODULE BareReads_proofs --------------------------
(***************************************************************************)
(* Why the bare reads fit the selection on screen and keep their spinners  *)
(* up, for any accounts and chains and any number of moves, clicks and     *)
(* faults: a call of the current generation was made under the current     *)
(* selection, and only the call of the claim in force lowers its spinner.  *)
(***************************************************************************)
EXTENDS BareReads, FiniteSetTheorems, TLAPS

CallsFit ==
  \A c \in calls :
    /\ c.gen <= dataGen
    /\ c.gen = dataGen => c.at = at
    /\ c.kind = "fees" => c.at.chain \in Chains

IInv ==
  /\ TypeOK
  /\ IsFiniteSet(calls)
  /\ CallsFit
  /\ ReadsFitSelection
  /\ LiveShowsSpinner

USE BareAssumption, UnknownAssumption

(* Among more tickets than are held there is one that is not. *)
LEMMA TicketIsUnheld ==
  ASSUME NEW slots, IsFiniteSet(slots)
  PROVE  UnheldTicket(slots) \in Nat
<1> DEFINE n == Cardinality(slots)
<1>1. n \in Nat
  BY FS_CardinalityType
<1>2. IsFiniteSet(0 .. n) /\ Cardinality(0 .. n) = n + 1
  <2> HIDE DEF n
  <2>1. 0 \in Int /\ n \in Int /\ ~(0 > n) /\ n - 0 + 1 = n + 1
    BY <1>1
  <2> QED BY <2>1, FS_Interval
<1>3. ~(0 .. n \subseteq slots)
  <2>1. SUFFICES ASSUME 0 .. n \subseteq slots PROVE FALSE
    OBVIOUS
  <2>2. Cardinality(0 .. n) <= n
    BY <2>1, FS_Subset
  <2> HIDE DEF n
  <2> QED BY <1>1, <1>2, <2>2
<1>4. PICK t \in 0 .. n : t \notin slots
  BY <1>3
<1>5. UnheldTicket(slots) \in 0 .. n
  BY <1>4 DEF UnheldTicket
<1> HIDE DEF n
<1> QED BY <1>1, <1>5

LEMMA SlotsAreFinite ==
  ASSUME IsFiniteSet(calls), NEW kind
  PROVE  IsFiniteSet(SlotsOf(kind))
<1> DEFINE ofKind == {d \in calls : d.kind = kind}
           f == [c \in ofKind |-> c.slot]
<1>1. IsFiniteSet(ofKind)
  BY FS_Subset
<1>2. f \in Surjection(ofKind, SlotsOf(kind))
  BY DEF Surjection, SlotsOf
<1> QED BY <1>1, <1>2, FS_Surjection

(* What taking a claim, or giving one back, does to the four. *)
LEMMA AskFits ==
  ASSUME IInv, NEW kind \in Kinds, Ask(kind)
  PROVE  /\ claim' \in [Kinds -> Claims(Nat, 1)]
         /\ loading' \in [Kinds -> BOOLEAN] /\ timer' \in [Kinds -> LapseTimers]
         /\ calls' \subseteq Call /\ IsFiniteSet(calls')
         /\ \A k \in Kinds \ {"sweep"} : Busy(claim'[k]) => loading'[k]
         /\ \A c \in calls' : c \in calls \/ (c.gen = dataGen /\ c.at = at /\ c.kind = kind)
<1> DEFINE taken == TakenAgain(1, SlotsOf(kind))
           call == [kind |-> kind, at |-> at, gen |-> dataGen, slot |-> taken.ticket]
<1>1. UnheldTicket(SlotsOf(kind)) \in Nat
  BY SlotsAreFinite, TicketIsUnheld DEF IInv
<1>2. taken \in Claims(Nat, 1) /\ taken.ticket \in Nat
  BY <1>1 DEF TakenAgain, Claims
<1>3. /\ claim' = [claim EXCEPT ![kind] = taken]
      /\ loading' = [loading EXCEPT ![kind] = kind # "sweep"]
      /\ timer' = [timer EXCEPT ![kind] = IF kind = "sweep" THEN "none" ELSE "armed"]
      /\ calls' = calls \cup {call}
  BY DEF Ask
<1>4. call \in Call /\ call.gen = dataGen /\ call.at = at /\ call.kind = kind
  BY <1>2 DEF Call, IInv, TypeOK
<1> HIDE DEF taken, call
<1>5. IsFiniteSet(calls')
  BY <1>3, FS_AddElement DEF IInv
<1>6. \A k \in Kinds \ {"sweep"} : Busy(claim'[k]) => loading'[k]
  BY <1>3 DEF IInv, TypeOK, LiveShowsSpinner
<1> QED BY <1>2, <1>3, <1>4, <1>5, <1>6 DEF IInv, TypeOK, LapseTimers

LEMMA AskNothingFits ==
  ASSUME IInv, NEW kind \in Kinds, AskNothing(kind)
  PROVE  /\ claim' \in [Kinds -> Claims(Nat, 1)]
         /\ loading' \in [Kinds -> BOOLEAN] /\ timer' \in [Kinds -> LapseTimers]
         /\ \A k \in Kinds \ {"sweep"} : Busy(claim'[k]) => loading'[k]
         /\ calls' = calls
<1> DEFINE taken == TakenAgain(1, SlotsOf(kind))
           given == Released(taken, taken.ticket)
<1>1. UnheldTicket(SlotsOf(kind)) \in Nat
  BY SlotsAreFinite, TicketIsUnheld DEF IInv
<1>2. given \in Claims(Nat, 1) /\ ~given.held
  <2>1. taken \in Claims(Nat, 1)
    BY <1>1 DEF TakenAgain, Claims
  <2> HIDE DEF taken
  <2> QED BY <2>1 DEF Released, Claims
<1>3. /\ claim' = [claim EXCEPT ![kind] = given]
      /\ loading' = [loading EXCEPT ![kind] = FALSE]
      /\ timer' = [timer EXCEPT ![kind] = "armed"]
      /\ calls' = calls
  BY DEF AskNothing
<1> HIDE DEF taken, given
<1> QED BY <1>2, <1>3 DEF IInv, TypeOK, LiveShowsSpinner, Busy, LapseTimers

(* The selection and what is shown of it are left alone: the calls still fit. *)
LEMMA LoadFits ==
  ASSUME IInv, LoadFeeTiers, UNCHANGED <<at, dataGen, screen>>
  PROVE  /\ claim' \in [Kinds -> Claims(Nat, 1)]
         /\ loading' \in [Kinds -> BOOLEAN] /\ timer' \in [Kinds -> LapseTimers]
         /\ calls' \subseteq Call /\ IsFiniteSet(calls')
         /\ CallsFit' /\ ReadsFitSelection' /\ LiveShowsSpinner'
<1>1. CASE Busy(claim["fees"]) /\ UNCHANGED reads
  BY <1>1 DEF IInv, TypeOK, CallsFit, ReadsFitSelection, LiveShowsSpinner, reads, screen
<1>2. CASE at.chain = NoChain /\ AskNothing("fees")
  BY <1>2, AskNothingFits DEF IInv, TypeOK, Kinds, CallsFit, ReadsFitSelection, LiveShowsSpinner, screen
<1>3. CASE at.chain # NoChain /\ Ask("fees")
  <2>1. at.chain \in Chains
    BY <1>3 DEF IInv, TypeOK, Selections
  <2>2. CallsFit'
    BY <1>3, <2>1, AskFits DEF IInv, TypeOK, Kinds, CallsFit
  <2> QED BY <1>3, <2>2, AskFits DEF IInv, Kinds, ReadsFitSelection, LiveShowsSpinner, screen
<1> QED BY <1>1, <1>2, <1>3 DEF LoadFeeTiers

LEMMA RefreshKeeps ==
  ASSUME IInv, Refresh
  PROVE  IInv'
<1>1. LoadFeeTiers /\ UNCHANGED <<at, dataGen, screen, sweeping, mined, known, used>>
  BY DEF Refresh
<1>2. {due', reread', sweeping'} \subseteq BOOLEAN
  BY DEF Refresh, IInv, TypeOK
<1> QED BY <1>1, <1>2, LoadFits DEF IInv, TypeOK, screen

LEMMA AskKeeps ==
  ASSUME IInv, NEW kind \in Kinds \ {"fees"}, Ask(kind), UNCHANGED <<at, dataGen, screen>>
  PROVE  /\ claim' \in [Kinds -> Claims(Nat, 1)]
         /\ loading' \in [Kinds -> BOOLEAN] /\ timer' \in [Kinds -> LapseTimers]
         /\ calls' \subseteq Call /\ IsFiniteSet(calls')
         /\ CallsFit' /\ ReadsFitSelection' /\ LiveShowsSpinner'
<1>1. CallsFit'
  BY AskFits DEF IInv, TypeOK, CallsFit
<1> QED BY <1>1, AskFits DEF IInv, ReadsFitSelection, LiveShowsSpinner, screen

LEMMA ClickKeeps ==
  ASSUME IInv, NEW kind \in {"status", "details"}, ClickRow(kind)
  PROVE  IInv'
<1>1. /\ Ask(kind) /\ kind \in Kinds \ {"fees"}
      /\ UNCHANGED <<at, dataGen, screen, due, reread, sweeping, mined, known>>
  BY DEF ClickRow, Kinds
<1>2. used' \in [moves : Nat, asks : Nat, faults : Nat]
  BY DEF ClickRow, Spend, IInv, TypeOK
<1> QED BY <1>1, <1>2, AskKeeps DEF IInv, TypeOK, screen

LEMMA SweepKeeps ==
  ASSUME IInv, RefreshPending
  PROVE  IInv'
<1>1. /\ Ask("sweep") /\ "sweep" \in Kinds \ {"fees"}
      /\ UNCHANGED <<at, dataGen, screen, due, reread, sweeping, mined, known, used>>
  BY DEF RefreshPending, Kinds
<1> QED BY <1>1, AskKeeps DEF IInv, TypeOK, screen

(* A callback lowers a spinner only where it has just given back the claim   *)
(* that spinner stands for, and publishes only what is still on screen.      *)
LEMMA CallbackKeeps ==
  ASSUME IInv, NEW c \in calls, NEW answered \in BOOLEAN, Callback(c, answered)
  PROVE  IInv'
<1>1. /\ claim' = [claim EXCEPT ![c.kind] = Released(@, c.slot)]
      /\ calls' = calls \ {c}
      /\ UNCHANGED <<at, dataGen, row, timer, due, sweeping, mined>>
  BY DEF Callback, Release
<1>2. c \in Call /\ c.kind \in Kinds /\ c.at \in Selections
  BY DEF IInv, TypeOK, Call
<1>3. claim' \in [Kinds -> Claims(Nat, 1)]
  <2>1. PICK held : held = claim[c.kind]
    OBVIOUS
  <2>2. held \in Claims(Nat, 1)
    BY <1>2, <2>1 DEF IInv, TypeOK
  <2>3. Released(held, c.slot) \in Claims(Nat, 1)
    BY <2>2 DEF Released, Claims
  <2> QED BY <1>1, <2>1, <2>3 DEF IInv, TypeOK
<1>4. Owns(c) => ~Busy(claim'[c.kind])
  BY <1>1, <1>2 DEF IInv, TypeOK, Owns, IsCurrent, Released, Busy, Claims
<1>5. \A k \in Kinds : Busy(claim'[k]) => Busy(claim[k])
  BY <1>1, <1>2 DEF IInv, TypeOK, Released, Busy, Claims
<1>6. used' \in [moves : Nat, asks : Nat, faults : Nat]
  BY DEF Callback, Spend, IInv, TypeOK
<1>7. CallsFit' /\ calls' \subseteq Call /\ IsFiniteSet(calls')
  BY <1>1, FS_RemoveElement DEF IInv, TypeOK, CallsFit
<1>8. /\ loading' \in [Kinds -> BOOLEAN]
      /\ loading' # loading => Owns(c) /\ loading' = [loading EXCEPT ![c.kind] = FALSE]
  <2>1. CASE c.kind = "fees" /\ FeesCallback(c, answered)
    BY <2>1 DEF FeesCallback, LowerSpinner, IInv, TypeOK
  <2>2. CASE c.kind = "status" /\ StatusCallback(c, answered)
    BY <2>2 DEF StatusCallback, LowerSpinner, IInv, TypeOK
  <2>3. CASE c.kind = "details" /\ DetailsCallback(c)
    BY <2>3 DEF DetailsCallback, LowerSpinner, IInv, TypeOK
  <2>4. CASE c.kind = "sweep" /\ SweepCallback(c, answered)
    BY <2>4 DEF SweepCallback, IInv, TypeOK
  <2> QED BY <2>1, <2>2, <2>3, <2>4 DEF Callback
<1>9. LiveShowsSpinner'
  <2> SUFFICES ASSUME NEW k \in Kinds \ {"sweep"}, Busy(claim'[k]) PROVE loading'[k]
    BY DEF LiveShowsSpinner
  <2>1. loading[k]
    BY <1>5 DEF IInv, LiveShowsSpinner
  <2> QED BY <1>2, <1>4, <1>8, <2>1 DEF IInv, TypeOK
<1>10. /\ fees' \in Chains \cup {Unknown} /\ details' \in Selections \cup {Unknown}
       /\ reread' \in BOOLEAN /\ known' \in SUBSET Accounts
       /\ ReadsFitSelection'
  <2>1. known' \in SUBSET Accounts
    BY DEF Callback, FeesCallback, StatusCallback, DetailsCallback, SweepCallback, Learn, IInv, TypeOK
  <2>2. c.gen = dataGen => c.at = at
    BY DEF IInv, CallsFit
  <2>3. CASE c.kind = "fees" /\ FeesCallback(c, answered)
    <3>1. c.at.chain \in Chains
      BY <2>3 DEF IInv, CallsFit
    <3>2. UNCHANGED <<details, reread>> /\ fees' \in {fees, Unknown, c.at.chain}
      BY <2>3 DEF FeesCallback
    <3>3. fees' # fees => c.gen = dataGen
      BY <2>3 DEF FeesCallback
    <3> QED BY <1>1, <2>1, <2>2, <3>1, <3>2, <3>3 DEF IInv, TypeOK, ReadsFitSelection
  <2>4. CASE c.kind = "status" /\ StatusCallback(c, answered)
    <3>1. UNCHANGED <<fees, details>> /\ reread' \in BOOLEAN
      BY <2>4 DEF StatusCallback, IInv, TypeOK
    <3> QED BY <1>1, <2>1, <3>1 DEF IInv, TypeOK, ReadsFitSelection
  <2>5. CASE c.kind = "details" /\ DetailsCallback(c)
    <3>1. UNCHANGED <<fees, reread>> /\ details' \in {details, c.at}
      BY <2>5 DEF DetailsCallback
    <3>2. details' # details => c.gen = dataGen
      BY <2>5 DEF DetailsCallback
    <3> QED BY <1>1, <1>2, <2>1, <2>2, <3>1, <3>2 DEF IInv, TypeOK, ReadsFitSelection
  <2>6. CASE c.kind = "sweep" /\ SweepCallback(c, answered)
    <3>1. UNCHANGED <<fees, details>> /\ reread' \in BOOLEAN
      BY <2>6 DEF SweepCallback, IInv, TypeOK
    <3> QED BY <1>1, <2>1, <3>1 DEF IInv, TypeOK, ReadsFitSelection
  <2> QED BY <2>3, <2>4, <2>5, <2>6 DEF Callback
<1> QED BY <1>1, <1>3, <1>6, <1>7, <1>8, <1>9, <1>10 DEF IInv, TypeOK

LEMMA LapseKeeps ==
  ASSUME IInv, NEW kind \in Kinds, Lapse(kind), used' \in [moves : Nat, asks : Nat, faults : Nat]
  PROVE  IInv'
<1>1. /\ claim' = [claim EXCEPT ![kind] = Lapsed(@)]
      /\ UNCHANGED <<at, dataGen, screen, loading, timer, calls, due, reread, sweeping, mined, known>>
  BY DEF Lapse
<1>2. Lapsed(claim[kind]) \in Claims(Nat, 1) /\ ~Busy(Lapsed(claim[kind]))
  BY DEF IInv, TypeOK, Lapsed, Claims, Busy
<1>3. claim' \in [Kinds -> Claims(Nat, 1)] /\ LiveShowsSpinner'
  BY <1>1, <1>2 DEF IInv, TypeOK, LiveShowsSpinner
<1> QED BY <1>1, <1>3 DEF IInv, TypeOK, CallsFit, ReadsFitSelection, screen

LEMMA TimerKeeps ==
  ASSUME IInv, NEW kind \in Kinds, LapseTimer(kind)
  PROVE  IInv'
<1>1. UNCHANGED <<at, dataGen, screen, claim, calls, due, reread, sweeping, mined, known, used>>
  BY DEF LapseTimer
<1>2. /\ loading' \in [Kinds -> BOOLEAN] /\ timer' \in [Kinds -> LapseTimers]
      /\ LiveShowsSpinner'
  <2>1. CASE Busy(claim[kind])
    BY <1>1, <2>1 DEF LapseTimer, LapseTimers, IInv, TypeOK, LiveShowsSpinner
  <2>2. CASE ~Busy(claim[kind])
    BY <1>1, <2>2 DEF LapseTimer, LowerSpinner, LapseTimers, IInv, TypeOK, LiveShowsSpinner
  <2> QED BY <2>1, <2>2
<1> QED BY <1>1, <1>2 DEF IInv, TypeOK, CallsFit, ReadsFitSelection, screen

LEMMA LossKeeps ==
  ASSUME IInv, NEW c \in calls, LoseCallback(c)
  PROVE  IInv'
<1>1. /\ calls' = calls \ {c}
      /\ used' \in [moves : Nat, asks : Nat, faults : Nat]
      /\ UNCHANGED <<at, dataGen, screen, claim, loading, timer, due, reread, sweeping, mined, known>>
  BY DEF LoseCallback, Spend, IInv, TypeOK
<1>2. IsFiniteSet(calls')
  BY <1>1, FS_RemoveElement DEF IInv
<1> QED BY <1>1, <1>2 DEF IInv, TypeOK, CallsFit, ReadsFitSelection, LiveShowsSpinner, screen

(* A move leaves every call that is out behind the new generation. *)
LEMMA MoveKeeps ==
  ASSUME IInv, NEW to \in Selections, MoveSelection(to)
  PROVE  IInv'
<1>1. /\ at' = to /\ dataGen' = dataGen + 1
      /\ fees' = IF to.chain # at.chain THEN Unknown ELSE fees
      /\ details' = Unknown /\ row' = Unknown
      /\ UNCHANGED <<claim, loading, timer, calls, mined, known>>
  BY DEF MoveSelection, reads
<1>2. {due', reread', sweeping'} \subseteq BOOLEAN
  BY DEF MoveSelection, IInv, TypeOK
<1>3. used' \in [moves : Nat, asks : Nat, faults : Nat]
  BY DEF MoveSelection, Spend, IInv, TypeOK
<1>4. CallsFit'
  <2>1. \A c \in calls : c.gen \in Nat /\ c.gen <= dataGen
    BY DEF IInv, TypeOK, CallsFit, Call
  <2>2. dataGen \in Nat
    BY DEF IInv, TypeOK
  <2>3. \A c \in calls : c.gen <= dataGen + 1 /\ c.gen # dataGen + 1
    BY <2>1, <2>2
  <2> QED BY <1>1, <2>3 DEF IInv, CallsFit
<1>5. ReadsFitSelection' /\ LiveShowsSpinner'
  BY <1>1 DEF IInv, ReadsFitSelection, LiveShowsSpinner
<1>6. TypeOK'
  BY <1>1, <1>2, <1>3 DEF IInv, TypeOK
<1> QED BY <1>1, <1>4, <1>5, <1>6 DEF IInv

LEMMA HistoryKeeps ==
  ASSUME IInv, HistoryAnswers \/ HistoryRefused \/ Notice
  PROVE  IInv'
<1>1. UNCHANGED <<at, dataGen, fees, details, claim, loading, timer, calls, mined, known>>
  BY DEF HistoryAnswers, HistoryRefused, Notice, reads, screen
<1>2. /\ row' \in {Unknown, "pending", "mined"}
      /\ {due', reread', sweeping'} \subseteq BOOLEAN
  BY DEF HistoryAnswers, HistoryRefused, Notice, screen, IInv, TypeOK
<1>3. used' \in [moves : Nat, asks : Nat, faults : Nat]
  BY DEF HistoryAnswers, HistoryRefused, Notice, Spend, IInv, TypeOK
<1> QED BY <1>1, <1>2, <1>3 DEF IInv, TypeOK, CallsFit, ReadsFitSelection, LiveShowsSpinner

LEMMA MiningKeeps ==
  ASSUME IInv, NEW who \in Accounts, Mines(who)
  PROVE  IInv'
<1>1. /\ mined' \in SUBSET Accounts
      /\ UNCHANGED <<at, dataGen, screen, reads, due, reread, sweeping, known, used>>
  BY DEF Mines, IInv, TypeOK
<1> QED BY <1>1 DEF IInv, TypeOK, CallsFit, ReadsFitSelection, LiveShowsSpinner, reads, screen

LEMMA InitFits == Init => IInv
<1> SUFFICES ASSUME Init PROVE IInv
  OBVIOUS
<1>1. IsFiniteSet(calls) /\ CallsFit /\ calls \subseteq Call
  BY FS_EmptySet DEF Init, CallsFit
<1>2. claim \in [Kinds -> Claims(Nat, 1)] /\ loading \in [Kinds -> BOOLEAN]
      /\ timer \in [Kinds -> LapseTimers]
  BY DEF Init, FreeClaim, Claims, LapseTimers
<1>3. at \in Selections /\ ReadsFitSelection /\ LiveShowsSpinner
  BY DEF Init, Selections, ReadsFitSelection, LiveShowsSpinner, Busy, FreeClaim
<1>4. TypeOK
  BY <1>1, <1>2, <1>3 DEF Init, TypeOK
<1> QED BY <1>1, <1>3, <1>4 DEF IInv

LEMMA StepKeeps == IInv /\ [Next]_vars => IInv'
<1> SUFFICES ASSUME IInv, [Next]_vars PROVE IInv'
  OBVIOUS
<1>1. CASE Refresh
  BY <1>1, RefreshKeeps
<1>2. CASE \E kind \in {"status", "details"} : ClickRow(kind)
  BY <1>2, ClickKeeps
<1>3. CASE RefreshPending
  BY <1>3, SweepKeeps
<1>4. CASE \E c \in calls, answered \in BOOLEAN : Callback(c, answered)
  BY <1>4, CallbackKeeps
<1>5. CASE \E kind \in Kinds : LapseAfterLoss(kind)
  <2>1. PICK kind \in Kinds : LapseAfterLoss(kind)
    BY <1>5
  <2>2. Lapse(kind) /\ used' \in [moves : Nat, asks : Nat, faults : Nat]
    BY <2>1 DEF LapseAfterLoss, IInv, TypeOK
  <2> QED BY <2>2, LapseKeeps
<1>6. CASE \E kind \in Kinds : LapseBeforeReply(kind)
  <2>1. PICK kind \in Kinds : LapseBeforeReply(kind)
    BY <1>6
  <2>2. Lapse(kind) /\ used' \in [moves : Nat, asks : Nat, faults : Nat]
    BY <2>1 DEF LapseBeforeReply, Spend, IInv, TypeOK
  <2> QED BY <2>2, LapseKeeps
<1>7. CASE \E kind \in Kinds : LapseTimer(kind)
  BY <1>7, TimerKeeps
<1>8. CASE \E c \in calls : LoseCallback(c)
  BY <1>8, LossKeeps
<1>9. CASE \E to \in Selections : MoveSelection(to)
  BY <1>9, MoveKeeps
<1>10. CASE Notice \/ HistoryAnswers \/ HistoryRefused
  BY <1>10, HistoryKeeps
<1>11. CASE \E who \in Accounts : Mines(who)
  BY <1>11, MiningKeeps
<1>12. CASE UNCHANGED vars
  BY <1>12 DEF vars, screen, reads, IInv, TypeOK, CallsFit, ReadsFitSelection, LiveShowsSpinner
<1> QED
  BY <1>1, <1>2, <1>3, <1>4, <1>5, <1>6, <1>7, <1>8, <1>9, <1>10, <1>11, <1>12 DEF Next

LEMMA Inductive == Spec => []IInv
BY InitFits, StepKeeps, PTL DEF Spec

(* Every read, claim and timer of the bare reads stays in its type. *)
THEOREM TypeCorrect == Spec => []TypeOK
<1>1. IInv => TypeOK
  BY DEF IInv
<1> QED BY <1>1, Inductive, PTL

(* The tiers and the details on screen are those of the selection on screen, *)
(* however many accounts, chains, moves and faults there are                 *)
(* (loadFeeTiers and fetchTxDetails, the generation checked in the callback).*)
THEOREM ReadsAlwaysFit == Spec => []ReadsFitSelection
<1>1. IInv => ReadsFitSelection
  BY DEF IInv
<1> QED BY <1>1, Inductive, PTL

(* No late reply and no lapse timer lowers the spinner of a call that is     *)
(* still out (isCurrent, and busy() in the timer of beginClaim).             *)
THEOREM LiveAlwaysSpins == Spec => []LiveShowsSpinner
<1>1. IInv => LiveShowsSpinner
  BY DEF IInv
<1> QED BY <1>1, Inductive, PTL

-----------------------------------------------------------------------------
(***************************************************************************)
(* The spinners and the sweep have something to end them.                  *)
(***************************************************************************)
Armed(k, spins, clock) == spins[k] => clock[k] # "none"

Served(k, spins, held, out) == spins[k] => \E c \in out : c.kind = k /\ c.slot = held[k].ticket

Tended ==
  /\ \A k \in Kinds \ {"sweep"} : Armed(k, loading, timer)
  /\ row = "pending" => sweeping

(* What a step does for a kind of read: its timer and its call stay with its *)
(* spinner.                                                                  *)
ArmedStays(k) == Armed(k, loading, timer) => Armed(k, loading', timer')

Keeps(k) ==
  ArmedStays(k) /\ (Served(k, loading, claim, calls) => Served(k, loading', claim', calls'))

KeepsOrNeglects(k) ==
  /\ ArmedStays(k)
  /\ Served(k, loading, claim, calls)
       => Served(k, loading', claim', calls') \/ \E c \in calls : Neglects(k, c)

LEMMA KindLeftAlone ==
  ASSUME NEW k, loading'[k] => loading[k], timer'[k] = timer[k], claim'[k].ticket = claim[k].ticket,
         \A c \in calls : c.kind = k => c \in calls'
  PROVE  Keeps(k)
BY DEF Keeps, ArmedStays, Armed, Served

LEMMA AskArms ==
  ASSUME IInv, NEW kind \in Kinds, Ask(kind) \/ AskNothing(kind), NEW k \in Kinds \ {"sweep"}
  PROVE  Keeps(k)
<1> DEFINE taken == TakenAgain(1, SlotsOf(kind))
           call == [kind |-> kind, at |-> at, gen |-> dataGen, slot |-> taken.ticket]
<1>t. kind \in DOMAIN claim /\ kind \in DOMAIN loading /\ kind \in DOMAIN timer
  BY DEF IInv, TypeOK
<1>1. CASE k # kind
  <2>1. claim'[k] = claim[k] /\ loading'[k] = loading[k] /\ timer'[k] = timer[k] /\ calls \subseteq calls'
    BY <1>1 DEF Ask, AskNothing, IInv, TypeOK
  <2> QED BY <2>1, KindLeftAlone
<1>2. CASE k = kind /\ Ask(kind)
  <2>1. /\ claim'[kind] = taken /\ call \in calls'
        /\ timer'[kind] = "armed"
    BY <1>t, <1>2 DEF Ask
  <2>2. call.kind = kind /\ call.slot = taken.ticket
    OBVIOUS
  <2> HIDE DEF taken, call
  <2> QED BY <1>2, <2>1, <2>2 DEF Keeps, ArmedStays, Armed, Served
<1>3. CASE k = kind /\ AskNothing(kind)
  <2>1. loading'[kind] = FALSE
    BY <1>t, <1>3 DEF AskNothing
  <2> QED BY <1>3, <2>1 DEF Keeps, ArmedStays, Armed, Served
<1> QED BY <1>1, <1>2, <1>3

(* The call a spinner waits for lowers it, but for the tiers of a generation *)
(* that has passed.                                                          *)
LEMMA CallbackArms ==
  ASSUME IInv, NEW c \in calls, NEW answered \in BOOLEAN, Callback(c, answered),
         NEW k \in Kinds \ {"sweep"}
  PROVE  KeepsOrNeglects(k)
<1>1. /\ timer' = timer /\ calls' = calls \ {c}
      /\ claim' = [claim EXCEPT ![c.kind] = Released(@, c.slot)]
  BY DEF Callback, Release
<1>2. /\ c.kind \in Kinds /\ claim \in [Kinds -> Claims(Nat, 1)] /\ loading \in [Kinds -> BOOLEAN]
      /\ calls \subseteq Call
  BY DEF IInv, TypeOK, Call
<1>3. /\ loading' = loading \/ loading' = [loading EXCEPT ![c.kind] = FALSE]
      /\ Owns(c) /\ c.kind # "sweep" /\ ~(c.kind = "fees" /\ c.gen # dataGen)
           => loading' = [loading EXCEPT ![c.kind] = FALSE]
  <2>1. CASE c.kind = "fees" /\ FeesCallback(c, answered)
    BY <2>1 DEF FeesCallback, LowerSpinner
  <2>2. CASE c.kind = "status" /\ StatusCallback(c, answered)
    BY <2>2 DEF StatusCallback, LowerSpinner
  <2>3. CASE c.kind = "details" /\ DetailsCallback(c)
    BY <2>3 DEF DetailsCallback, LowerSpinner
  <2>4. CASE c.kind = "sweep" /\ SweepCallback(c, answered)
    BY <2>4 DEF SweepCallback
  <2> QED BY <2>1, <2>2, <2>3, <2>4 DEF Callback
<1>4. loading'[k] => loading[k]
  BY <1>2, <1>3
<1>5. ArmedStays(k)
  BY <1>1, <1>4 DEF ArmedStays, Armed
<1>6. CASE k = c.kind /\ Owns(c)
  <2>1. CASE k = "fees" /\ c.gen # dataGen
    BY <1>5, <1>6, <2>1 DEF KeepsOrNeglects, Neglects
  <2>2. CASE ~(k = "fees" /\ c.gen # dataGen)
    <3>1. ~loading'[k]
      BY <1>2, <1>3, <1>6, <2>2
    <3> QED BY <1>5, <3>1 DEF KeepsOrNeglects, Served
  <2> QED BY <2>1, <2>2
<1>7. CASE ~(k = c.kind /\ Owns(c))
  <2>1. claim'[k].ticket = claim[k].ticket
    BY <1>1, <1>2 DEF Released, Claims
  <2> QED BY <1>1, <1>4, <1>5, <1>7, <2>1 DEF KeepsOrNeglects, Served, Owns, IsCurrent
<1> QED BY <1>6, <1>7

LEMMA ArmedStep ==
  ASSUME IInv, [Next]_vars, NEW k \in Kinds \ {"sweep"}
  PROVE  KeepsOrNeglects(k)
<1>t. claim \in [Kinds -> Claims(Nat, 1)] /\ timer \in [Kinds -> LapseTimers] /\ loading \in [Kinds -> BOOLEAN]
  BY DEF IInv, TypeOK
<1>k. Keeps(k) => KeepsOrNeglects(k)
  BY DEF Keeps, KeepsOrNeglects
<1>n. UNCHANGED reads => Keeps(k)
  BY KindLeftAlone DEF reads
<1>1. CASE Refresh \/ (\E kind \in {"status", "details"} : ClickRow(kind)) \/ RefreshPending
  <2>1. UNCHANGED reads \/ \E kind \in Kinds : Ask(kind) \/ AskNothing(kind)
    BY <1>1 DEF Refresh, LoadFeeTiers, ClickRow, RefreshPending, Kinds
  <2> QED BY <1>k, <1>n, <2>1, AskArms
<1>2. CASE \E c \in calls, answered \in BOOLEAN : Callback(c, answered)
  BY <1>2, CallbackArms
<1>3. CASE \E kind \in Kinds : LapseAfterLoss(kind) \/ LapseBeforeReply(kind)
  <2>1. PICK kind \in Kinds : Lapse(kind)
    BY <1>3 DEF LapseAfterLoss, LapseBeforeReply
  <2>2. claim' = [claim EXCEPT ![kind] = Lapsed(@)] /\ UNCHANGED <<loading, timer, calls>>
    BY <2>1 DEF Lapse
  <2>3. claim'[k].ticket = claim[k].ticket
    BY <1>t, <2>2 DEF Lapsed, Claims
  <2> QED BY <1>k, <2>2, <2>3, KindLeftAlone
<1>4. CASE \E kind \in Kinds : LapseTimer(kind)
  <2> SUFFICES Keeps(k)
    BY <1>k
  <2>1. PICK kind \in Kinds : LapseTimer(kind)
    BY <1>4
  <2>2. UNCHANGED <<claim, calls>>
    BY <2>1 DEF LapseTimer
  <2>3. CASE k # kind
    <3>1. loading'[k] = loading[k] /\ timer'[k] = timer[k]
      BY <1>t, <2>1, <2>3 DEF LapseTimer, LowerSpinner
    <3> QED BY <2>2, <3>1, KindLeftAlone
  <2>4. CASE k = kind /\ Busy(claim[kind])
    <3>1. timer'[k] = "early" /\ loading'[k] = loading[k]
      BY <1>t, <2>1, <2>4 DEF LapseTimer
    <3> QED BY <2>2, <3>1 DEF Keeps, ArmedStays, Armed, Served
  <2>5. CASE k = kind /\ ~Busy(claim[kind])
    <3>1. ~loading'[k]
      BY <1>t, <2>1, <2>5 DEF LapseTimer, LowerSpinner
    <3> QED BY <3>1 DEF Keeps, ArmedStays, Armed, Served
  <2> QED BY <2>3, <2>4, <2>5
<1>5. ASSUME NEW c \in calls, LoseCallback(c)
      PROVE  KeepsOrNeglects(k)
  <2>1. UNCHANGED <<claim, loading, timer>> /\ calls' = calls \ {c}
    BY <1>5 DEF LoseCallback
  <2>2. CASE k = c.kind /\ Owns(c)
    BY <1>5, <2>1, <2>2 DEF KeepsOrNeglects, Neglects, ArmedStays, Armed
  <2>3. CASE ~(k = c.kind /\ Owns(c))
    BY <2>1, <2>3 DEF KeepsOrNeglects, ArmedStays, Armed, Served, Owns, IsCurrent
  <2> QED BY <2>2, <2>3
<1>6. CASE UNCHANGED reads
  BY <1>k, <1>n, <1>6
<1>7. (\E to \in Selections : MoveSelection(to)) \/ HistoryAnswers \/ HistoryRefused \/ Notice
        \/ (\E who \in Accounts : Mines(who)) \/ UNCHANGED vars => UNCHANGED reads
  BY DEF MoveSelection, HistoryAnswers, HistoryRefused, Notice, Mines, vars
<1> QED BY <1>1, <1>2, <1>3, <1>4, <1>5, <1>6, <1>7 DEF Next

(* A row shown pending raises the sweep with it, and nothing drops the sweep *)
(* but a history with no such row.                                           *)
LEMMA SweepStays ==
  (row = "pending" => sweeping) /\ [Next]_vars => (row' = "pending" => sweeping')
<1> SUFFICES ASSUME row = "pending" => sweeping, [Next]_vars PROVE row' = "pending" => sweeping'
  OBVIOUS
<1>1. CASE UNCHANGED <<row, sweeping>>
  BY <1>1
<1>2. CASE \E to \in Selections : MoveSelection(to)
  BY <1>2, UnknownAssumption DEF MoveSelection
<1>3. CASE HistoryAnswers
  BY <1>3 DEF HistoryAnswers
<1> QED
  BY <1>1, <1>2, <1>3
  DEF Next, Refresh, LoadFeeTiers, ClickRow, RefreshPending, Ask, AskNothing, Callback, LapseAfterLoss,
      LapseBeforeReply, Lapse, LapseTimer, LoseCallback, HistoryRefused, Notice, Mines, vars, screen, reads

(* Every spinner that shows has a timer to come or one that was spent early; *)
(* and each has its own call out until that very call is lost or, the fees,  *)
(* dropped for its generation: a spinner with nothing to lower it takes one  *)
(* of these besides the early timer (beginClaim, loadFeeTiers).  And every   *)
(* row shown pending has a sweep.                                            *)
THEOREM LapseStaysArmed == Spec => []LapseIsArmed /\ OnlyTheseNeglect
<1>1. Init => Tended
  BY DEF Init, Tended, Armed
<1>2. ASSUME IInv, Tended, [Next]_vars PROVE Tended'
  <2>1. ASSUME NEW k \in Kinds \ {"sweep"} PROVE Armed(k, loading', timer')
    BY <1>2, ArmedStep DEF Tended, KeepsOrNeglects, ArmedStays
  <2>2. row' = "pending" => sweeping'
    BY <1>2, SweepStays DEF Tended
  <2> QED BY <2>1, <2>2 DEF Tended
<1>3. Tended => LapseIsArmed
  BY DEF Tended, Armed, LapseIsArmed
<1>4. ASSUME IInv, [Next]_vars
      PROVE  [\A kind \in Kinds \ {"sweep"} :
                Attended(kind) => Attended(kind)' \/ \E c \in calls : Neglects(kind, c)]_vars
  <2>1. ASSUME NEW kind \in Kinds \ {"sweep"}, Attended(kind)
        PROVE  Attended(kind)' \/ \E c \in calls : Neglects(kind, c)
    <3>1. KeepsOrNeglects(kind)
      BY <1>4, ArmedStep
    <3>2. /\ Attended(kind) => Served(kind, loading, claim, calls)
          /\ Served(kind, loading', claim', calls') => Attended(kind)'
      BY DEF Attended, OwnCallOut, Owns, IsCurrent, Served
    <3> QED BY <2>1, <3>1, <3>2 DEF KeepsOrNeglects
  <2> QED BY <2>1
<1> QED BY <1>1, <1>2, <1>3, <1>4, Inductive, PTL DEF Spec, OnlyTheseNeglect
=============================================================================

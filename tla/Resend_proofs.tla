---------------------------- MODULE Resend_proofs ----------------------------
(***************************************************************************)
(* Why a replacement put up for review is one nodes take, for any ledger,  *)
(* any tiers and any order of clicks, replies, moves and sends: the entry  *)
(* a history publishes is above every attempt at its nonce, and each of    *)
(* the three calls hands that on; and nothing in the arithmetic leaves     *)
(* what a quint64 holds.                                                   *)
(***************************************************************************)
EXTENDS Resend, FiniteSetTheorems, TLAPS

(* What an entry, and whatever is made of it, knows of the history it came from. *)
Sound(entry, on) ==
  /\ \A n \in on.mined : n < entry.nonce
  /\ \A a \in on.attempts : a.fee <= entry.floor.fee /\ a.tip <= entry.floor.tip

Acceptable(bid, on) ==
  /\ \A a \in on.attempts : Outbids(bid.fees, a)
  /\ bid.fees.tip <= bid.fees.fee

BlockedFits == blocked.entry.resend => Sound(blocked.entry, blocked.on)

CallsFit ==
  \A c \in calls :
    /\ Sound(c.entry, c.on)
    /\ c.bid.nonce = c.entry.nonce
    /\ c.leg = "quote" => Acceptable(c.bid, c.on)

LedgerFits ==
  /\ IsFiniteSet(ledger) /\ IsFiniteSet(stranded)
  /\ \A r \in ledger : r.time <= now

ReviewFits == ReviewOutbids /\ NothingPastIsReviewed /\ ReviewIsSelections

IInv ==
  TypeOK /\ LedgerFits /\ BlockedFits /\ CallsFit /\ ReviewFits /\ ResendShowsSpinner

USE NonceAssumption, ResendAssumption

-----------------------------------------------------------------------------
(* The numbers. *)

LEMMA LeastExists ==
  ASSUME NEW S \in SUBSET Nat, S # {}
  PROVE  \E n \in S : \A m \in S : n <= m
<1> DEFINE R == OpToRel(<, Nat)
<1>1. IsWellFoundedOn(R, Nat)
  BY NatLessThanWellFounded
<1>2. \A m, k \in Nat : m < k => <<m, k>> \in R
  BY DEF OpToRel
<1> HIDE DEF R
<1>3. PICK n \in S : \A m \in S : ~(<<m, n>> \in R)
  BY <1>1, WFMin
<1> SUFFICES ASSUME NEW m \in S PROVE n <= m
  OBVIOUS
<1>4. n \in Nat /\ m \in Nat /\ ~(<<m, n>> \in R)
  BY <1>3
<1>5. ~(m < n)
  BY <1>2, <1>4
<1> QED BY <1>4, <1>5

LEMMA LeastIsLeast ==
  ASSUME NEW S \in SUBSET Nat, S # {}
  PROVE  Least(S) \in S /\ \A m \in S : Least(S) <= m
BY LeastExists DEF Least

(* Of numbers below a bound the one closest to it is the greatest. *)
LEMMA GreatestExists ==
  ASSUME NEW bound \in Nat, NEW S \in SUBSET (0 .. bound), S # {}
  PROVE  \E n \in S : \A m \in S : m <= n
<1> DEFINE gaps == {bound - n : n \in S}
<1>1. gaps \in SUBSET Nat /\ gaps # {}
  <2>1. \A n \in S : bound - n \in Nat
    OBVIOUS
  <2> QED BY <2>1
<1>2. PICK g \in gaps : \A h \in gaps : g <= h
  BY <1>1, LeastExists
<1>3. PICK n \in S : g = bound - n
  BY <1>2
<1>4. \A m \in S : m <= n
  <2> SUFFICES ASSUME NEW m \in S PROVE m <= n
    OBVIOUS
  <2>1. bound - n <= bound - m
    BY <1>2, <1>3
  <2>2. m \in Int /\ n \in Int
    OBVIOUS
  <2> QED BY <2>1, <2>2
<1> QED BY <1>4

LEMMA GreatestIsGreatest ==
  ASSUME NEW bound \in Nat, NEW S \in SUBSET (0 .. bound), S # {}
  PROVE  Greatest(S) \in S /\ \A m \in S : m <= Greatest(S)
BY GreatestExists DEF Greatest

LEMMA NewestIsARow ==
  ASSUME NEW bound \in Nat, NEW rows, rows # {}, \A r \in rows : r.time \in 0 .. bound
  PROVE  Newest(rows) \in rows
<1> DEFINE times == {r.time : r \in rows}
<1>1. PICK t \in times : \A u \in times : u <= t
  <2>1. times \in SUBSET (0 .. bound) /\ times # {}
    OBVIOUS
  <2> HIDE DEF times
  <2> QED BY <2>1, GreatestExists
<1>2. PICK r \in rows : r.time = t
  BY <1>1
<1>3. \A s \in rows : s.time <= r.time
  BY <1>1, <1>2
<1> QED BY <1>2, <1>3 DEF Newest

(* A tenth and one more, in whole wei, is at least a tenth more. *)
LEMMA BumpIsATenthMore ==
  ASSUME NEW x \in Nat
  PROVE  Bump(x) \in Nat /\ Bump(x) > x /\ 10 * Bump(x) >= 11 * x
BY DEF Bump

LEMMA BumpGrows ==
  ASSUME NEW x \in Nat, NEW y \in Nat, x <= y
  PROVE  Bump(x) <= Bump(y)
BY DEF Bump

(* The replacement of any fees that may be replaced is above them and above  *)
(* whatever they are above, by the tenth nodes ask, its tip is within its    *)
(* fee, and both fit the integers they are kept in: kMaxBumpable leaves room *)
(* for the bump (nonce.h replacementFees).                                   *)
THEOREM ReplacementOutbids ==
  ASSUME NEW tier \in Fees, NEW floor \in Fees, Bumpable(floor),
         NEW other \in Fees, other.fee <= floor.fee, other.tip <= floor.tip
  PROVE  LET bid == ReplacementFees(tier, floor)
         IN  bid \in Fees /\ Outbids(bid, other) /\ bid.tip <= bid.fee
<1> DEFINE tip == Larger(tier.tip, Bump(floor.tip))
           fee == Larger(Larger(tier.fee, Bump(floor.fee)), tip)
<1>1. /\ tier.fee \in 0 .. MaxWei /\ tier.tip \in 0 .. MaxWei
      /\ floor.fee \in Nat /\ floor.tip \in Nat
      /\ other.fee \in Nat /\ other.tip \in Nat
      /\ kMaxBumpable \in Nat /\ MaxWei \in Nat
  BY DEF Fees
<1>2. Bump(floor.fee) \in 0 .. MaxWei /\ Bump(floor.tip) \in 0 .. MaxWei
  <2>1. Bump(floor.fee) <= Bump(kMaxBumpable) /\ Bump(floor.tip) <= Bump(kMaxBumpable)
    BY <1>1, BumpGrows DEF Bumpable
  <2>2. Bump(floor.fee) \in Nat /\ Bump(floor.tip) \in Nat /\ Bump(kMaxBumpable) \in Nat
    BY <1>1, BumpIsATenthMore
  <2> QED BY <1>1, <2>1, <2>2
<1>3. tip \in 0 .. MaxWei /\ fee \in 0 .. MaxWei /\ tip <= fee
      /\ tip >= Bump(floor.tip) /\ fee >= Bump(floor.fee)
  BY <1>1, <1>2 DEF Larger
<1>4. /\ 10 * Bump(floor.fee) >= 11 * floor.fee /\ Bump(floor.fee) > floor.fee
      /\ 10 * Bump(floor.tip) >= 11 * floor.tip /\ Bump(floor.tip) > floor.tip
  BY <1>1, BumpIsATenthMore
<1>5. ReplacementFees(tier, floor) = [fee |-> fee, tip |-> tip]
  BY DEF ReplacementFees
<1> HIDE DEF tip, fee
<1>6. /\ 10 * fee >= 11 * other.fee /\ fee > other.fee
      /\ 10 * tip >= 11 * other.tip /\ tip > other.tip
  BY <1>1, <1>2, <1>3, <1>4
<1> QED BY <1>3, <1>5, <1>6 DEF Fees, Outbids

-----------------------------------------------------------------------------
(* The entry a history publishes. *)

LEMMA FloorsAreAbove ==
  ASSUME NEW attempts \in SUBSET Row, attempts # {}
  PROVE  /\ Floors(attempts) \in Fees
         /\ \A r \in attempts : /\ r.fees.fee <= Floors(attempts).fee
                               /\ r.fees.tip <= Floors(attempts).tip
<1> DEFINE fees == {r.fees.fee : r \in attempts}
           tips == {r.fees.tip : r \in attempts}
<1>1. \A r \in attempts : r.fees.fee \in 0 .. MaxWei /\ r.fees.tip \in 0 .. MaxWei
  BY DEF Row, Fees
<1>2. fees \in SUBSET (0 .. MaxWei) /\ fees # {} /\ tips \in SUBSET (0 .. MaxWei) /\ tips # {}
  BY <1>1
<1>3. Floors(attempts) = [fee |-> Greatest(fees), tip |-> Greatest(tips)]
  BY DEF Floors
<1>4. (\A r \in attempts : r.fees.fee \in fees /\ r.fees.tip \in tips) /\ MaxWei \in Nat
  OBVIOUS
<1> HIDE DEF fees, tips
<1>5. /\ Greatest(fees) \in fees /\ \A m \in fees : m <= Greatest(fees)
      /\ Greatest(tips) \in tips /\ \A m \in tips : m <= Greatest(tips)
  BY <1>2, <1>4, GreatestIsGreatest
<1>6. Floors(attempts) \in Fees
  <2>1. Greatest(fees) \in 0 .. MaxWei /\ Greatest(tips) \in 0 .. MaxWei
    BY <1>2, <1>5
  <2> QED BY <1>3, <2>1 DEF Fees
<1>7. Floors(attempts).fee = Greatest(fees) /\ Floors(attempts).tip = Greatest(tips)
  BY <1>3
<1> QED BY <1>4, <1>5, <1>6, <1>7

LEMMA NoEntryIsOne == NoEntry \in Entries /\ ~NoEntry.resend
<1>1. 0 \in 0 .. MaxWei /\ 0 \in Nat
  OBVIOUS
<1> QED BY <1>1 DEF NoEntry, Entries, Fees

(* An entry that can be resent is past every nonce the rows say is mined,    *)
(* and above every row that waits at its own.                                *)
LEMMA EntryFits ==
  ASSUME NEW rows \in SUBSET Row, NEW gaps \in SUBSET Nat, NEW at \in Nat,
         \A r \in rows : r.time <= at
  PROVE  LET entry == BlockedNonces(rows, gaps, at)
         IN  /\ entry \in Entries
             /\ entry.resend =>
                  /\ \A m \in rows : RowMined(m) => m.nonce < entry.nonce
                  /\ \A r \in rows : RowWaiting(r) /\ r.nonce = entry.nonce =>
                       r.fees.fee <= entry.floor.fee /\ r.fees.tip <= entry.floor.tip
<1> DEFINE queue == {r \in rows : RowWaiting(r) /\ StillWaits(r.nonce, rows)}
           numbers == {r.nonce : r \in queue} \cup {n \in gaps : StillWaits(n, rows)}
           nonce == Least(numbers)
           attempts == {r \in queue : r.nonce = nonce}
           entry == BlockedNonces(rows, gaps, at)
           Right == /\ entry \in Entries
                    /\ entry.resend =>
                         /\ \A m \in rows : RowMined(m) => m.nonce < entry.nonce
                         /\ \A r \in rows : RowWaiting(r) /\ r.nonce = entry.nonce =>
                              r.fees.fee <= entry.floor.fee /\ r.fees.tip <= entry.floor.tip
<1> SUFFICES Right
  OBVIOUS
<1>1. entry = IF numbers # {} /\ Stuck(attempts, queue \ attempts, at)
              THEN Entry(nonce, attempts) ELSE NoEntry
  BY DEF BlockedNonces
<1>2. numbers \in SUBSET Nat /\ \A n \in numbers : StillWaits(n, rows)
  BY DEF Row
<1>3. CASE entry = NoEntry
  BY <1>3, NoEntryIsOne
<1>4. CASE numbers # {} /\ entry = Entry(nonce, attempts)
  <2>1. nonce \in numbers
    <3> HIDE DEF numbers
    <3> QED BY <1>2, <1>4, LeastIsLeast
  <2>2. nonce \in Nat /\ StillWaits(nonce, rows)
    <3> HIDE DEF numbers, nonce
    <3> QED BY <1>2, <2>1
  <2>3. CASE attempts = {}
    <3>1. entry = [NoEntry EXCEPT !.nonce = nonce]
      BY <1>4, <2>3 DEF Entry
    <3>2. [NoEntry EXCEPT !.nonce = nonce] \in Entries /\ ~[NoEntry EXCEPT !.nonce = nonce].resend
      <4> HIDE DEF nonce
      <4> QED BY <2>2, NoEntryIsOne DEF Entries
    <3> HIDE DEF entry, nonce
    <3> QED BY <3>1, <3>2
  <2>4. CASE attempts # {}
    <3>1. /\ attempts \in SUBSET Row
          /\ \A r \in attempts : r.time \in 0 .. at
      BY DEF Row
    <3>2. \A r \in rows : RowWaiting(r) /\ r.nonce = nonce => r \in attempts
      BY <2>2
    <3>3. entry = [nonce |-> nonce,
                   of |-> IF Newest(attempts).hashed THEN Newest(attempts).id ELSE 0,
                   resend |-> Newest(attempts).transfer /\ (\A r \in attempts : r.legible),
                   floor |-> Floors(attempts)]
      BY <1>4, <2>4 DEF Entry
    <3> HIDE DEF entry, attempts, queue, numbers, nonce
    <3>4. Newest(attempts) \in Row
      BY <2>4, <3>1, NewestIsARow
    <3>5. /\ Floors(attempts) \in Fees
          /\ \A r \in attempts : /\ r.fees.fee <= Floors(attempts).fee
                                /\ r.fees.tip <= Floors(attempts).tip
      BY <2>4, <3>1, FloorsAreAbove
    <3>6. /\ Newest(attempts).id \in Nat
          /\ (Newest(attempts).transfer /\ (\A r \in attempts : r.legible)) \in BOOLEAN
      BY <3>4 DEF Row
    <3>7. (IF Newest(attempts).hashed THEN Newest(attempts).id ELSE 0) \in Nat
      BY <3>6
    <3>8. entry \in Entries
      BY <2>2, <3>3, <3>5, <3>6, <3>7 DEF Entries
    <3>9. entry.nonce = nonce /\ entry.floor = Floors(attempts)
      BY <3>3
    <3>10. \A m \in rows : RowMined(m) => m.nonce < entry.nonce
      BY <2>2, <3>9 DEF StillWaits
    <3>11. \A r \in rows : RowWaiting(r) /\ r.nonce = entry.nonce =>
              r.fees.fee <= entry.floor.fee /\ r.fees.tip <= entry.floor.tip
      BY <3>2, <3>5, <3>9
    <3> QED BY <3>8, <3>10, <3>11
  <2> QED BY <2>3, <2>4
<1> HIDE DEF entry, attempts, queue, numbers, nonce
<1> QED BY <1>1, <1>3, <1>4

(* Marking a row replaced touches neither a mined one nor one that may mine. *)
LEMMA MarkingFits ==
  ASSUME NEW rows \in SUBSET Row
  PROVE  /\ MarkReplaced(rows) \in SUBSET Row
         /\ \A r \in MarkReplaced(rows) : \E q \in rows : r.time = q.time
         /\ \A m \in rows : RowMined(m) => m \in MarkReplaced(rows)
         /\ \A r \in rows : RowWaiting(r) /\ (\A m \in rows : RowMined(m) => m.nonce # r.nonce) =>
              r \in MarkReplaced(rows)
<1> DEFINE mark(r) == IF RowWaiting(r) /\ (\E m \in rows : RowMined(m) /\ m.nonce = r.nonce)
                      THEN [r EXCEPT !.status = "replaced"] ELSE r
<1>1. MarkReplaced(rows) = {mark(r) : r \in rows}
  BY DEF MarkReplaced
<1>2. \A r \in rows : [r EXCEPT !.status = "replaced"] \in Row
                     /\ [r EXCEPT !.status = "replaced"].time = r.time
  BY DEF Row
<1>3. \A r \in rows : mark(r) \in Row /\ mark(r).time = r.time
  BY <1>2
<1>4. \A m \in rows : RowMined(m) => mark(m) = m
  BY DEF RowMined, RowWaiting
<1>5. \A r \in rows : RowWaiting(r) /\ (\A m \in rows : RowMined(m) => m.nonce # r.nonce) => mark(r) = r
  OBVIOUS
<1> HIDE DEF mark
<1> QED BY <1>1, <1>3, <1>4, <1>5

-----------------------------------------------------------------------------
(* The steps.  Three groups of variables are kept apart: the ledger and the  *)
(* chain, the claim with its calls, and what is published.                   *)

LedgerOK == ledger \subseteq Row /\ stranded \subseteq Nat /\ mined \subseteq Nat /\ now \in Nat /\ LedgerFits

LegsOK ==
  /\ claim \in Claims(Nat, 1) /\ loading \in BOOLEAN /\ timer \in LapseTimers
  /\ calls \subseteq Call /\ CallsFit /\ ResendShowsSpinner

ScreenOK ==
  /\ dataGen \in Nat
  /\ blocked \in [entry : Entries, on : On] /\ BlockedFits
  /\ review \in Review \cup {None} /\ ReviewFits
  /\ pending \in Bid \cup {None}

UsedOK == used \in [clicks : Nat, turns : Nat]

LEMMA Parts == IInv <=> LedgerOK /\ LegsOK /\ ScreenOK /\ UsedOK
BY DEF IInv, TypeOK, LedgerOK, LegsOK, ScreenOK, UsedOK

LEMMA PartsAfter == LedgerOK' /\ LegsOK' /\ ScreenOK' /\ UsedOK' => IInv'
BY DEF IInv, TypeOK, LedgerOK, LegsOK, ScreenOK, UsedOK

LEMMA LedgerStays ==
  ASSUME LedgerOK, UNCHANGED chain
  PROVE  LedgerOK'
BY DEF LedgerOK, LedgerFits, chain

LEMMA LegsStay ==
  ASSUME LegsOK, UNCHANGED legs
  PROVE  LegsOK'
BY DEF LegsOK, CallsFit, ResendShowsSpinner, legs

LEMMA ScreenStays ==
  ASSUME ScreenOK, UNCHANGED <<dataGen, blocked, review, pending>>
  PROVE  ScreenOK'
BY DEF ScreenOK, BlockedFits, ReviewFits, ReviewOutbids, NothingPastIsReviewed, ReviewIsSelections

LEMMA UsedStays ==
  ASSUME UsedOK, UNCHANGED used \/ (\E what \in {"clicks", "turns"}, max \in Nat : Spend(what, max))
  PROVE  UsedOK'
BY DEF UsedOK, Spend

LEMMA ClickKeeps ==
  ASSUME IInv, ResendBlockedNonce
  PROVE  IInv'
<1> DEFINE call == [leg   |-> IF blocked.entry.of = 0 THEN "fees" ELSE "status",
                    entry |-> blocked.entry,
                    bid   |-> [nonce |-> blocked.entry.nonce, fees |-> blocked.entry.floor],
                    on    |-> blocked.on, gen |-> dataGen, slot |-> claim.ticket + 1]
<1>1. /\ blocked.entry.resend
      /\ claim' = Taken(claim, 1) /\ loading' = TRUE /\ timer' = "armed"
      /\ calls' = calls \cup {call}
      /\ UNCHANGED <<chain, dataGen, blocked, review, pending>>
      /\ Spend("clicks", MaxClicks)
  BY DEF ResendBlockedNonce
<1>2. claim' \in Claims(Nat, 1) /\ claim.ticket + 1 \in Nat
  BY <1>1, Parts DEF LegsOK, Claims, Taken
<1>3. call \in Call
  <2>1. blocked.entry \in Entries /\ blocked.on \in On /\ dataGen \in Nat
    BY Parts DEF ScreenOK
  <2>2. [nonce |-> blocked.entry.nonce, fees |-> blocked.entry.floor] \in Bid
    BY <2>1 DEF Entries, Bid
  <2> QED BY <1>2, <2>1, <2>2 DEF Call
<1>4. /\ Sound(call.entry, call.on) /\ call.bid.nonce = call.entry.nonce
      /\ call.leg # "quote"
  BY <1>1, Parts DEF ScreenOK, BlockedFits
<1> HIDE DEF call
<1>5. LegsOK'
  <2>1. CallsFit'
    BY <1>1, <1>4, Parts DEF LegsOK, CallsFit
  <2> QED BY <1>1, <1>2, <1>3, <2>1, Parts DEF LegsOK, ResendShowsSpinner, LapseTimers
<1>6. UsedOK'
  BY <1>1, Parts, UsedStays
<1> QED BY <1>1, <1>5, <1>6, Parts, PartsAfter, LedgerStays, ScreenStays

(* Giving a claim back, and handing it on to the next call. *)
LEMMA EndKeeps ==
  ASSUME LegsOK, NEW c \in calls, EndResend(c), UNCHANGED timer
  PROVE  LegsOK'
<1>1. /\ claim' = Released(claim, c.slot)
      /\ loading' = (loading /\ ~IsCurrent(claim, c.slot))
      /\ calls' = calls \ {c}
  BY DEF EndResend
<1>2. claim' \in Claims(Nat, 1)
  BY <1>1 DEF LegsOK, Claims, Released
<1>3. ResendShowsSpinner'
  <2>1. Busy(claim') => Busy(claim) /\ ~IsCurrent(claim, c.slot)
    BY <1>1 DEF LegsOK, Claims, Released, Busy, IsCurrent
  <2> QED BY <1>1, <2>1 DEF LegsOK, ResendShowsSpinner
<1>4. loading' \in BOOLEAN
  BY <1>1
<1> QED BY <1>1, <1>2, <1>3, <1>4 DEF LegsOK, CallsFit

LEMMA GoOnKeeps ==
  ASSUME LegsOK, NEW c \in calls, NEW next \in Call, GoOn(c, next), UNCHANGED timer,
         Sound(next.entry, next.on), next.bid.nonce = next.entry.nonce,
         next.leg = "quote" => Acceptable(next.bid, next.on)
  PROVE  LegsOK'
<1>1. calls' = (calls \ {c}) \cup {next} /\ UNCHANGED <<claim, loading>>
  BY DEF GoOn
<1>2. CallsFit'
  BY <1>1 DEF LegsOK, CallsFit
<1> QED BY <1>1, <1>2 DEF LegsOK, ResendShowsSpinner

LEMMA PriceKeeps ==
  ASSUME LegsOK, NEW c \in calls, PriceResend(c, {}), UNCHANGED timer
  PROVE  LegsOK'
<1> DEFINE next == [c EXCEPT !.leg = "fees", !.on = [c.on EXCEPT !.mined = @ \cup {}]]
<1>1. c \in Call /\ Sound(c.entry, c.on) /\ c.bid.nonce = c.entry.nonce /\ c.on \in On
  BY DEF LegsOK, CallsFit, Call
<1>2. [c.on EXCEPT !.mined = @ \cup {}] = c.on
  BY <1>1 DEF On
<1>3. next \in Call /\ next.on = c.on /\ next.entry = c.entry /\ next.bid = c.bid /\ next.leg = "fees"
  <2>1. next = [c EXCEPT !.leg = "fees", !.on = c.on]
    BY <1>2
  <2> HIDE DEF next
  <2> QED BY <1>1, <2>1 DEF Call
<1>4. GoOn(c, next)
  BY DEF PriceResend
<1> HIDE DEF next
<1> QED BY <1>1, <1>3, <1>4, GoOnKeeps

LEMMA StatusKeeps ==
  ASSUME IInv, NEW c \in calls, NEW answered \in BOOLEAN, StatusReply(c, answered),
         UNCHANGED <<stranded, mined, now, timer>>
  PROVE  LegsOK' /\ LedgerOK'
<1>1. LegsOK /\ LedgerOK
  BY Parts
<1>2. LegsOK'
  BY <1>1, EndKeeps, PriceKeeps DEF StatusReply, StatusSays
<1>3. CASE UNCHANGED ledger
  BY <1>1, <1>2, <1>3 DEF LedgerOK, LedgerFits
<1>4. CASE Learn(c.entry.of)
  <2> DEFINE learnt(r) == IF r.id = c.entry.of /\ c.entry.of \in mined
                          THEN [r EXCEPT !.status = "confirmed"] ELSE r
             f == [r \in ledger |-> learnt(r)]
  <2>1. ledger' = {learnt(r) : r \in ledger}
    BY <1>4 DEF Learn
  <2>2. \A r \in ledger : learnt(r) \in Row /\ learnt(r).time = r.time
    BY <1>1 DEF LedgerOK, Row
  <2> HIDE DEF learnt
  <2>3. f \in Surjection(ledger, ledger')
    BY <2>1 DEF Surjection
  <2>4. IsFiniteSet(ledger')
    BY <1>1, <2>3, FS_Surjection DEF LedgerOK, LedgerFits
  <2>5. ledger' \subseteq Row /\ \A r \in ledger' : r.time <= now
    BY <1>1, <2>1, <2>2 DEF LedgerOK, LedgerFits
  <2> QED BY <1>1, <1>2, <2>4, <2>5 DEF LedgerOK, LedgerFits
<1> QED BY <1>2, <1>3, <1>4 DEF StatusReply

(* The third call carries fees above every attempt the first was made on. *)
LEMMA FeesKeep ==
  ASSUME LegsOK, NEW c \in calls, NEW answered \in BOOLEAN, FeesReply(c, answered), UNCHANGED timer
  PROVE  LegsOK'
<1>1. CASE EndResend(c)
  BY <1>1, EndKeeps
<1>2. ASSUME NEW tier \in Tiers, Bumpable(c.entry.floor),
             GoOn(c, [c EXCEPT !.leg = "quote",
                               !.bid = [c.bid EXCEPT !.fees = ReplacementFees(tier, c.entry.floor)]])
      PROVE  LegsOK'
  <2> DEFINE fees == ReplacementFees(tier, c.entry.floor)
             bid == [c.bid EXCEPT !.fees = fees]
             next == [c EXCEPT !.leg = "quote", !.bid = bid]
  <2>1. /\ c \in Call /\ Sound(c.entry, c.on) /\ c.bid.nonce = c.entry.nonce
        /\ c.on \in On /\ c.entry.floor \in Fees /\ c.bid \in Bid /\ tier \in Fees
    BY DEF LegsOK, CallsFit, Call, Entries
  <2>2. fees \in Fees /\ fees.tip <= fees.fee
    <3>1. c.entry.floor.fee <= c.entry.floor.fee /\ c.entry.floor.tip <= c.entry.floor.tip
      BY <2>1 DEF Fees
    <3> QED BY <1>2, <2>1, <3>1, ReplacementOutbids
  <2>3. \A a \in c.on.attempts : Outbids(fees, a)
    <3> SUFFICES ASSUME NEW a \in c.on.attempts PROVE Outbids(fees, a)
      OBVIOUS
    <3>1. a \in Fees /\ a.fee <= c.entry.floor.fee /\ a.tip <= c.entry.floor.tip
      BY <2>1 DEF On, Sound
    <3> QED BY <1>2, <2>1, <3>1, ReplacementOutbids
  <2> HIDE DEF fees
  <2>4. bid \in Bid /\ bid.fees = fees /\ bid.nonce = c.entry.nonce
    BY <2>1, <2>2 DEF Bid
  <2>5. GoOn(c, next)
    BY <1>2 DEF fees
  <2> HIDE DEF bid
  <2>6. next \in Call /\ next.on = c.on /\ next.entry = c.entry /\ next.bid = bid
    BY <2>1, <2>4 DEF Call
  <2> HIDE DEF next
  <2> QED BY <2>1, <2>2, <2>3, <2>4, <2>5, <2>6, GoOnKeeps DEF Acceptable
<1> QED BY <1>1, <1>2 DEF FeesReply

LEMMA QuoteKeeps ==
  ASSUME IInv, NEW c \in calls, NEW answered \in BOOLEAN, QuoteReply(c, answered),
         UNCHANGED <<timer, dataGen, blocked, pending>>
  PROVE  LegsOK' /\ ScreenOK'
<1>1. LegsOK /\ ScreenOK
  BY Parts
<1>2. LegsOK'
  BY <1>1, EndKeeps DEF QuoteReply
<1>3. CASE review' = review
  BY <1>1, <1>2, <1>3, ScreenStays
<1>4. CASE ~Stale(c) /\ review' = [bid |-> c.bid, on |-> c.on, gen |-> c.gen]
  <2>1. /\ c \in Call /\ Sound(c.entry, c.on) /\ c.bid.nonce = c.entry.nonce
        /\ Acceptable(c.bid, c.on)
    BY <1>1 DEF QuoteReply, LegsOK, CallsFit
  <2>2. c.gen = dataGen /\ c.bid \in Bid /\ c.on \in On /\ c.gen \in Nat
    BY <1>4, <2>1 DEF Stale, Call
  <2>3. review' \in Review /\ review'.bid = c.bid /\ review'.on = c.on /\ review'.gen = c.gen
    BY <1>4, <2>2 DEF Review
  <2>4. ReviewFits'
    BY <2>1, <2>2, <2>3 DEF Sound, Acceptable, ReviewFits, ReviewOutbids, NothingPastIsReviewed, ReviewIsSelections
  <2> QED BY <1>1, <1>2, <2>3, <2>4 DEF ScreenOK, BlockedFits
<1> QED BY <1>3, <1>4 DEF QuoteReply

LEMMA CallbackKeeps ==
  ASSUME IInv, NEW c \in calls, NEW answered \in BOOLEAN, Callback(c, answered)
  PROVE  IInv'
<1>1. UNCHANGED <<stranded, mined, now, dataGen, blocked, timer, pending>>
  BY DEF Callback
<1>2. UsedOK'
  <2>1. UNCHANGED used \/ Spend("turns", MaxTurns)
    BY DEF Callback
  <2> QED BY <2>1, Parts, UsedStays
<1>3. CASE StatusReply(c, answered)
  BY <1>1, <1>2, <1>3, Parts, PartsAfter, StatusKeeps, ScreenStays DEF StatusReply
<1>4. CASE FeesReply(c, answered)
  <2>1. UNCHANGED chain /\ UNCHANGED review
    BY <1>1, <1>4 DEF FeesReply, chain
  <2> QED BY <1>1, <1>2, <1>4, <2>1, Parts, PartsAfter, FeesKeep, LedgerStays, ScreenStays
<1>5. CASE QuoteReply(c, answered)
  <2>1. UNCHANGED chain
    BY <1>1, <1>5 DEF QuoteReply, chain
  <2> QED BY <1>1, <1>2, <1>5, <2>1, Parts, PartsAfter, QuoteKeeps, LedgerStays
<1> QED BY <1>3, <1>4, <1>5 DEF Callback

LEMMA LapseKeeps ==
  ASSUME IInv, LapseAfterLoss \/ LapseBeforeReply
  PROVE  IInv'
<1>1. /\ claim' = Lapsed(claim)
      /\ UNCHANGED <<chain, dataGen, blocked, review, pending, loading, timer, calls>>
      /\ UNCHANGED used \/ Spend("turns", MaxTurns)
  BY DEF LapseAfterLoss, LapseBeforeReply, Lapse
<1>2. claim' \in Claims(Nat, 1) /\ ~Busy(claim')
  BY <1>1, Parts DEF LegsOK, Claims, Lapsed, Busy
<1>3. LegsOK'
  BY <1>1, <1>2, Parts DEF LegsOK, CallsFit, ResendShowsSpinner
<1>4. UsedOK'
  BY <1>1, Parts, UsedStays
<1> QED BY <1>1, <1>3, <1>4, Parts, PartsAfter, LedgerStays, ScreenStays

LEMMA TimerKeeps ==
  ASSUME IInv, LapseTimer
  PROVE  IInv'
<1>1. UNCHANGED <<chain, dataGen, blocked, review, pending, claim, calls, used>>
  BY DEF LapseTimer
<1>2. LegsOK'
  <2>1. CASE Busy(claim) /\ timer' = "early" /\ UNCHANGED loading
    BY <1>1, <2>1, Parts DEF LegsOK, CallsFit, ResendShowsSpinner, LapseTimers
  <2>2. CASE ~Busy(claim) /\ timer' = "none" /\ loading' = FALSE
    BY <1>1, <2>2, Parts DEF LegsOK, CallsFit, ResendShowsSpinner, LapseTimers
  <2> QED BY <2>1, <2>2 DEF LapseTimer
<1> QED BY <1>1, <1>2, Parts, PartsAfter, LedgerStays, ScreenStays, UsedStays

LEMMA LossKeeps ==
  ASSUME IInv, NEW c \in calls, LoseCallback(c)
  PROVE  IInv'
<1>1. /\ calls' = calls \ {c} /\ Spend("turns", MaxTurns)
      /\ UNCHANGED <<chain, dataGen, blocked, review, pending, claim, loading, timer>>
  BY DEF LoseCallback
<1>2. LegsOK'
  BY <1>1, Parts DEF LegsOK, CallsFit, ResendShowsSpinner
<1>3. UsedOK'
  BY <1>1, Parts, UsedStays
<1> QED BY <1>1, <1>2, <1>3, Parts, PartsAfter, LedgerStays, ScreenStays

LEMMA SubmitKeeps ==
  ASSUME IInv, NEW bid \in Bid, Submit(bid)
  PROVE  IInv'
<1>1. /\ pending' = bid /\ review' = None
      /\ UNCHANGED <<chain, dataGen, blocked, legs, used>>
  BY DEF Submit
<1>2. ScreenOK'
  BY <1>1, Parts DEF ScreenOK, BlockedFits, ReviewFits, ReviewOutbids, NothingPastIsReviewed, ReviewIsSelections
<1> QED BY <1>1, <1>2, Parts, PartsAfter, LedgerStays, LegsStay, UsedStays

LEMMA NextNonceIsNatural == LedgerOK => NextNonce \in Nat /\ Cardinality(ledger) \in Nat
<1> SUFFICES ASSUME LedgerOK PROVE NextNonce \in Nat /\ Cardinality(ledger) \in Nat
  OBVIOUS
<1> DEFINE nonces == {r.nonce : r \in ledger}
           f == [r \in ledger |-> r.nonce]
<1>1. IsFiniteSet(ledger) /\ IsFiniteSet(stranded)
  BY DEF LedgerOK, LedgerFits
<1>2. f \in Surjection(ledger, nonces)
  BY DEF Surjection
<1>3. IsFiniteSet(nonces)
  BY <1>1, <1>2, FS_Surjection
<1> HIDE DEF nonces
<1>4. IsFiniteSet(nonces \cup stranded)
  BY <1>1, <1>3, FS_Union
<1>5. NextNonce = Cardinality(nonces \cup stranded)
  BY DEF NextNonce, nonces
<1> QED BY <1>1, <1>4, <1>5, FS_CardinalityType

LEMMA SendKeeps ==
  ASSUME IInv, ConfirmReview \/ \E tier \in Tiers : SubmitTransfer(tier)
  PROVE  IInv'
<1>1. CASE ConfirmReview
  <2>1. review.bid \in Bid /\ Submit(review.bid)
    BY <1>1, Parts DEF ConfirmReview, ScreenOK, Review
  <2> QED BY <2>1, SubmitKeeps
<1>2. CASE \E tier \in Tiers : SubmitTransfer(tier)
  <2>1. PICK tier \in Tiers, nonce \in {NextNonce} \cup {r.nonce : r \in {a \in ledger : RowWaiting(a)}} :
          Submit([nonce |-> nonce, fees |-> tier])
    BY <1>2 DEF SubmitTransfer
  <2>2. nonce \in Nat /\ tier \in Fees
    BY Parts, NextNonceIsNatural DEF LedgerOK, Row
  <2>3. [nonce |-> nonce, fees |-> tier] \in Bid
    BY <2>2 DEF Bid
  <2> QED BY <2>1, <2>3, SubmitKeeps
<1> QED BY <1>1, <1>2

LEMMA EndOfSendKeeps ==
  ASSUME IInv, DismissResend \/ Declined
  PROVE  IInv'
<1>1. /\ review' \in {review, None} /\ pending' \in {pending, None}
      /\ UNCHANGED <<chain, dataGen, blocked, legs, used>>
  BY DEF DismissResend, Declined
<1>2. ScreenOK'
  BY <1>1, Parts DEF ScreenOK, BlockedFits, ReviewFits, ReviewOutbids, NothingPastIsReviewed, ReviewIsSelections
<1> QED BY <1>1, <1>2, Parts, PartsAfter, LedgerStays, LegsStay, UsedStays

LEMMA BroadcastKeeps ==
  ASSUME IInv, NEW make \in Makes, Broadcast(make)
  PROVE  IInv'
<1> DEFINE row == [id |-> Cardinality(ledger) + 1, nonce |-> pending.nonce, time |-> now,
                   fees |-> pending.fees, status |-> "pending", stalled |-> FALSE,
                   legible |-> make.legible, transfer |-> make.transfer, hashed |-> make.hashed]
<1>1. /\ pending # None /\ ledger' = ledger \cup {row} /\ pending' = None
      /\ UNCHANGED <<stranded, mined, now, dataGen, blocked, review, legs, used>>
  BY DEF Broadcast
<1>2. /\ pending \in Bid /\ Cardinality(ledger) \in Nat /\ now \in Nat
  BY <1>1, Parts, NextNonceIsNatural DEF ScreenOK, LedgerOK
<1>3. /\ make.legible \in BOOLEAN /\ make.transfer \in BOOLEAN /\ make.hashed \in BOOLEAN
  BY DEF Makes
<1>4. row \in Row /\ row.time <= now
  BY <1>2, <1>3 DEF Row, Bid
<1> HIDE DEF row
<1>5. LedgerOK'
  <2>1. IsFiniteSet(ledger')
    BY <1>1, Parts, FS_AddElement DEF LedgerOK, LedgerFits
  <2> QED BY <1>1, <1>4, <2>1, Parts DEF LedgerOK, LedgerFits
<1>6. ScreenOK'
  BY <1>1, Parts DEF ScreenOK, BlockedFits, ReviewFits, ReviewOutbids, NothingPastIsReviewed, ReviewIsSelections
<1> QED BY <1>1, <1>5, <1>6, Parts, PartsAfter, LegsStay, UsedStays

LEMMA StrandsKeeps ==
  ASSUME IInv, Strands
  PROVE  IInv'
<1>1. /\ stranded' = {NextNonce}
      /\ UNCHANGED <<ledger, mined, now, dataGen, blocked, review, pending, legs, used>>
  BY DEF Strands
<1>2. LedgerOK'
  BY <1>1, Parts, NextNonceIsNatural, FS_Singleton DEF LedgerOK, LedgerFits
<1> QED BY <1>1, <1>2, Parts, PartsAfter, LegsStay, ScreenStays, UsedStays

(* A row of the ledger changes in what it says of itself, never in its time. *)
LEMMA RowKeeps ==
  ASSUME IInv, NEW r \in ledger, NEW s \in Row, s.time = r.time,
         ledger' = (ledger \ {r}) \cup {s},
         UNCHANGED <<stranded, mined, now, dataGen, blocked, review, pending, legs, used>>
  PROVE  IInv'
<1>1. IsFiniteSet(ledger')
  <2>1. IsFiniteSet(ledger \ {r})
    BY Parts, FS_RemoveElement DEF LedgerOK, LedgerFits
  <2> QED BY <2>1, FS_AddElement
<1>2. LedgerOK'
  BY <1>1, Parts DEF LedgerOK, LedgerFits
<1> QED BY <1>2, Parts, PartsAfter, LegsStay, ScreenStays, UsedStays

LEMMA LedgerKeeps ==
  ASSUME IInv, NEW r \in ledger, SenderLearns(r) \/ Stalls(r)
  PROVE  IInv'
<1>1. r \in Row
  BY Parts DEF LedgerOK
<1>2. ASSUME NEW status \in {"confirmed", "replaced"}, Settles(r, status)
      PROVE  IInv'
  <2>1. [r EXCEPT !.status = status] \in Row /\ [r EXCEPT !.status = status].time = r.time
    BY <1>1 DEF Row
  <2> QED BY <1>2, <2>1, RowKeeps DEF Settles
<1>3. CASE Stalls(r)
  <2>1. [r EXCEPT !.stalled = TRUE] \in Row /\ [r EXCEPT !.stalled = TRUE].time = r.time
    BY <1>1 DEF Row
  <2> QED BY <1>3, <2>1, RowKeeps DEF Stalls
<1> QED BY <1>2, <1>3 DEF SenderLearns

LEMMA ChainKeeps ==
  ASSUME IInv, TimePasses \/ \E r \in ledger : Mines(r)
  PROVE  IInv'
<1>1. UNCHANGED <<ledger, stranded, dataGen, blocked, review, pending, legs, used>>
  BY DEF TimePasses, Mines
<1>2. LedgerOK'
  <2>1. CASE TimePasses
    <3>1. now' = now + 1 /\ mined' = mined /\ now \in Nat
      BY <2>1, Parts DEF TimePasses, LedgerOK
    <3>2. \A r \in ledger : r.time <= now'
      BY <3>1, Parts DEF LedgerOK, LedgerFits, Row
    <3> QED BY <1>1, <3>1, <3>2, Parts DEF LedgerOK, LedgerFits
  <2>2. CASE \E r \in ledger : Mines(r)
    <3>1. PICK r \in ledger : mined' = mined \cup {r.id} /\ now' = now
      BY <2>2 DEF Mines
    <3>2. r.id \in Nat
      BY Parts DEF LedgerOK, Row
    <3> QED BY <1>1, <3>1, <3>2, Parts DEF LedgerOK, LedgerFits
  <2> QED BY <2>1, <2>2
<1> QED BY <1>1, <1>2, Parts, PartsAfter, LegsStay, ScreenStays, UsedStays

(* What a history publishes is sound by EntryFits. *)
LEMMA HistoryKeeps ==
  ASSUME IInv, HistoryRead \/ HistoryRefused
  PROVE  IInv'
<1>1. UNCHANGED <<chain, dataGen, review, pending, legs, used>>
  BY DEF HistoryRead, HistoryRefused
<1>2. blocked' \in [entry : Entries, on : On] /\ BlockedFits'
  <2>1. CASE HistoryRefused
    <3>1. blocked' = NotBlocked /\ {} \subseteq Fees /\ {} \subseteq Nat
      BY <2>1 DEF HistoryRefused
    <3> QED BY <3>1, NoEntryIsOne DEF NotBlocked, On, BlockedFits
  <2>2. CASE HistoryRead
    <3> DEFINE rows == MarkReplaced(ledger)
               entry == BlockedNonces(rows, stranded, now)
               attempts == {r.fees : r \in {a \in ledger : RowWaiting(a) /\ a.nonce = entry.nonce}}
               past == {r.nonce : r \in {a \in ledger : RowMined(a)}}
    <3>1. blocked' = [entry |-> entry, on |-> [attempts |-> attempts, mined |-> past]]
      BY <2>2 DEF HistoryRead, Publish
    <3>2. ledger \in SUBSET Row /\ stranded \in SUBSET Nat /\ now \in Nat /\ \A r \in ledger : r.time <= now
      BY Parts DEF LedgerOK, LedgerFits
    <3>3. attempts \subseteq Fees /\ past \subseteq Nat
      BY <3>2 DEF Row
    <3>4. /\ rows \in SUBSET Row /\ \A r \in rows : r.time <= now
          /\ \A m \in ledger : RowMined(m) => m \in rows
          /\ \A r \in ledger : RowWaiting(r) /\ (\A m \in ledger : RowMined(m) => m.nonce # r.nonce) =>
               r \in rows
      BY <3>2, MarkingFits
    <3> HIDE DEF rows
    <3>5. /\ entry \in Entries
          /\ entry.resend =>
               /\ \A m \in rows : RowMined(m) => m.nonce < entry.nonce
               /\ \A r \in rows : RowWaiting(r) /\ r.nonce = entry.nonce =>
                    r.fees.fee <= entry.floor.fee /\ r.fees.tip <= entry.floor.tip
      BY <3>2, <3>4, EntryFits
    <3>6. ASSUME entry.resend PROVE Sound(entry, [attempts |-> attempts, mined |-> past])
      <4>1. \A n \in past : n < entry.nonce
        BY <3>4, <3>5, <3>6
      <4>2. \A r \in ledger : RowWaiting(r) /\ r.nonce = entry.nonce => r \in rows
        <5>1. \A m \in ledger : RowMined(m) => m.nonce \in Nat /\ m.nonce < entry.nonce
          BY <3>2, <3>4, <3>5, <3>6 DEF Row
        <5>2. \A m \in ledger : RowMined(m) => m.nonce # entry.nonce
          BY <5>1
        <5> QED BY <3>4, <5>2
      <4>3. \A a \in attempts : a.fee <= entry.floor.fee /\ a.tip <= entry.floor.tip
        BY <3>5, <3>6, <4>2
      <4> HIDE DEF attempts, past, entry
      <4> QED BY <4>1, <4>3 DEF Sound
    <3> HIDE DEF entry, attempts, past
    <3> QED BY <3>1, <3>3, <3>5, <3>6 DEF On, BlockedFits
  <2> QED BY <2>1, <2>2
<1>3. ScreenOK'
  BY <1>1, <1>2, Parts DEF ScreenOK, ReviewFits, ReviewOutbids, NothingPastIsReviewed, ReviewIsSelections
<1> QED BY <1>1, <1>3, Parts, PartsAfter, LedgerStays, LegsStay, UsedStays

LEMMA MoveKeeps ==
  ASSUME IInv, MoveSelection
  PROVE  IInv'
<1>1. /\ dataGen' = dataGen + 1 /\ blocked' = NotBlocked /\ review' = None
      /\ UNCHANGED <<chain, pending, legs>> /\ Spend("turns", MaxTurns)
  BY DEF MoveSelection
<1>2. ScreenOK'
  <2>1. {} \subseteq Fees /\ {} \subseteq Nat /\ dataGen \in Nat /\ pending \in Bid \cup {None}
    BY Parts DEF ScreenOK
  <2>2. blocked' \in [entry : Entries, on : On] /\ BlockedFits'
    BY <1>1, <2>1, NoEntryIsOne DEF NotBlocked, On, BlockedFits
  <2>3. dataGen' \in Nat
    BY <1>1, <2>1
  <2> QED BY <1>1, <2>1, <2>2, <2>3
       DEF ScreenOK, ReviewFits, ReviewOutbids, NothingPastIsReviewed, ReviewIsSelections
<1>3. UsedOK'
  BY <1>1, Parts, UsedStays
<1> QED BY <1>1, <1>2, <1>3, Parts, PartsAfter, LedgerStays, LegsStay

LEMMA InitFits == Init => IInv
<1> SUFFICES ASSUME Init PROVE IInv
  OBVIOUS
<1>1. LedgerOK
  BY FS_EmptySet DEF Init, LedgerOK, LedgerFits
<1>2. LegsOK
  <2>1. FreeClaim \in Claims(Nat, 1) /\ ~Busy(FreeClaim)
    BY DEF Claims, FreeClaim, Busy
  <2> QED BY <2>1 DEF Init, LegsOK, CallsFit, ResendShowsSpinner, LapseTimers
<1>3. ScreenOK
  <2>1. {} \subseteq Fees /\ {} \subseteq Nat
    OBVIOUS
  <2>2. blocked \in [entry : Entries, on : On] /\ BlockedFits
    BY <2>1, NoEntryIsOne DEF Init, NotBlocked, On, BlockedFits
  <2> QED BY <2>2 DEF Init, ScreenOK, ReviewFits, ReviewOutbids, NothingPastIsReviewed, ReviewIsSelections
<1>4. UsedOK
  BY DEF Init, UsedOK
<1> QED BY <1>1, <1>2, <1>3, <1>4, Parts

LEMMA StepKeeps == IInv /\ [Next]_vars => IInv'
<1> SUFFICES ASSUME IInv, [Next]_vars PROVE IInv'
  OBVIOUS
<1>1. CASE ResendBlockedNonce
  BY <1>1, ClickKeeps
<1>2. CASE \E c \in calls, answered \in BOOLEAN : Callback(c, answered)
  BY <1>2, CallbackKeeps
<1>3. CASE LapseAfterLoss \/ LapseBeforeReply
  BY <1>3, LapseKeeps
<1>4. CASE LapseTimer
  BY <1>4, TimerKeeps
<1>5. CASE \E c \in calls : LoseCallback(c)
  BY <1>5, LossKeeps
<1>6. CASE ConfirmReview \/ \E tier \in Tiers : SubmitTransfer(tier)
  BY <1>6, SendKeeps
<1>7. CASE DismissResend \/ Declined
  BY <1>7, EndOfSendKeeps
<1>8. CASE \E make \in Makes : Broadcast(make)
  BY <1>8, BroadcastKeeps
<1>9. CASE Strands
  BY <1>9, StrandsKeeps
<1>10. CASE \E r \in ledger : SenderLearns(r) \/ Stalls(r)
  BY <1>10, LedgerKeeps
<1>11. CASE TimePasses \/ \E r \in ledger : Mines(r)
  BY <1>11, ChainKeeps
<1>12. CASE HistoryRead \/ HistoryRefused
  BY <1>12, HistoryKeeps
<1>13. CASE MoveSelection
  BY <1>13, MoveKeeps
<1>14. CASE UNCHANGED vars
  <2>1. UNCHANGED chain /\ UNCHANGED legs /\ UNCHANGED <<dataGen, blocked, review, pending>> /\ UNCHANGED used
    BY <1>14 DEF vars
  <2> QED BY <2>1, Parts, PartsAfter, LedgerStays, LegsStay, ScreenStays, UsedStays
<1> QED
  BY <1>1, <1>2, <1>3, <1>4, <1>5, <1>6, <1>7, <1>8, <1>9, <1>10, <1>11, <1>12, <1>13, <1>14 DEF Next

LEMMA Inductive == Spec => []IInv
BY InitFits, StepKeeps, PTL DEF Spec

(* The ledger, the entry, the calls and the review stay in their types: no   *)
(* fee of a replacement leaves what a quint64 holds.                         *)
THEOREM TypeCorrect == Spec => []TypeOK
<1>1. IInv => TypeOK
  BY DEF IInv
<1> QED BY <1>1, Inductive, PTL

(* Every review is a tenth above every attempt the history showed waiting at *)
(* its nonce, for any ledger and any tiers (blockedNonces, then the three    *)
(* calls of resendBlockedNonce, then replacementFees).                       *)
THEOREM ReviewAlwaysOutbids == Spec => []ReviewOutbids
<1>1. IInv => ReviewOutbids
  BY DEF IInv, ReviewFits
<1> QED BY <1>1, Inductive, PTL

(* No review stands at a nonce its own history, or the status it was checked *)
(* by, had said was mined (stillWaits, and the first call's answer).         *)
THEOREM NothingPastIsEverReviewed == Spec => []NothingPastIsReviewed
<1>1. IInv => NothingPastIsReviewed
  BY DEF IInv, ReviewFits
<1> QED BY <1>1, Inductive, PTL

(* A review is of the selection on screen: m_dataGen is asked about on each  *)
(* of the three replies, and a move withdraws the review there is.           *)
THEOREM ReviewIsAlwaysSelections == Spec => []ReviewIsSelections
<1>1. IInv => ReviewIsSelections
  BY DEF IInv, ReviewFits
<1> QED BY <1>1, Inductive, PTL

(* The button stays shut while any of the three calls holds the claim        *)
(* (isCurrent before setResendLoading, busy() in the timer).                 *)
THEOREM ResendAlwaysSpins == Spec => []ResendShowsSpinner
<1>1. IInv => ResendShowsSpinner
  BY DEF IInv
<1> QED BY <1>1, Inductive, PTL

(* A leg that ends the resend gives the claim back and opens the button; one *)
(* that goes on leaves the next in its place.                                *)
LEMMA LegTends ==
  ASSUME IInv, LapseIsArmed, NEW c \in calls, UNCHANGED timer,
         EndResend(c) \/ \E next : next.slot = c.slot /\ GoOn(c, next)
  PROVE  LapseIsArmed' /\ (Attended => Attended')
<1>t. claim \in Claims(Nat, 1)
  BY DEF IInv, TypeOK
<1>1. CASE EndResend(c)
  <2>1. claim'.ticket = claim.ticket /\ claim'.held = (claim.held /\ c.slot # claim.ticket)
    BY <1>t, <1>1 DEF EndResend, Released, Claims
  <2>2. CASE c.slot = claim.ticket
    BY <1>1, <2>1, <2>2 DEF EndResend, IsCurrent, LapseIsArmed, Attended
  <2>3. CASE c.slot # claim.ticket
    <3>1. OwnCallOut => OwnCallOut'
      BY <1>1, <2>1, <2>3 DEF EndResend, OwnCallOut, IsCurrent
    <3>2. (loading' <=> loading) /\ (claim'.held <=> claim.held)
      BY <1>1, <2>1, <2>3 DEF EndResend, IsCurrent
    <3> QED BY <3>1, <3>2 DEF LapseIsArmed, Attended
  <2> QED BY <2>2, <2>3
<1>2. CASE \E next : next.slot = c.slot /\ GoOn(c, next)
  <2>1. OwnCallOut => OwnCallOut'
    BY <1>2 DEF GoOn, OwnCallOut, IsCurrent
  <2> QED BY <1>t, <1>2, <2>1 DEF GoOn, LapseIsArmed, Attended
<1> QED BY <1>1, <1>2

LEMMA ReplyTends ==
  ASSUME IInv, LapseIsArmed, NEW c \in calls, NEW answered \in BOOLEAN, Callback(c, answered)
  PROVE  LapseIsArmed' /\ (Attended => Attended')
<1>1. UNCHANGED timer
  BY DEF Callback
<1>2. c \in Call
  BY DEF IInv, TypeOK
<1>3. CASE StatusReply(c, answered)
  <2>1. CASE EndResend(c)
    BY <1>1, <2>1, LegTends
  <2>2. CASE PriceResend(c, {})
    <3>1. PICK next : next = [c EXCEPT !.leg = "fees", !.on = [c.on EXCEPT !.mined = @ \cup {}]]
      OBVIOUS
    <3>2. next.slot = c.slot /\ GoOn(c, next)
      BY <1>2, <2>2, <3>1 DEF PriceResend, Call
    <3> QED BY <1>1, <3>2, LegTends
  <2> QED BY <1>3, <2>1, <2>2 DEF StatusReply, StatusSays
<1>4. CASE FeesReply(c, answered)
  <2>1. CASE EndResend(c)
    BY <1>1, <2>1, LegTends
  <2>2. ASSUME NEW fees,
               GoOn(c, [c EXCEPT !.leg = "quote", !.bid = [c.bid EXCEPT !.fees = fees]])
        PROVE  LapseIsArmed' /\ (Attended => Attended')
    <3>1. PICK next : next = [c EXCEPT !.leg = "quote", !.bid = [c.bid EXCEPT !.fees = fees]]
      OBVIOUS
    <3>2. next.slot = c.slot /\ GoOn(c, next)
      BY <1>2, <2>2, <3>1 DEF Call
    <3> QED BY <1>1, <3>2, LegTends
  <2> QED BY <1>4, <2>1, <2>2 DEF FeesReply
<1>5. CASE QuoteReply(c, answered)
  BY <1>1, <1>5, LegTends DEF QuoteReply
<1> QED BY <1>3, <1>4, <1>5 DEF Callback

LEMMA StepTends ==
  ASSUME IInv, LapseIsArmed, [Next]_vars
  PROVE  /\ LapseIsArmed'
         /\ Attended => Attended' \/ \E c \in calls : IsCurrent(claim, c.slot) /\ LoseCallback(c)
<1>t. claim \in Claims(Nat, 1)
  BY DEF IInv, TypeOK
<1>1. CASE ResendBlockedNonce
  <2>1. PICK call : /\ call = [leg   |-> IF blocked.entry.of = 0 THEN "fees" ELSE "status",
                               entry |-> blocked.entry,
                               bid   |-> [nonce |-> blocked.entry.nonce, fees |-> blocked.entry.floor],
                               on    |-> blocked.on, gen |-> dataGen, slot |-> claim.ticket + 1]
    OBVIOUS
  <2>2. call \in calls' /\ claim' = Taken(claim, 1) /\ timer' = "armed"
    BY <1>1, <2>1 DEF ResendBlockedNonce
  <2>3. claim'.ticket = call.slot
    BY <2>1, <2>2 DEF Taken
  <2> QED BY <2>2, <2>3 DEF LapseIsArmed, Attended, OwnCallOut, IsCurrent
<1>2. CASE \E c \in calls, answered \in BOOLEAN : Callback(c, answered)
  BY <1>2, ReplyTends
<1>3. CASE LapseAfterLoss \/ LapseBeforeReply
  <2>1. claim' = Lapsed(claim) /\ UNCHANGED <<loading, timer, calls>>
    BY <1>3 DEF LapseAfterLoss, LapseBeforeReply, Lapse
  <2>2. claim'.held = claim.held /\ claim'.ticket = claim.ticket
    BY <1>t, <2>1 DEF Lapsed, Claims
  <2>3. OwnCallOut => OwnCallOut'
    BY <2>1, <2>2 DEF OwnCallOut, IsCurrent
  <2> QED BY <2>1, <2>2, <2>3 DEF LapseIsArmed, Attended
<1>4. CASE LapseTimer
  <2>1. UNCHANGED <<claim, calls>> /\ OwnCallOut' = OwnCallOut
    BY <1>4 DEF LapseTimer, OwnCallOut
  <2>2. loading' => timer' = "early" /\ claim.held
    BY <1>4 DEF LapseTimer, Busy
  <2> QED BY <2>1, <2>2 DEF LapseIsArmed, Attended
<1>5. ASSUME NEW c \in calls, LoseCallback(c)
      PROVE  /\ LapseIsArmed'
             /\ Attended => Attended' \/ \E d \in calls : IsCurrent(claim, d.slot) /\ LoseCallback(d)
  <2>1. UNCHANGED <<claim, loading, timer>> /\ calls' = calls \ {c}
    BY <1>5 DEF LoseCallback
  <2>2. CASE IsCurrent(claim, c.slot)
    BY <1>5, <2>1, <2>2 DEF LapseIsArmed
  <2>3. CASE ~IsCurrent(claim, c.slot)
    BY <2>1, <2>3 DEF LapseIsArmed, Attended, OwnCallOut, IsCurrent
  <2> QED BY <2>2, <2>3
<1>6. CASE UNCHANGED legs
  BY <1>6 DEF legs, LapseIsArmed, Attended, OwnCallOut
<1> QED BY <1>1, <1>2, <1>3, <1>4, <1>5, <1>6
  DEF Next, ConfirmReview, Submit, SubmitTransfer, DismissResend, Broadcast, Declined, Strands, Mines,
      SenderLearns, Settles, Stalls, TimePasses, HistoryRead, HistoryRefused, MoveSelection, vars

(* A shut button has its timer to come, or had it spent on a claim that is   *)
(* still held; and a held claim has a leg of its own out until that very leg *)
(* is lost.  Only an early timer and a lost leg, both of one claim, leave    *)
(* the button shut for good (resendBlockedNonce, beginClaim).                *)
THEOREM LapseStaysArmed == Spec => []LapseIsArmed /\ LossAloneNeglects
<1>1. Init => LapseIsArmed
  BY DEF Init, LapseIsArmed
<1>2. IInv /\ LapseIsArmed /\ [Next]_vars
        => /\ LapseIsArmed'
           /\ [Attended => Attended' \/ \E c \in calls : IsCurrent(claim, c.slot) /\ LoseCallback(c)]_vars
  BY StepTends
<1> QED BY <1>1, <1>2, Inductive, PTL DEF Spec, LossAloneNeglects
=============================================================================

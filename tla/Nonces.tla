------------------------------- MODULE Nonces -------------------------------
(***************************************************************************)
(* What the history of an account says about the nonces of one chain:      *)
(* which number holds the queue up, what it would take to replace it, and  *)
(* the fees of the replacement.  Rows are the history's, as a set; fees    *)
(* are in wei.                                                             *)
(***************************************************************************)
EXTENDS Naturals, FiniteSets

CONSTANTS kStuckNonceSecs,  \* how long the lowest waiting nonce may sit
          kMaxBumpable,     \* fees beyond which nothing is replaced
          MaxWei            \* what a quint64 holds

Bump(x) == x + x \div 10 + 1

ASSUME NonceAssumption ==
  /\ {kStuckNonceSecs, kMaxBumpable, MaxWei} \subseteq Nat
  /\ Bump(kMaxBumpable) <= MaxWei

Fees == [fee : 0 .. MaxWei, tip : 0 .. MaxWei]

(* `legible`: the view can read both fees.  `transfer`: its meta describes a *)
(* transfer that can be made again.  `hashed`: it is known by its hash.      *)
Row == [id : Nat, nonce : Nat, time : Nat, fees : Fees,
        status : {"pending", "unknown", "confirmed", "failed", "replaced"},
        stalled : BOOLEAN, legible : BOOLEAN, transfer : BOOLEAN, hashed : BOOLEAN]

RowMined(r) == r.status \in {"confirmed", "failed"}

RowWaiting(r) == r.status \in {"pending", "unknown"}

(* A waiting row whose nonce another row has mined never will be. *)
MarkReplaced(rows) ==
  {IF RowWaiting(r) /\ (\E m \in rows : RowMined(m) /\ m.nonce = r.nonce)
   THEN [r EXCEPT !.status = "replaced"] ELSE r : r \in rows}

(* Nonces are used in order: at or below a mined one, nothing waits. *)
StillWaits(nonce, rows) == \A m \in rows : RowMined(m) => m.nonce < nonce

Greatest(numbers) == CHOOSE n \in numbers : \A m \in numbers : m <= n

Least(numbers) == CHOOSE n \in numbers : \A m \in numbers : n <= m

Newest(rows) == CHOOSE r \in rows : \A s \in rows : s.time <= r.time

(* The newest attempt decides, once it is old enough, if sends queue behind  *)
(* it or it has stalled; a number nobody used, once a send has waited on it. *)
Stuck(attempts, later, now) ==
  \/ /\ attempts = {}
     /\ \E r \in later : now >= r.time + kStuckNonceSecs
  \/ /\ attempts # {}
     /\ now >= Newest(attempts).time + kStuckNonceSecs
     /\ later # {} \/ Newest(attempts).stalled

(* Mutated form of Floors: the attempt that decides sets the floor alone. *)
BrokenFloors(attempts) == Newest(attempts).fees

(* Every attempt sets the floor, field by field. *)
Floors(attempts) == [fee |-> Greatest({r.fees.fee : r \in attempts}),
                     tip |-> Greatest({r.fees.tip : r \in attempts})]

(* `of` is the attempt that decides, or 0 where it is not known by its hash. *)
NoEntry == [nonce |-> 0, of |-> 0, resend |-> FALSE, floor |-> [fee |-> 0, tip |-> 0]]

Entry(nonce, attempts) ==
  IF attempts = {} THEN [NoEntry EXCEPT !.nonce = nonce]
  ELSE [nonce  |-> nonce,
        of     |-> IF Newest(attempts).hashed THEN Newest(attempts).id ELSE 0,
        resend |-> Newest(attempts).transfer /\ (\A r \in attempts : r.legible),
        floor  |-> Floors(attempts)]

(* blockedNonces, for the rows and the stranded numbers of one chain. *)
BlockedNonces(rows, stranded, now) ==
  LET queue    == {r \in rows : RowWaiting(r) /\ StillWaits(r.nonce, rows)}
      numbers  == {r.nonce : r \in queue} \cup {n \in stranded : StillWaits(n, rows)}
      attempts == {r \in queue : r.nonce = Least(numbers)}
  IN  IF numbers # {} /\ Stuck(attempts, queue \ attempts, now)
      THEN Entry(Least(numbers), attempts)
      ELSE NoEntry

Larger(a, b) == IF a < b THEN b ELSE a

Bumpable(floor) == floor.fee <= kMaxBumpable /\ floor.tip <= kMaxBumpable

(* For a floor that is Bumpable; beyond it the resend is refused. *)
ReplacementFees(tier, floor) ==
  LET tip == Larger(tier.tip, Bump(floor.tip))
  IN  [fee |-> Larger(Larger(tier.fee, Bump(floor.fee)), tip), tip |-> tip]

(* What nodes ask of a replacement, in integers: a tenth more on both fields. *)
Outbids(bid, other) ==
  /\ 10 * bid.fee >= 11 * other.fee /\ bid.fee > other.fee
  /\ 10 * bid.tip >= 11 * other.tip /\ bid.tip > other.tip
=============================================================================

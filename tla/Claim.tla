------------------------------- MODULE Claim -------------------------------
(***************************************************************************)
(* The expiring claim every asynchronous call of the wallet view is made   *)
(* under (InFlight), and the lane that coalesces one re-run behind it      *)
(* (AsyncLane).                                                            *)
(*                                                                         *)
(* A claim is [held, left, ticket].  The code's QDeadlineTimer is `left`,  *)
(* the time until it expires: a timed model counts it down, an untimed one *)
(* takes a budget of 1 and lets it lapse at any moment.                    *)
(***************************************************************************)
EXTENDS Naturals, FiniteSets

Claims(Tickets, Budget) == [held : BOOLEAN, left : 0 .. Budget, ticket : Tickets]

FreeClaim == [held |-> FALSE, left |-> 0, ticket |-> 0]

Busy(c) == c.held /\ c.left > 0

(* The claim a successful take leaves; its guard is ~Busy(c). *)
Taken(c, budget) == [held |-> TRUE, left |-> budget, ticket |-> c.ticket + 1]

(* Tickets count up in the code, and are only ever compared for equality: a  *)
(* model that takes claims without end takes one again that no call holds.   *)
UnheldTicket(slots) ==
  CHOOSE t \in 0 .. Cardinality(slots) : t \notin slots

TakenAgain(budget, slots) ==
  [held |-> TRUE, left |-> budget, ticket |-> UnheldTicket(slots)]

Released(c, slot) == [c EXCEPT !.held = @ /\ slot # c.ticket]

(* Mutated form of IsCurrent: a claim that was taken over still counts. *)
BrokenIsCurrent(c, slot) == slot <= c.ticket

IsCurrent(c, slot) == slot = c.ticket

(* The deadline passing with the call still out. *)
Lapsed(c) == [c EXCEPT !.left = 0]

(* The one-shot timer armed with a claim, a millisecond past its deadline.   *)
(* Qt makes it coarse at these intervals, so that it may fire before the     *)
(* deadline: it finds its claim busy, does nothing and is not armed again.   *)
(* Timers of earlier claims are due before the latest one, and as long as it *)
(* is to come they do nothing that it would not.                             *)
LapseTimers == {"none", "armed", "early"}

=============================================================================

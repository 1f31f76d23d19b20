------------------------------- MODULE Screen -------------------------------
(***************************************************************************)
(* What the wallet's screen promises about balances and history, with no   *)
(* calls, claims, tickets or generations: at every instant a figure on it  *)
(* was read for the selection on it, since that selection was made, and    *)
(* never replaces a newer one.  A move of the selection takes every figure *)
(* down in the same instant.                                               *)
(***************************************************************************)
EXTENDS Naturals

CONSTANTS Accounts, NoAccount, Chains, NoChain, Unknown, NoRows

VARIABLES account, chain, fresh, balances, history, floor, world

selection == <<account, chain>>
figures   == <<balances, history>>
vars      == <<selection, fresh, figures, floor, world>>

Init ==
  /\ selection = <<NoAccount, NoChain>>
  /\ figures = <<Unknown, Unknown>>
  /\ fresh = FALSE
  /\ floor = [balances |-> 0, history |-> 0]
  /\ world = 0

MoveSelection ==
  /\ selection' # selection
  /\ account' \in Accounts \cup {NoAccount}
  /\ chain' \in Chains \cup {NoChain}
  /\ fresh' = FALSE
  /\ figures' = <<Unknown, Unknown>>
  /\ floor' = [balances |-> world, history |-> world]
  /\ UNCHANGED world

(* With no account selected the answer is known without a read. *)
ShowNobody ==
  /\ account = NoAccount
  /\ fresh' = TRUE
  /\ figures' = <<Unknown, NoRows>>
  /\ UNCHANGED <<selection, floor, world>>

ShowBalances ==
  /\ account \in Accounts
  /\ fresh' = TRUE
  /\ \E v \in floor.balances .. world :
        /\ balances' = [who |-> account, chain |-> chain, read |-> v]
        /\ floor' = [floor EXCEPT !.balances = v]
  /\ UNCHANGED <<selection, history, world>>

RefuseBalances ==
  /\ account \in Accounts
  /\ fresh' = TRUE
  /\ balances' = Unknown
  /\ UNCHANGED <<selection, history, floor, world>>

ShowHistory ==
  /\ account \in Accounts
  /\ \E v \in floor.history .. world, due \in BOOLEAN :
        /\ history' = [who |-> account, chain |-> chain, read |-> v, stillDue |-> due]
        /\ floor' = [floor EXCEPT !.history = v]
  /\ UNCHANGED <<selection, fresh, balances, world>>

RefuseHistory ==
  /\ account \in Accounts
  /\ history' = Unknown
  /\ UNCHANGED <<selection, fresh, balances, floor, world>>

WorldMoves ==
  /\ world' = world + 1
  /\ UNCHANGED <<selection, fresh, figures, floor>>

Next ==
  \/ MoveSelection
  \/ ShowNobody
  \/ ShowBalances
  \/ RefuseBalances
  \/ ShowHistory
  \/ RefuseHistory
  \/ WorldMoves

Spec == Init /\ [][Next]_vars
=============================================================================

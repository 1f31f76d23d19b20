------------------------------- MODULE Scope -------------------------------
(***************************************************************************)
(* The account-and-chain-scoped part of what the wallet shows, and the     *)
(* pure transitions that are the only writers of it (ScopedState).         *)
(*                                                                         *)
(* A published figure is its provenance: the account and chain it was      *)
(* read for, and the version of the world it was read from.  Unknown is    *)
(* the empty string ("not read yet"), NoRows is "[]" ("this account has    *)
(* no rows"): the two are never the same answer.                           *)
(***************************************************************************)
EXTENDS Naturals

CONSTANTS Accounts, NoAccount, Chains, NoChain, Unknown, NoRows

Whos   == Accounts \cup {NoAccount}
Nets   == Chains \cup {NoChain}
Figure == [who : Whos, chain : Nets, read : Nat]
Rows   == [who : Whos, chain : Nets, read : Nat, stillDue : BOOLEAN]

ASSUME ScopeAssumption ==
  /\ NoAccount \notin Accounts
  /\ NoChain \notin Chains
  /\ Unknown \notin Figure \cup Rows
  /\ NoRows \notin Figure \cup Rows \cup {Unknown}

ScopedStates == [account  : Whos,
                 chain    : Nets,
                 fresh    : BOOLEAN,
                 balances : Figure \cup {Unknown},
                 history  : Rows \cup {Unknown, NoRows}]

Blank(who, net) == [account |-> who, chain |-> net, fresh |-> FALSE,
                    balances |-> Unknown, history |-> Unknown]

Moves(s, who, net) == s.account # who \/ s.chain # net

(* Mutated form of EnterScope: the old history is kept. *)
BrokenEnterScope(s, who, net) ==
  IF Moves(s, who, net) THEN [Blank(who, net) EXCEPT !.history = s.history] ELSE s

(* Move the selection, withdrawing everything that no longer describes it. *)
EnterScope(s, who, net) == IF Moves(s, who, net) THEN Blank(who, net) ELSE s

(* A reply is a refusal (the backend's, or an empty one the transport made)  *)
(* or an answer that names the account it was read for.                      *)
Refusal == [ok |-> FALSE]

BalancesReply(who, net, read) ==
  [ok |-> TRUE, figure |-> [who |-> who, chain |-> net, read |-> read]]

HistoryReply(who, net, read, due) ==
  [ok     |-> TRUE,
   figure |-> [who |-> who, chain |-> net, read |-> read, stillDue |-> due]]

AnswersFor(reply, s) ==
  reply.ok => reply.figure.who = s.account /\ reply.figure.chain = s.chain

(* A refusal leaves the figures unknown and is still an answer: it stamps fresh. *)
ApplyBalances(s, reply) ==
  IF ~AnswersFor(reply, s) THEN s
  ELSE [s EXCEPT !.balances = IF reply.ok THEN reply.figure ELSE Unknown,
                 !.fresh    = TRUE]

ApplyHistory(s, reply) ==
  IF ~AnswersFor(reply, s) THEN s
  ELSE [s EXCEPT !.history = IF reply.ok THEN reply.figure ELSE Unknown]

(* Mutated form of SweepAfter: a refused read ends the sweep. *)
BrokenSweepAfter(sweep, s, reply) == reply.ok /\ reply.figure.stillDue

(* What the history reply does to the receipt sweep: a refusal says nothing. *)
SweepAfter(sweep, s, reply) ==
  IF reply.ok /\ AnswersFor(reply, s) THEN reply.figure.stillDue ELSE sweep

ApplyNoAccount(s) ==
  [s EXCEPT !.balances = Unknown, !.history = NoRows, !.fresh = TRUE]
=============================================================================

------------------------------- MODULE Verdict -------------------------------
(***************************************************************************)
(* The verified-proxy verdict of the network on screen: the probe on its   *)
(* own claim, the poll that repeats it, and the count of silence that      *)
(* withdraws a verdict nobody confirms.                                    *)
(*                                                                         *)
(* A verdict is its mode and state in one word.  Time is counted in the    *)
(* poll's own beats (kVerifiedPollMs), five of which outlast a claim.      *)
(***************************************************************************)
EXTENDS Claim

CONSTANTS Chains, NoChain, Unread, Silence,
          MaxSilent,   \* kMaxSilentPolls
          Beats,       \* beats a claim of one call spans, kOneCallBudgetMs in kVerifiedPollMs
          MaxTruths,   \* bound on changes of what eth_rpc would answer
          MaxMoves,    \* bound on moves of the cursor and refreshes nobody announced
          MaxFaults    \* bound on probes lost, failed or late

Nets     == Chains \cup {NoChain}
Verdicts == {"off", "ready", "unknown"}
Reports  == [Nets -> Verdicts \cup {Silence}]

ASSUME VerdictAssumption ==
  /\ NoChain \notin Chains /\ Unread \notin Verdicts /\ Silence \notin Verdicts
  /\ {MaxSilent, Beats, MaxTruths, MaxMoves, MaxFaults} \subseteq Nat
  /\ 0 < MaxSilent /\ MaxSilent < Beats

VARIABLES
  chain,     \* the cursor
  verdict,   \* verifiedProxyJson
  silent,    \* m_vpSilent, which past MaxSilent tells nothing more
  poll,      \* m_vpPoll runs
  claim,     \* m_vpInFlight
  probes,    \* calls whose callback has not fired, with what was answered
  owed,      \* a refresh is queued
  truth,     \* what eth_rpc would say of each network
  unheard,   \* history variable: beats since the verdict on screen was reported
  outrun,    \* history variable: that report was out of date when it was applied
  used

screenVars == <<chain, verdict, silent, poll, unheard, outrun>>
vars       == <<screenVars, claim, probes, owed, truth, used>>

Probe == [slot : Nat, report : Reports \cup {Silence}]

Spend(what, max) == used[what] < max /\ used' = [used EXCEPT ![what] = @ + 1]

(* Beats are told apart as long as a verdict may stand unconfirmed. *)
Later(beats) == IF unheard + beats < MaxSilent + 2 THEN unheard + beats ELSE MaxSilent + 2

(***************************************************************************)
(* applyVerifiedProxy: something was reported of the network on screen, or *)
(* nothing was learned, `beats` after the last time.                       *)
(***************************************************************************)
Hush(beats) ==
  /\ silent' = IF silent < MaxSilent THEN silent + 1 ELSE silent
  /\ verdict' = IF silent + 1 < MaxSilent THEN verdict ELSE "unknown"
  /\ poll' = TRUE
  /\ unheard' = Later(beats)
  /\ UNCHANGED <<chain, outrun>>

(* Mutated form of Report: any verdict ends the poll. *)
BrokenReport(v) ==
  /\ verdict' = v
  /\ silent' = 0
  /\ poll' = FALSE
  /\ unheard' = 0
  /\ outrun' = (v # truth[chain])
  /\ UNCHANGED chain

Report(v) ==
  /\ verdict' = v
  /\ silent' = 0
  /\ poll' = (v # "off")
  /\ unheard' = 0
  /\ outrun' = (v # truth[chain])
  /\ UNCHANGED chain

(* refreshVerifiedProxy on the claim as time left it. *)
Ask(free) ==
  LET taken == TakenAgain(Beats, {p.slot : p \in probes})
  IN  /\ claim' = taken
      /\ probes' = probes \cup {[slot |-> taken.ticket, report |-> Silence]}

Refresh ==
  /\ owed
  /\ owed' = FALSE
  /\ \/ Busy(claim) /\ UNCHANGED <<claim, probes>>
     \/ ~Busy(claim) /\ Ask(claim)
  /\ UNCHANGED <<screenVars, truth, used>>

(* The backend answers for every network at once; its reply is still under way. *)
Answer(p) ==
  /\ p.report = Silence
  /\ probes' = (probes \ {p}) \cup {[p EXCEPT !.report = truth]}
  /\ UNCHANGED <<screenVars, claim, owed, truth, used>>

(* Whatever claim it was made under, a reply is applied. *)
Callback(p) ==
  /\ probes' = probes \ {p}
  /\ claim' = Released(claim, p.slot)
  /\ \/ /\ p.report # Silence
        /\ p.report[chain] # Silence
        /\ Report(p.report[chain])
        /\ UNCHANGED used
     \/ /\ p.report # Silence
        /\ p.report[chain] = Silence
        /\ Hush(0)
        /\ UNCHANGED used
     \/ /\ p.report = Silence
        /\ Hush(0)
        /\ Spend("faults", MaxFaults)
  /\ UNCHANGED <<owed, truth>>

LoseCallback(p) ==
  /\ Spend("faults", MaxFaults)
  /\ probes' = probes \ {p}
  /\ UNCHANGED <<screenVars, claim, owed, truth>>

Older(c) == [c EXCEPT !.left = IF @ = 0 THEN 0 ELSE @ - 1]

(* Mutated form of PollVerifiedProxy: a tick that cannot ask counts nothing. *)
BrokenPollVerifiedProxy(aged) ==
  /\ unheard' = Later(1)
  /\ UNCHANGED <<chain, verdict, silent, poll, outrun>>
  /\ \/ Busy(aged) /\ claim' = aged /\ UNCHANGED probes
     \/ ~Busy(aged) /\ Ask(aged)

PollVerifiedProxy(aged) ==
  \/ /\ Busy(aged)
     /\ Hush(1)
     /\ claim' = aged
     /\ UNCHANGED probes
  \/ /\ ~Busy(aged)
     /\ Ask(aged)
     /\ unheard' = Later(1)
     /\ UNCHANGED <<chain, verdict, silent, poll, outrun>>

LateProbe == claim.left = 1 /\ \E p \in probes : IsCurrent(claim, p.slot)

(* kVerifiedPollMs pass: the claim ages, and the poll ticks if it runs. *)
Beat ==
  /\ \/ LateProbe /\ Spend("faults", MaxFaults)
     \/ ~LateProbe /\ UNCHANGED used
  /\ \/ poll /\ PollVerifiedProxy(Older(claim))
     \/ /\ ~poll
        /\ claim' = Older(claim)
        /\ UNCHANGED <<screenVars, probes>>
  /\ UNCHANGED <<owed, truth>>

(***************************************************************************)
(* The cursor, eth_rpc, and the events.                                    *)
(***************************************************************************)
MoveChain(net) ==
  /\ net # chain
  /\ Spend("moves", MaxMoves)
  /\ chain' = net
  /\ verdict' = Unread
  /\ silent' = 0
  /\ unheard' = 0
  /\ outrun' = FALSE
  /\ owed' = TRUE
  /\ UNCHANGED <<poll, claim, probes, truth>>

(* eth_rpc's own record moves with an event, its proxy's health without one. *)
TruthMoves(net, v) ==
  /\ v # truth[net]
  /\ Spend("truths", MaxTruths)
  /\ truth' = [truth EXCEPT ![net] = v]
  /\ owed' = (owed \/ "off" \in {v, truth[net]})
  /\ UNCHANGED <<screenVars, claim, probes>>

Notice ==
  /\ ~owed
  /\ Spend("moves", MaxMoves)
  /\ owed' = TRUE
  /\ UNCHANGED <<screenVars, claim, probes, truth>>

-----------------------------------------------------------------------------
Init ==
  /\ chain = NoChain /\ verdict = Unread
  /\ silent = 0 /\ poll = FALSE /\ unheard = 0 /\ outrun = FALSE
  /\ claim = FreeClaim /\ probes = {}
  /\ owed = TRUE
  /\ truth \in {r \in Reports : r[NoChain] = Silence /\ \A net \in Chains : r[net] \in {"off", "ready"}}
  /\ used = [truths |-> 0, moves |-> 0, faults |-> 0]

Next ==
  \/ Refresh
  \/ \E p \in probes : Answer(p)
  \/ \E p \in probes : Callback(p)
  \/ \E p \in probes : LoseCallback(p)
  \/ Beat
  \/ \E net \in Nets : MoveChain(net)
  \/ \E net \in Chains, v \in Verdicts : TruthMoves(net, v)
  \/ Notice

Spec == Init /\ [][Next]_vars

(* The backend answers what it was asked, the transport delivers it, the     *)
(* clock runs and queued refreshes go out.                                   *)
Fairness ==
  /\ WF_vars(Refresh)
  /\ WF_vars(\E p \in probes : Answer(p))
  /\ WF_vars(\E p \in probes : Callback(p))
  /\ WF_vars(Beat)

FairSpec == Spec /\ Fairness

-----------------------------------------------------------------------------
TypeOK ==
  /\ chain \in Nets
  /\ verdict \in Verdicts \cup {Unread}
  /\ silent \in 0 .. MaxSilent /\ unheard \in 0 .. MaxSilent + 2
  /\ {poll, owed, outrun} \subseteq BOOLEAN
  /\ claim \in Claims(Nat, Beats)
  /\ probes \subseteq Probe
  /\ truth \in Reports
  /\ used \in [truths : Nat, moves : Nat, faults : Nat]

(* "Ready" is never on screen longer than MaxSilent beats after it was last  *)
(* reported, whichever probes are lost, late or refused (kMaxSilentPolls,    *)
(* and the tick that counts a probe still out).                              *)
ReadyIsConfirmed == verdict = "ready" => unheard <= MaxSilent

(* The claim in force has been neither answered nor taken over, and its      *)
(* probe is no longer out.                                                   *)
ProbeLost == claim.held /\ \A p \in probes : ~IsCurrent(claim, p.slot)

(* The watch goes on: a verdict other than "off" is polled for, and while    *)
(* the screen does not have what eth_rpc says, a refresh is queued, a probe  *)
(* is out or the poll runs.  Two things alone end it: the probe of the claim *)
(* in force was lost, on whose strength a refresh asks nothing, or the       *)
(* report on screen was answered before eth_rpc changed and applied after    *)
(* (refreshVerifiedProxy, whose callback asks for no ticket).                *)
WatchGoesOn ==
  /\ verdict \notin {"off", Unread} => poll
  /\ chain # NoChain /\ verdict # truth[chain] =>
       owed \/ poll \/ probes # {} \/ ProbeLost \/ outrun

Forsaken == ~owed /\ ~poll /\ probes = {} /\ (ProbeLost \/ outrun)

(* The screen comes to what eth_rpc says, through probes lost, late and      *)
(* refused, moves of the cursor and changes nobody announces: all but where  *)
(* nothing is left that asks, because the last probe was lost or an "off"    *)
(* that eth_rpc had already taken back has stopped the poll.                 *)
WatchedConverges == []<>(chain = NoChain \/ verdict = truth[chain] \/ Forsaken)
=============================================================================

----------------------------- MODULE FeePoller -----------------------------
(***************************************************************************)
(* The dynamic-fee tracker (run_fee_poll_loop in src/src/ingest/fees.rs):  *)
(* one task that wakes every 400 ms, polls the concentrated-liquidity      *)
(* pools of fee_recheck and, on a sweep, all of them and the Aerodrome     *)
(* pools too, writes the fees that changed into the pool metas and         *)
(* announces those pools to the evaluator.                                 *)
(*                                                                         *)
(* A multicall is asked in batches, so the pools of one poll are answered  *)
(* at different moments; one call of it may fail, or the whole poll.       *)
(* Before it announces, the task prefetches: that is StateMemo.            *)
(***************************************************************************)
EXTENDS Naturals, Sequences, FiniteSets

CONSTANTS
  Cl,           \* dynamic-fee pools whose fee() must be polled
  Aero,         \* Aerodrome v2 pools, whose factory is asked
  Fees,         \* the fees there are
  NoFee,        \* a call that has not been answered
  SweepRounds,  \* sweep_interval, in rounds of 400 ms
  ChangedCap    \* capacity of the ChangedBatch channel

ASSUME FeePollerAssumption ==
  /\ Cl \cap Aero = {}
  /\ Cl \cup Aero # {}          \* the task returns at once otherwise
  /\ NoFee \notin Fees
  /\ SweepRounds \in Nat \ {0}
  /\ ChangedCap \in Nat \ {0}

DynamicPools == Cl \cup Aero

VARIABLES
  chain,     \* the chain: each pool's fee
  logged,    \* pools whose swap log the pipeline has handled since the last round
  meta,      \* the fee in PoolMeta
  recheck,   \* Engine::fee_recheck
  since,     \* rounds since the last sweep
  sweep,     \* is this round a sweep?
  stage,     \* "sleep", "cl", "aero" or "announce"
  targets,   \* the pools of the poll
  todo,      \* its calls that are not answered
  seen,      \* its answers
  changed,   \* pools whose fee this round has changed
  changedQ,  \* the ChangedBatch channel (pools only)
  unsaid     \* history: pools whose fee was written and not announced since

feeVars == <<chain, logged, meta, recheck, since, sweep, stage, targets, todo, seen,
             changed, changedQ, unsaid>>

NoAnswers == [p \in DynamicPools |-> NoFee]

FeeTypeOK ==
  /\ chain \in [DynamicPools -> Fees]
  /\ logged \subseteq DynamicPools
  /\ meta \in [DynamicPools -> Fees]
  /\ recheck \subseteq Cl
  /\ since \in 0..SweepRounds
  /\ sweep \in BOOLEAN
  /\ stage \in {"sleep", "cl", "aero", "announce"}
  /\ targets \subseteq DynamicPools
  /\ todo \subseteq targets
  /\ seen \in [DynamicPools -> Fees \cup {NoFee}]
  /\ changed \subseteq DynamicPools
  /\ changedQ \in Seq(SUBSET DynamicPools)
  /\ unsaid \subseteq DynamicPools

\* Bootstrap has read every fee; the first round sweeps.
FeeInit ==
  /\ chain \in [DynamicPools -> Fees]
  /\ logged = {}
  /\ meta = chain
  /\ recheck = {}
  /\ since = SweepRounds
  /\ sweep = FALSE
  /\ stage = "sleep"
  /\ targets = {}
  /\ todo = {}
  /\ seen = NoAnswers
  /\ changed = {}
  /\ changedQ = << >>
  /\ unsaid = {}

-----------------------------------------------------------------------------
(* The chain, the pipeline and the evaluator.                              *)

\* A swap re-prices the pool, or its fee is set by governance.
Reprice(p, f) ==
  /\ chain[p] # f
  /\ chain' = [chain EXCEPT ![p] = f]
  /\ UNCHANGED <<logged, meta, recheck, since, sweep, stage, targets, todo,
                 seen, changed, changedQ, unsaid>>

\* The pipeline handles a swap log of the pool (pipeline.rs:79-119), which
\* touches nothing of the fee tracker's.
HandleLog(p) ==
  /\ chain[p] # meta[p]
  /\ logged' = logged \cup {p}
  /\ UNCHANGED <<chain, meta, recheck, since, sweep, stage, targets, todo, seen,
                 changed, changedQ, unsaid>>

TakeBatch ==
  /\ changedQ # << >>
  /\ changedQ' = Tail(changedQ)
  /\ UNCHANGED <<chain, logged, meta, recheck, since, sweep, stage, targets,
                 todo, seen, changed, unsaid>>

-----------------------------------------------------------------------------
(* The task.                                                               *)

\* sweep_interval has run out.
SweepDue == since >= SweepRounds

\* mutant: a sweep polls what is flagged, like any other round
ClTargets_Flagged == recheck

\* A sweep polls every pool, another round the flagged ones.
ClTargets == IF SweepDue THEN Cl ELSE recheck

\* A new round: all flags are taken back.  The last round has taken 400 ms, or
\* more when it had to wait for an answer.
Wake ==
  /\ stage = "sleep"
  /\ sweep' = SweepDue
  /\ since' \in (IF SweepDue THEN 1 ELSE since + 1)..SweepRounds
  /\ targets' = ClTargets
  /\ todo' = ClTargets
  /\ recheck' = {}
  /\ logged' = {}
  /\ stage' = "cl"
  /\ UNCHANGED <<chain, meta, seen, changed, changedQ, unsaid>>

Answer(p) ==
  /\ p \in todo
  /\ todo' = todo \ {p}
  /\ seen' = [seen EXCEPT ![p] = chain[p]]
  /\ UNCHANGED <<chain, logged, meta, recheck, since, sweep, stage, targets,
                 changed, changedQ, unsaid>>

\* One call reverts or returns something else: the pool is skipped.
CallFails(p) ==
  /\ p \in todo
  /\ todo' = todo \ {p}
  /\ UNCHANGED <<chain, logged, meta, recheck, since, sweep, stage, targets,
                 seen, changed, changedQ, unsaid>>

News == {p \in DynamicPools : seen[p] # NoFee /\ seen[p] # meta[p]}

\* mutant: each poll starts a new list of changed pools
ChangedBy_LastPoll(S) == S

ChangedBy(S) == changed \cup S

\* Go on to the Aerodrome poll of a sweep, the announcement or the next sleep;
\* S are the pools changed so far in this round.
GoOn(S) ==
  /\ stage' = IF stage = "cl" /\ sweep THEN "aero"
              ELSE IF S # {} THEN "announce" ELSE "sleep"
  /\ targets' = IF stage = "cl" /\ sweep THEN Aero ELSE {}
  /\ todo' = targets'

\* The fees that differ are written.
Write ==
  /\ stage \in {"cl", "aero"}
  /\ todo = {}
  /\ meta' = [p \in DynamicPools |-> IF p \in News THEN seen[p] ELSE meta[p]]
  /\ changed' = ChangedBy(News)
  /\ unsaid' = unsaid \cup News
  /\ seen' = NoAnswers
  /\ GoOn(ChangedBy(News))
  /\ UNCHANGED <<chain, logged, recheck, since, sweep, changedQ>>

\* Only the concentrated-liquidity pools are flagged again.
Rechecked(S) == IF stage = "cl" THEN recheck \cup S ELSE recheck

\* A batch of the multicall fails, and with it the whole poll.
MulticallFails ==
  /\ stage \in {"cl", "aero"}
  /\ todo # {}
  /\ recheck' = Rechecked(targets)
  /\ seen' = NoAnswers
  /\ GoOn(changed)
  /\ UNCHANGED <<chain, logged, meta, since, sweep, changed, changedQ,
                 unsaid>>

Announce ==
  /\ stage = "announce"
  /\ Len(changedQ) < ChangedCap
  /\ changedQ' = Append(changedQ, changed)
  /\ unsaid' = unsaid \ changed
  /\ changed' = {}
  /\ stage' = "sleep"
  /\ UNCHANGED <<chain, logged, meta, recheck, since, sweep, targets, todo,
                 seen>>

FeeNext ==
  \/ \E p \in DynamicPools, f \in Fees : Reprice(p, f)
  \/ \E p \in DynamicPools : HandleLog(p) \/ Answer(p) \/ CallFails(p)
  \/ TakeBatch \/ Wake \/ Write \/ MulticallFails \/ Announce

FeeSpec == FeeInit /\ [][FeeNext]_feeVars

\* The task and the evaluator are scheduled and every call ends.  Of the node:
\* polls stop failing as a whole, and no pool's call fails for ever.
FairSpec ==
  /\ FeeSpec
  /\ WF_feeVars(Wake) /\ WF_feeVars(Write) /\ WF_feeVars(Announce) /\ WF_feeVars(TakeBatch)
  /\ \A p \in DynamicPools : WF_feeVars(Answer(p) \/ CallFails(p)) /\ SF_feeVars(Answer(p))
  /\ <>[][~MulticallFails]_feeVars

-----------------------------------------------------------------------------
(* Properties.                                                             *)

\* A fee that has settled on the chain is in the end the one quoted with:
\* the sweep is "the safety net" (fees.rs:14-16).
FeeFollowed ==
  \A p \in DynamicPools, f \in Fees : <>[](chain[p] = f) => <>[](meta[p] = f)

\* Every fee written is announced: no poll of the round, failing or not, makes
\* the task forget a pool that an earlier one changed (fees.rs:168-180).
WrittenIsAnnounced == unsaid \subseteq changed /\ (stage = "sleep" => changed = {})

\* The fast path polls the "pools the trigger loop just saw change"
\* (fees.rs:14-16): a pool whose swap the pipeline has handled is polled in
\* the next round.
SwappedIsPolled ==
  [][stage = "sleep" /\ stage' = "cl" => logged \cap Cl \subseteq todo']_feeVars

=============================================================================

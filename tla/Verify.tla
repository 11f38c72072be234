------------------------------- MODULE Verify -------------------------------
(***************************************************************************)
(* The commands that compare the bot's view of a pool with the chain's     *)
(* (src/src/verify.rs): verify_state reads its words through the plan and  *)
(* asks the view functions; verify_math quotes it and asks an on-chain     *)
(* quoter; the sample check of verify_quotes does so once.  Each read is   *)
(* of the latest block, which moves on: the first two read the tip before  *)
(* and after, and try again, three times in all, when it has moved.        *)
(*                                                                         *)
(* What a pool is worth is abstracted to the block that last changed it.   *)
(***************************************************************************)
EXTENDS SlotLayouts

CONSTANTS
  Tries,   \* attempts for one pool
  MaxMoves \* bound: blocks mined while a pool is checked

VARIABLES
  vpc,      \* "idle", "tip", "words", "words2", "call", "call2" or "recheck"
  block,    \* the chain's height since this check began, from one
  value,    \* the block that last changed the pool
  t0,       \* the tip as read; zero when the read failed
  try,      \* the attempt
  seen,     \* the words as prefetched; zero is among them when a read failed
  got,      \* what the chain's view functions have answered; zero when one failed
  report,   \* "none", "match", "mismatch" or "unverified"
  cause     \* history: what could explain a mismatch of the last attempt

verifyVars == <<vpc, block, value, t0, try, seen, got, report, cause>>

VerifyInit ==
  /\ vpc = "idle" /\ block = 1 /\ value = 1 /\ t0 = 0 /\ try = 1
  /\ seen = {} /\ got = {} /\ report = "none" /\ cause = {}

Begin(at) ==
  /\ vpc' = at /\ block' = 1 /\ value' = 1 /\ t0' = 0 /\ try' = 1
  /\ seen' = {} /\ got' = {} /\ report' = "none" /\ cause' = {}

MineDuring(changes) ==
  /\ vpc # "idle" /\ block <= MaxMoves
  /\ block' = block + 1
  /\ value' = IF changes THEN block + 1 ELSE value
  /\ UNCHANGED <<vpc, t0, try, seen, got, report, cause>>

\* A command goes through the pools one by one, here any with a plan; the
\* chain's height is counted from there.
NextPool ==
  /\ pc = "planned" /\ setup.cmd \in {"verify-state", "verify-math", "verify-quote"}
  /\ vpc = "idle"
  /\ \E n \in DOMAIN plans : plans[n] # {}
  /\ Begin("tip")

Step(from, to) == vpc = from /\ vpc' = to

\* A tip that cannot be read counts as zero.  The memo is cleared.
ReadTip ==
  /\ Step("tip", "words")
  /\ t0' \in {block, 0}
  /\ seen' = {} /\ got' = {}
  /\ cause' = IF t0' = 0 THEN {"no tip"} ELSE {}
  /\ UNCHANGED <<block, value, try, report>>

\* The plan's words, each at the latest block; one that fails stays unset.
PrefetchPlan ==
  /\ Step("words", "words2") \/ Step("words2", "call")
  /\ \/ seen' = seen \cup {value} /\ UNCHANGED cause
     \/ seen' = seen \cup {0} /\ cause' = cause \cup {"no words"}
  /\ UNCHANGED <<block, value, t0, try, got, report>>

\* Price and liquidity are two calls, each of the latest block; a call that
\* fails has no answer, and ends the attempt.  The node answers for the block it
\* names as its tip, and an Algebra pool's third call, fee(), is left out.
AskChain ==
  /\ Step("call", "call2") \/ Step("call2", "recheck")
  /\ got' \in {got \cup {value}, got \cup {0}}
  /\ UNCHANGED <<block, value, t0, try, seen, report, cause>>

\* mutant: the first attempt counts
Settled_Unchecked(t1) == TRUE

\* Is the attempt good?  The sample check does not look.
Settled(t1) == setup.cmd = "verify-quote" \/ t1 = t0

\* verify_math keeps what the last attempt gave, moved or not.
Outcome ==
  IF 0 \in got THEN "unverified"
  ELSE IF got = seen /\ Cardinality(got) = 1 THEN "match" ELSE "mismatch"

Recheck ==
  /\ vpc = "recheck"
  /\ \E t1 \in {block, 0} :
       IF Settled(t1) THEN
         /\ report' = Outcome /\ vpc' = "idle"
         /\ cause' = cause \cup (IF setup.cmd = "verify-quote" THEN {"not checked"} ELSE {})
                           \cup (IF t1 = 0 THEN {"no tip after"} ELSE {})
         /\ UNCHANGED try
       ELSE IF try < Tries THEN
         /\ try' = try + 1 /\ vpc' = "tip"
         /\ UNCHANGED <<report, cause>>
       ELSE
         /\ report' = IF setup.cmd = "verify-math" THEN Outcome ELSE "unverified"
         /\ cause' = cause \cup {"moved"} /\ vpc' = "idle"
         /\ UNCHANGED try
  /\ UNCHANGED <<block, value, t0, seen, got>>

Audit ==
  \/ \E changes \in BOOLEAN : MineDuring(changes)
  \/ NextPool
  \/ ReadTip
  \/ PrefetchPlan
  \/ AskChain
  \/ Recheck

-----------------------------------------------------------------------------
(* Properties.                                                             *)

\* The audit of the plans cries wolf only when it was blind: a mismatch of a
\* pool whose plan is right means that its words could not be prefetched, or
\* that the tip could be read neither before nor after (verify_state).
AuditTrue ==
  setup.cmd = "verify-state" /\ report = "mismatch" =>
    "no words" \in cause \/ {"no tip", "no tip after"} \subseteq cause

\* "Model + chain must describe the same block": a quote difference that is
\* counted was measured on one block, as far as the tip tells (verify_math).
SameBlock ==
  setup.cmd = "verify-math" /\ report = "mismatch" => "moved" \notin cause

=============================================================================

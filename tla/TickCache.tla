----------------------------- MODULE TickCache -----------------------------
(***************************************************************************)
(* The persistent tick cache of ChainState (src/src/state.rs) for one      *)
(* concentrated-liquidity pool, and its two writers: the pipeline, which   *)
(* patches the ticks of a liquidity event (patch_cl_ticks), and the tick   *)
(* resync loop, which re-hydrates the window around the price              *)
(* (hydrate_cl_ticks_for_pool).  Both read the bitmap words first and then *)
(* the net liquidity of the ticks whose bit is set in the cache.           *)
(*                                                                         *)
(* A bitmap word stands for the one tick in it: liq[w] is the liquidity at *)
(* that tick, 0 when it is not initialized.  Its bit is liq[w] # 0.        *)
(***************************************************************************)
EXTENDS Integers, Sequences

CONSTANTS
  Words,         \* the bitmap words of the pool, 0 the one of tick 0
  Unset,         \* a slot that was never hydrated
  WindowRange,   \* BOOTSTRAP_TICK_WORD_RANGE
  PatchRange,    \* PATCH_WORD_RANGE
  MaxLiq,        \* bound: liquidity at a tick
  MaxEvents      \* bound: events on the chain

ASSUME TickCacheAssumption ==
  /\ Words \subseteq Int
  /\ 0 \in Words
  /\ WindowRange \in Nat /\ PatchRange \in Nat
  /\ MaxLiq \in Nat /\ MaxEvents \in Nat
  /\ Unset \notin Nat \cup BOOLEAN \cup Words

Writers == {"patch", "window"}

VARIABLES
  liq,      \* the chain: liquidity at each word's tick
  price,    \* the chain: the word of the current price
  slot0,    \* the price word as the memo holds it; Unset after advance_to
  bitmap,   \* tick_cache: each word's bit
  net,      \* tick_cache: each tick's net liquidity
  logs,     \* the pool's events the pipeline has not handled: their words
  pc,       \* each writer: "idle", "bits", "nets"
  touched,  \* the words of the event being patched
  todo,     \* the reads each writer waits for
  got,      \* answers not inserted yet
  centre,   \* the centre of the window being hydrated
  last,     \* history: how each slot's last read ended: written by whom, or failed
  missed,   \* history: slots that were last read before a change no log told of
  outdated, \* history: the answers not inserted yet that are that old
  events    \* bound only

history == <<last, missed, outdated>>
vars == <<liq, price, slot0, bitmap, net, logs, pc, touched, todo, got, centre,
          history, events>>

Slots == {"bits", "nets"} \X Words

TypeOK ==
  /\ liq \in [Words -> 0..MaxLiq]
  /\ price \in Words
  /\ slot0 \in Words \cup {Unset}
  /\ bitmap \in [Words -> BOOLEAN \cup {Unset}]
  /\ net \in [Words -> (0..MaxLiq) \cup {Unset}]
  /\ logs \in Seq(SUBSET Words)
  /\ pc \in [Writers -> {"idle", "bits", "nets"}]
  /\ touched \subseteq Words
  /\ todo \in [Writers -> SUBSET Words]
  /\ got \in [Writers -> [Words -> (0..MaxLiq) \cup {Unset}]]
  /\ centre \in Words
  /\ last \in [Slots -> Writers \cup {"failed"}]
  /\ missed \subseteq Slots
  /\ outdated \subseteq Writers \X Words
  /\ events \in 0..MaxEvents

Around(S, n) == {w \in Words : \E v \in S : w - v \in (-n)..n}

\* hydrate_all_ticks has run.
Init ==
  /\ liq = [w \in Words |-> 0]
  /\ price \in Words
  /\ slot0 = price
  /\ bitmap = [w \in Words |->
                 IF w \in Around({price}, WindowRange) THEN FALSE ELSE Unset]
  /\ net = [w \in Words |-> Unset]
  /\ logs = << >>
  /\ pc = [a \in Writers |-> "idle"]
  /\ touched = {}
  /\ todo = [a \in Writers |-> {}]
  /\ got = [a \in Writers |-> [w \in Words |-> Unset]]
  /\ centre = 0
  /\ last = [s \in Slots |-> "window"]
  /\ missed = {}
  /\ outdated = {}
  /\ events = 0

Bounded == events < MaxEvents /\ events' = events + 1

-----------------------------------------------------------------------------
(* The chain and the memo.                                                 *)

\* Mint, Burn or ModifyLiquidity over the ticks of two words.
ChangeLiquidity(lo, hi, n) ==
  /\ Bounded
  /\ lo <= hi
  /\ liq' = [liq EXCEPT ![lo] = n, ![hi] = n]
  /\ logs' = Append(logs, {lo, hi})
  /\ UNCHANGED <<price, slot0, bitmap, net, pc, touched, todo, got, centre, history>>

\* The same while the connection is down, in a gap too long to be replayed: the
\* resync that ends it announces every pool and reads no tick (resync_all).
MissLiquidity(lo, hi, n) ==
  /\ Bounded
  /\ lo <= hi
  /\ liq' = [liq EXCEPT ![lo] = n, ![hi] = n]
  /\ missed' = missed \cup ({"bits", "nets"} \X {lo, hi})
  /\ outdated' = outdated \cup {s \in Writers \X {lo, hi} : got[s[1]][s[2]] # Unset}
  /\ UNCHANGED <<price, slot0, bitmap, net, logs, pc, touched, todo, got, centre, last>>

\* A swap moves the price and touches no tick.
Swap(w) ==
  /\ Bounded
  /\ price' = w
  /\ logs' = Append(logs, {})
  /\ UNCHANGED <<liq, slot0, bitmap, net, pc, touched, todo, got, centre, history>>

\* The pipeline's advance_to clears the memo, and a prefetch fills it again
\* (StateMemo).
ClearMemo ==
  /\ pc["patch"] = "idle"
  /\ slot0 # Unset
  /\ slot0' = Unset
  /\ UNCHANGED <<liq, price, bitmap, net, logs, pc, touched, todo, got, centre, history, events>>

FillMemo ==
  /\ slot0' = price
  /\ UNCHANGED <<liq, price, bitmap, net, logs, pc, touched, todo, got, centre, history, events>>

-----------------------------------------------------------------------------
(* The writers.                                                            *)

\* mutant: only the first tick of the event is looked at
Touches_LowOnly(e) == {CHOOSE w \in e : \A v \in e : w <= v}

Touches(e) == e

\* The pipeline takes a liquidity event and reads the bitmap around its ticks.
StartPatch ==
  /\ pc["patch"] = "idle"
  /\ logs # << >>
  /\ Head(logs) # {}
  /\ logs' = Tail(logs)
  /\ pc' = [pc EXCEPT !["patch"] = "bits"]
  /\ touched' = Touches(Head(logs))
  /\ todo' = [todo EXCEPT !["patch"] = Around(Touches(Head(logs)), PatchRange)]
  /\ UNCHANGED <<liq, price, slot0, bitmap, net, got, centre, history, events>>

\* The pipeline takes a swap, which has no ticks to patch.
PassSwap ==
  /\ pc["patch"] = "idle"
  /\ logs # << >>
  /\ Head(logs) = {}
  /\ logs' = Tail(logs)
  /\ UNCHANGED <<liq, price, slot0, bitmap, net, pc, touched, todo, got, centre, history, events>>

\* The resync loop re-hydrates the window around slot0 as read() returns it: 0
\* for an unset slot.
StartWindow ==
  /\ pc["window"] = "idle"
  /\ pc' = [pc EXCEPT !["window"] = "bits"]
  /\ LET c == IF slot0 = Unset THEN 0 ELSE slot0
     IN  /\ centre' = c
         /\ todo' = [todo EXCEPT !["window"] = Around({c}, WindowRange)]
  /\ UNCHANGED <<liq, price, slot0, bitmap, net, logs, touched, got, history, events>>

\* The node answers with its latest state.
Answer(a, w) ==
  /\ w \in todo[a]
  /\ todo' = [todo EXCEPT ![a] = @ \ {w}]
  /\ got' = [got EXCEPT ![a][w] = liq[w]]
  /\ UNCHANGED <<liq, price, slot0, bitmap, net, logs, pc, touched, centre, history, events>>

\* A failed read leaves the slot as it was.
Fail(a, w) ==
  /\ w \in todo[a]
  /\ todo' = [todo EXCEPT ![a] = @ \ {w}]
  /\ last' = [last EXCEPT ![<<pc[a], w>>] = "failed"]
  /\ UNCHANGED <<liq, price, slot0, bitmap, net, logs, pc, touched, got, centre, missed,
                 outdated, events>>

Insert(a, w) ==
  /\ got[a][w] # Unset
  /\ got' = [got EXCEPT ![a][w] = Unset]
  /\ last' = [last EXCEPT ![<<pc[a], w>>] = a]
  /\ missed' = IF <<a, w>> \in outdated THEN missed \cup {<<pc[a], w>>}
               ELSE missed \ {<<pc[a], w>>}
  /\ outdated' = outdated \ {<<a, w>>}
  /\ \/ /\ pc[a] = "bits"
        /\ bitmap' = [bitmap EXCEPT ![w] = got[a][w] # 0]
        /\ UNCHANGED net
     \/ /\ pc[a] = "nets"
        /\ net' = [net EXCEPT ![w] = got[a][w]]
        /\ UNCHANGED bitmap
  /\ UNCHANGED <<liq, price, slot0, logs, pc, touched, todo, centre, events>>

PassDone(a) == todo[a] = {} /\ \A w \in Words : got[a][w] = Unset

Scanned(a) == IF a = "patch" THEN Around(touched, PatchRange)
              ELSE Around({centre}, WindowRange)

\* mutant: a patch reads the ticks of its event only
NetsToRead_TouchedOnly(a) ==
  IF a = "patch" THEN touched ELSE {w \in Scanned(a) : bitmap[w] = TRUE}

\* The ticks whose bit the cache now shows, and those of the event itself.
NetsToRead(a) ==
  {w \in Scanned(a) : bitmap[w] = TRUE} \cup (IF a = "patch" THEN touched ELSE {})

SecondPass(a) ==
  /\ pc[a] = "bits"
  /\ PassDone(a)
  /\ pc' = [pc EXCEPT ![a] = "nets"]
  /\ todo' = [todo EXCEPT ![a] = NetsToRead(a)]
  /\ UNCHANGED <<liq, price, slot0, bitmap, net, logs, touched, got, centre, history, events>>

Finish(a) ==
  /\ pc[a] = "nets"
  /\ PassDone(a)
  /\ pc' = [pc EXCEPT ![a] = "idle"]
  /\ touched' = IF a = "patch" THEN {} ELSE touched
  /\ centre' = IF a = "window" THEN 0 ELSE centre
  /\ UNCHANGED <<liq, price, slot0, bitmap, net, logs, todo, got, history, events>>

Next ==
  \/ \E lo, hi \in Words, n \in 0..MaxLiq : ChangeLiquidity(lo, hi, n) \/ MissLiquidity(lo, hi, n)
  \/ \E w \in Words : Swap(w)
  \/ ClearMemo \/ FillMemo
  \/ StartPatch \/ PassSwap \/ StartWindow
  \/ \E a \in Writers, w \in Words : Answer(a, w) \/ Fail(a, w) \/ Insert(a, w)
  \/ \E a \in Writers : SecondPass(a) \/ Finish(a)

Spec == Init /\ [][Next]_vars

-----------------------------------------------------------------------------
(* Properties.                                                             *)

\* An event on its way to the cache will change this word.
ChangeComing(w) ==
  \/ w \in touched
  \/ \E k \in 1..Len(logs) : w \in logs[k]

BitStale(w) == bitmap[w] # Unset /\ bitmap[w] # (liq[w] # 0) /\ ~ChangeComing(w)
NetStale(w) ==
  bitmap[w] = TRUE /\ net[w] # Unset /\ net[w] # liq[w] /\ ~ChangeComing(w)

Failed(pass, w) == last[<<pass, w>>] = "failed"

\* "This is what keeps tick_cache correct" (state.rs:402-403): but for failed
\* reads and missed logs, a hydrated word is as on the chain, or the event that
\* changed it is still being patched.
StaleOnlyAfterFailure ==
  \A w \in Words :
    /\ BitStale(w) => Failed("bits", w) \/ <<"bits", w>> \in missed
    /\ NetStale(w) => Failed("nets", w) \/ <<"nets", w>> \in missed

\* A hydrated slot stays behind the chain for three reasons only: its last read
\* failed; the resync loop wrote it last, with an answer older than the patch it
\* overwrote; or it was last read before a change in a gap, which the resync does
\* not repair (pipeline.rs:168-176).  The patches of successive events never undo
\* each other, and the next patch or window that covers a word repairs it.
StaleHasCause ==
  \A w \in Words :
    /\ BitStale(w) => last[<<"bits", w>>] # "patch" \/ <<"bits", w>> \in missed
    /\ NetStale(w) => last[<<"nets", w>>] # "patch" \/ <<"nets", w>> \in missed

\* When both writers rest, no tick is marked initialized whose net liquidity
\* the cache lacks, in whatever order their passes overlapped, unless its read
\* failed.
RestingCacheHasNets ==
  pc["patch"] = "idle" /\ pc["window"] = "idle" =>
    \A w \in Words :
      bitmap[w] = TRUE => net[w] # Unset \/ Failed("nets", w)

\* The window is re-centred "around its CURRENT price" (state.rs:283): around
\* a price the pool has, on the chain or in the memo.
WindowAroundPrice ==
  [][pc["window"] = "idle" /\ pc'["window"] = "bits" => centre' \in {price, slot0}]_vars

=============================================================================

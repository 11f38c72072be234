-------------------------- MODULE TickSystemProofs --------------------------
(***************************************************************************)
(* Proofs about the ticks of a pool, for any words, ranges, pools, queue   *)
(* length and positions.                                                   *)
(*                                                                         *)
(* TickSystem, which fills the cache: an accepted trigger is never lost, a *)
(* tick that stays behind the chain was not last written by a patch or was *)
(* last read before a missed log, and when both writers rest no bit is set *)
(* without its net liquidity.                                              *)
(*                                                                         *)
(* TickWalk, which quotes from it: the walk crosses no tick of a word the  *)
(* cache lacks; with every net read and nobody at the cache, its liquidity *)
(* is the pool's and its quote what the pool would pay unit by unit.       *)
(***************************************************************************)
EXTENDS TickSystem, TickWalk, SequenceTheorems, WellFoundedInduction,
        FiniteSetTheorems, TLAPS

InLogs(w) == \E k \in 1..Len(logs) : w \in logs[k]

\* The bit of a word on the chain.
Bit(w) == liq[w] # 0

\* Writer a has yet to read the slot of w in this pass, or to insert it.
Awaits(a, w) == w \in todo[a] \/ got[a][w] # Unset

-----------------------------------------------------------------------------
(* Type correctness of the cache.                                          *)

\* The words of a window or of a patch are words of the pool.
LEMMA AroundWords ==
  ASSUME NEW S, NEW n PROVE Around(S, n) \in SUBSET Words
BY DEF Around

\* A set of words is around itself.
LEMMA AroundSelf ==
  ASSUME NEW S \in SUBSET Words, NEW n \in Nat PROVE S \subseteq Around(S, n)
<1> SUFFICES ASSUME NEW w \in S PROVE w \in Around(S, n)
  OBVIOUS
<1>1. w \in Words /\ w \in Int
  BY TickCacheAssumption
<1>2. w - w = 0 /\ 0 \in (-n)..n
  BY <1>1
<1> QED
  BY <1>1, <1>2 DEF Around

\* The variables start with their types.
LEMMA TypeInit == Init => TypeOK
<1> SUFFICES ASSUME Init PROVE TypeOK
  OBVIOUS
<1>1. liq \in [Words -> 0..MaxLiq] /\ events \in 0..MaxEvents
  BY TickCacheAssumption DEF Init
<1> QED
  BY <1>1, TickCacheAssumption DEF Init, TypeOK, Writers, Slots

\* Every step of the chain, the memo and the writers keeps the types.
LEMMA TypeStep == TypeOK /\ Next => TypeOK'
<1> SUFFICES ASSUME TypeOK, Next PROVE TypeOK'
  OBVIOUS
<1>b. Bounded => events' \in 0..MaxEvents
  BY TickCacheAssumption DEF Bounded, TypeOK
<1>1. ASSUME NEW lo \in Words, NEW hi \in Words, NEW n \in 0..MaxLiq,
             ChangeLiquidity(lo, hi, n) \/ MissLiquidity(lo, hi, n)
      PROVE  TypeOK'
  <2>1. liq' \in [Words -> 0..MaxLiq]
    BY <1>1 DEF ChangeLiquidity, MissLiquidity, TypeOK
  <2>2. logs' \in Seq(SUBSET Words)
    <3>1. logs \in Seq(SUBSET Words) /\ {lo, hi} \in SUBSET Words
      BY DEF TypeOK
    <3> QED
      BY <1>1, <3>1 DEF ChangeLiquidity, MissLiquidity
  <2>3. missed' \in SUBSET Slots /\ outdated' \in SUBSET (Writers \X Words)
    BY <1>1 DEF ChangeLiquidity, MissLiquidity, TypeOK, Slots, history
  <2> QED
    BY <1>b, <1>1, <2>1, <2>2, <2>3 DEF ChangeLiquidity, MissLiquidity, TypeOK, history
<1>2. ASSUME NEW w \in Words, Swap(w) PROVE TypeOK'
  <2>1. logs' \in Seq(SUBSET Words)
    BY <1>2 DEF Swap, TypeOK
  <2> QED
    BY <1>b, <1>2, <2>1 DEF Swap, TypeOK, history
<1>3. CASE ClearMemo \/ FillMemo
  BY <1>3 DEF ClearMemo, FillMemo, TypeOK, history
<1>4. CASE StartPatch
  <2>1. Head(logs) \in SUBSET Words /\ Tail(logs) \in Seq(SUBSET Words)
    BY <1>4 DEF StartPatch, TypeOK
  <2>2. Around(Touches(Head(logs)), PatchRange) \in SUBSET Words
    BY AroundWords
  <2> QED
    BY <1>4, <2>1, <2>2 DEF StartPatch, Touches, TypeOK, history, Writers
<1>5. CASE PassSwap
  <2>1. Tail(logs) \in Seq(SUBSET Words)
    BY <1>5 DEF PassSwap, TypeOK
  <2> QED
    BY <1>5, <2>1 DEF PassSwap, TypeOK, history
<1>6. CASE StartWindow
  <2>1. PICK c \in Words : /\ centre' = c
                           /\ todo' = [todo EXCEPT !["window"] = Around({c}, WindowRange)]
    BY <1>6, TickCacheAssumption DEF StartWindow, TypeOK
  <2>2. Around({c}, WindowRange) \in SUBSET Words
    BY AroundWords
  <2> QED
    <3>1. todo' \in [Writers -> SUBSET Words] /\ pc' \in [Writers -> {"idle", "bits", "nets"}]
      BY <1>6, <2>1, <2>2 DEF StartWindow, TypeOK
    <3> QED
      BY <1>6, <2>1, <3>1 DEF StartWindow, TypeOK, history
<1>7. ASSUME NEW a \in Writers, NEW w \in Words, Answer(a, w) PROVE TypeOK'
  <2>1. got' \in [Writers -> [Words -> (0..MaxLiq) \cup {Unset}]]
    BY <1>7 DEF Answer, TypeOK
  <2>2. todo' \in [Writers -> SUBSET Words]
    BY <1>7 DEF Answer, TypeOK
  <2> QED
    BY <1>7, <2>1, <2>2 DEF Answer, TypeOK, history
<1>8. ASSUME NEW a \in Writers, NEW w \in Words, Fail(a, w) PROVE TypeOK'
  <2>1. todo' \in [Writers -> SUBSET Words] /\ last' \in [Slots -> Writers \cup {"failed"}]
    BY <1>8 DEF Fail, TypeOK
  <2> QED
    BY <1>8, <2>1 DEF Fail, TypeOK, history
<1>9. ASSUME NEW a \in Writers, NEW w \in Words, Insert(a, w) PROVE TypeOK'
  <2>1. got[a][w] \in 0..MaxLiq /\ <<pc[a], w>> \in Slots
    BY <1>9 DEF Insert, TypeOK, Slots
  <2>2. got' \in [Writers -> [Words -> (0..MaxLiq) \cup {Unset}]]
    BY <1>9 DEF Insert, TypeOK
  <2>3. last' \in [Slots -> Writers \cup {"failed"}]
    BY <1>9 DEF Insert, TypeOK
  <2>4. missed' \in SUBSET Slots /\ outdated' \in SUBSET (Writers \X Words)
    BY <1>9, <2>1 DEF Insert, TypeOK
  <2>5. bitmap' \in [Words -> BOOLEAN \cup {Unset}]
    <3>1. CASE bitmap' = [bitmap EXCEPT ![w] = got[a][w] # 0]
      <4>1. (got[a][w] # 0) \in BOOLEAN \cup {Unset}
        OBVIOUS
      <4> QED
        BY <3>1, <4>1 DEF TypeOK
    <3>2. CASE UNCHANGED bitmap
      BY <3>2 DEF TypeOK
    <3> QED
      BY <1>9, <3>1, <3>2 DEF Insert
  <2>6. net' \in [Words -> (0..MaxLiq) \cup {Unset}]
    BY <1>9, <2>1 DEF Insert, TypeOK
  <2> QED
    BY <1>9, <2>2, <2>3, <2>4, <2>5, <2>6 DEF Insert, TypeOK
<1>10. ASSUME NEW a \in Writers, SecondPass(a) PROVE TypeOK'
  <2>1. NetsToRead(a) \in SUBSET Words
    BY AroundWords DEF NetsToRead, Scanned, TypeOK
  <2> QED
    BY <1>10, <2>1 DEF SecondPass, TypeOK, history
<1>11. ASSUME NEW a \in Writers, Finish(a) PROVE TypeOK'
  BY <1>11, TickCacheAssumption DEF Finish, TypeOK, history
<1> QED
  BY <1>1, <1>2, <1>3, <1>4, <1>5, <1>6, <1>7, <1>8, <1>9, <1>10, <1>11 DEF Next

-----------------------------------------------------------------------------
(* The events on their way.                                                *)

\* Queueing an event keeps those before it.
LEMMA LogsGrow ==
  ASSUME TypeOK, NEW e \in SUBSET Words, logs' = Append(logs, e)
  PROVE  /\ \A w : InLogs(w) => InLogs(w)'
         /\ \A w \in e : InLogs(w)'
<1>1. logs \in Seq(SUBSET Words)
  BY DEF TypeOK
<1>2. /\ Len(logs') = Len(logs) + 1 /\ logs'[Len(logs) + 1] = e /\ Len(logs) \in Nat
      /\ \A k \in 1..Len(logs) : logs'[k] = logs[k]
  BY <1>1
<1> QED
  BY <1>2 DEF InLogs

\* Taking an event off keeps the others.
LEMMA LogsShrink ==
  ASSUME TypeOK, logs # << >>, logs' = Tail(logs)
  PROVE  \A w : InLogs(w) => InLogs(w)' \/ w \in Head(logs)
<1>1. logs \in Seq(SUBSET Words)
  BY DEF TypeOK
<1>2. /\ Len(logs') = Len(logs) - 1 /\ Len(logs) \in Nat /\ Head(logs) = logs[1]
      /\ \A k \in 1..Len(logs') : logs'[k] = logs[k + 1]
  BY <1>1
<1> TAKE w
<1>3. ASSUME NEW k \in 1..Len(logs), w \in logs[k] PROVE InLogs(w)' \/ w \in Head(logs)
  <2>1. CASE k = 1
    BY <1>2, <1>3, <2>1
  <2>2. CASE k # 1
    <3>1. k - 1 \in 1..Len(logs') /\ logs'[k - 1] = logs[k]
      BY <1>2, <2>2
    <3> QED
      BY <1>3, <3>1 DEF InLogs
  <2> QED
    BY <2>1, <2>2
<1> QED
  BY <1>3 DEF InLogs

-----------------------------------------------------------------------------
(* Why a slot is behind the chain.                                         *)

\* An answer that the patch holds is the chain's, or an event told of a change
\* since, or a change was missed.
HeldIsCurrent ==
  \A w \in Words : got["patch"][w] # Unset =>
    InLogs(w) \/ <<"patch", w>> \in outdated \/ got["patch"][w] = liq[w]

\* A bit that a patch wrote last is the chain's, unless an event will bring it
\* there, a change was missed, or the patch under way is about to read it again.
PatchedBits ==
  \A w \in Words :
    last[<<"bits", w>>] = "patch" /\ <<"bits", w>> \notin missed /\ bitmap[w] # Unset =>
      \/ InLogs(w)
      \/ w \in touched /\ pc["patch"] = "bits" /\ Awaits("patch", w)
      \/ bitmap[w] = Bit(w)

\* The same of a net; a patch that is still reading bits will read the nets of
\* its event's ticks.
PatchedNets ==
  \A w \in Words :
    last[<<"nets", w>>] = "patch" /\ <<"nets", w>> \notin missed /\ net[w] # Unset =>
      \/ InLogs(w)
      \/ w \in touched /\ pc["patch"] = "bits"
      \/ w \in touched /\ pc["patch"] = "nets" /\ Awaits("patch", w)
      \/ net[w] = liq[w]

\* A patch that has ended holds no answer.
RestingPatch == pc["patch"] = "idle" => PassDone("patch")

StaleInv == TypeOK /\ RestingPatch /\ HeldIsCurrent /\ PatchedBits /\ PatchedNets

\* A change on the chain is told of by an event or counts as missed.
LEMMA ChangeExplained ==
  ASSUME StaleInv, NEW lo \in Words, NEW hi \in Words, NEW n \in 0..MaxLiq,
         ChangeLiquidity(lo, hi, n) \/ MissLiquidity(lo, hi, n)
  PROVE  HeldIsCurrent' /\ PatchedBits' /\ PatchedNets'
<1>1. /\ liq' = [liq EXCEPT ![lo] = n, ![hi] = n]
      /\ UNCHANGED <<bitmap, net, pc, touched, todo, got, last>>
  BY DEF ChangeLiquidity, MissLiquidity, history
<1>2. \A w \in Words : w \notin {lo, hi} => liq'[w] = liq[w] /\ Bit(w)' = Bit(w)
  BY <1>1 DEF StaleInv, TypeOK, Bit
<1>3. \A w : Awaits("patch", w)' <=> Awaits("patch", w)
  BY <1>1 DEF Awaits
<1>4. CASE ChangeLiquidity(lo, hi, n)
  <2>1. UNCHANGED <<missed, outdated>> /\ logs' = Append(logs, {lo, hi})
    BY <1>4 DEF ChangeLiquidity, history
  <2>2. (\A w : InLogs(w) => InLogs(w)') /\ \A w \in {lo, hi} : InLogs(w)'
    <3>1. {lo, hi} \in SUBSET Words
      OBVIOUS
    <3> QED
      BY <2>1, <3>1, LogsGrow DEF StaleInv
  <2>3. HeldIsCurrent'
    BY <1>1, <1>2, <2>1, <2>2 DEF StaleInv, HeldIsCurrent
  <2>4. PatchedBits'
    BY <1>1, <1>2, <1>3, <2>1, <2>2 DEF StaleInv, PatchedBits
  <2>5. PatchedNets'
    BY <1>1, <1>2, <1>3, <2>1, <2>2 DEF StaleInv, PatchedNets
  <2> QED
    BY <2>3, <2>4, <2>5
<1>5. CASE MissLiquidity(lo, hi, n)
  <2>1. /\ missed' = missed \cup ({"bits", "nets"} \X {lo, hi})
        /\ outdated' = outdated \cup {s \in Writers \X {lo, hi} : got[s[1]][s[2]] # Unset}
        /\ UNCHANGED logs
    BY <1>5 DEF MissLiquidity
  <2>2. \A w : InLogs(w)' <=> InLogs(w)
    BY <2>1 DEF InLogs
  <2>3. \A w \in {lo, hi} : /\ <<"bits", w>> \in missed' /\ <<"nets", w>> \in missed'
                            /\ got["patch"][w] # Unset => <<"patch", w>> \in outdated'
    BY <2>1 DEF Writers
  <2>4. HeldIsCurrent'
    BY <1>1, <1>2, <2>1, <2>2, <2>3 DEF StaleInv, HeldIsCurrent
  <2>5. PatchedBits'
    BY <1>1, <1>2, <1>3, <2>1, <2>2, <2>3 DEF StaleInv, PatchedBits
  <2>6. PatchedNets'
    BY <1>1, <1>2, <1>3, <2>1, <2>2, <2>3 DEF StaleInv, PatchedNets
  <2> QED
    BY <2>4, <2>5, <2>6
<1> QED
  BY <1>4, <1>5

\* The patch takes over what its event told of.
LEMMA StartPatchExplained ==
  ASSUME StaleInv, StartPatch
  PROVE  HeldIsCurrent' /\ PatchedBits' /\ PatchedNets'
<1>t. TypeOK
  BY DEF StaleInv
<1>1. /\ pc["patch"] = "idle" /\ pc' = [pc EXCEPT !["patch"] = "bits"]
      /\ logs # << >> /\ logs' = Tail(logs) /\ touched' = Head(logs)
      /\ todo' = [todo EXCEPT !["patch"] = Around(Head(logs), PatchRange)]
      /\ UNCHANGED <<liq, bitmap, net, got, last, missed, outdated>>
  BY DEF StartPatch, Touches, history
<1>2. \A w : InLogs(w) => InLogs(w)' \/ w \in Head(logs)
  BY <1>t, <1>1, LogsShrink
<1>3. pc'["patch"] = "bits" /\ "patch" \in Writers
  BY <1>t, <1>1 DEF TypeOK, Writers
<1>4. \A w \in Head(logs) : w \in touched' /\ Awaits("patch", w)'
  <2>1. Head(logs) \in SUBSET Words
    BY <1>t, <1>1 DEF TypeOK
  <2>2. Head(logs) \subseteq Around(Head(logs), PatchRange)
    BY <2>1, AroundSelf, TickCacheAssumption
  <2>3. todo'["patch"] = Around(Head(logs), PatchRange)
    BY <1>t, <1>1, <1>3 DEF TypeOK
  <2> QED
    BY <1>1, <2>2, <2>3 DEF Awaits
<1>5. \A w : Bit(w)' = Bit(w)
  BY <1>1 DEF Bit
<1>6. HeldIsCurrent'
  <2> SUFFICES ASSUME NEW w \in Words, got["patch"][w] # Unset
               PROVE  InLogs(w)' \/ <<"patch", w>> \in outdated \/ got["patch"][w] = liq[w]
    BY <1>1 DEF HeldIsCurrent
  <2> QED
    BY <1>1 DEF StaleInv, RestingPatch, PassDone
<1>7. PatchedBits'
  BY <1>1, <1>2, <1>3, <1>4, <1>5 DEF StaleInv, PatchedBits
<1>8. PatchedNets'
  BY <1>1, <1>2, <1>3, <1>4 DEF StaleInv, PatchedNets
<1> QED
  BY <1>6, <1>7, <1>8

\* Taking a swap off the queue takes no word with it.
LEMMA PassSwapExplained ==
  ASSUME StaleInv, PassSwap
  PROVE  HeldIsCurrent' /\ PatchedBits' /\ PatchedNets'
<1>1. /\ logs # << >> /\ Head(logs) = {} /\ logs' = Tail(logs)
      /\ UNCHANGED <<liq, bitmap, net, pc, touched, todo, got, last, missed, outdated>>
  BY DEF PassSwap, history
<1>2. \A w : InLogs(w) => InLogs(w)'
  BY <1>1, LogsShrink DEF StaleInv
<1>3. \A w : (Bit(w)' = Bit(w)) /\ (Awaits("patch", w)' <=> Awaits("patch", w))
  BY <1>1 DEF Bit, Awaits
<1> QED
  BY <1>1, <1>2, <1>3 DEF StaleInv, HeldIsCurrent, PatchedBits, PatchedNets

\* An answer is the chain's.
LEMMA AnswerExplained ==
  ASSUME StaleInv, NEW a \in Writers, NEW w \in Words, Answer(a, w)
  PROVE  HeldIsCurrent' /\ PatchedBits' /\ PatchedNets'
<1>t. TypeOK /\ "patch" \in Writers
  BY DEF StaleInv, Writers
<1>1. /\ w \in todo[a] /\ todo' = [todo EXCEPT ![a] = @ \ {w}]
      /\ got' = [got EXCEPT ![a][w] = liq[w]]
      /\ UNCHANGED <<liq, bitmap, net, pc, touched, logs, last, missed, outdated>>
  BY DEF Answer, history
<1>2. \A v \in Words : got'["patch"][v] = got["patch"][v]
                       \/ (v = w /\ got'["patch"][v] = liq[v] /\ liq[v] # Unset)
  BY <1>t, <1>1, TickCacheAssumption DEF TypeOK
<1>3. \A v \in Words : Awaits("patch", v) => Awaits("patch", v)'
  <2> SUFFICES ASSUME NEW v \in Words, v \in todo["patch"] \/ got["patch"][v] # Unset
               PROVE  v \in todo'["patch"] \/ got'["patch"][v] # Unset
    BY DEF Awaits
  <2>1. liq[w] # Unset
    BY <1>t, TickCacheAssumption DEF TypeOK
  <2>2. CASE a = "patch" /\ v = w
    BY <1>t, <1>1, <2>1, <2>2 DEF TypeOK
  <2>3. CASE ~(a = "patch" /\ v = w)
    BY <1>t, <1>1, <2>3 DEF TypeOK
  <2> QED
    BY <2>2, <2>3
<1>4. \A v : (Bit(v)' = Bit(v)) /\ (InLogs(v)' <=> InLogs(v))
  BY <1>1 DEF Bit, InLogs
<1>5. HeldIsCurrent'
  BY <1>1, <1>2, <1>4 DEF StaleInv, HeldIsCurrent
<1>6. PatchedBits'
  BY <1>1, <1>3, <1>4 DEF StaleInv, PatchedBits
<1>7. PatchedNets'
  BY <1>1, <1>3, <1>4 DEF StaleInv, PatchedNets
<1> QED
  BY <1>5, <1>6, <1>7

\* A failed read is not the patch's writing.
LEMMA FailExplained ==
  ASSUME StaleInv, NEW a \in Writers, NEW w \in Words, Fail(a, w)
  PROVE  HeldIsCurrent' /\ PatchedBits' /\ PatchedNets'
<1>t. TypeOK /\ "patch" \in Writers
  BY DEF StaleInv, Writers
<1>1. /\ w \in todo[a] /\ todo' = [todo EXCEPT ![a] = @ \ {w}]
      /\ last' = [last EXCEPT ![<<pc[a], w>>] = "failed"]
      /\ UNCHANGED <<liq, bitmap, net, pc, got, touched, logs, missed, outdated>>
  BY DEF Fail
<1>2. \A s \in Slots : last'[s] = "patch" => last[s] = "patch" /\ s # <<pc[a], w>>
  BY <1>t, <1>1 DEF TypeOK
<1>3. \A v \in Words : Awaits("patch", v) => Awaits("patch", v)' \/ (a = "patch" /\ v = w)
  BY <1>t, <1>1 DEF TypeOK, Awaits
<1>4. \A v : (Bit(v)' = Bit(v)) /\ (InLogs(v)' <=> InLogs(v))
  BY <1>1 DEF Bit, InLogs
<1>s. \A v \in Words : <<"bits", v>> \in Slots /\ <<"nets", v>> \in Slots
  BY DEF Slots
<1>5. HeldIsCurrent'
  BY <1>1, <1>4 DEF StaleInv, HeldIsCurrent
<1>6. PatchedBits'
  <2> SUFFICES ASSUME NEW v \in Words, last'[<<"bits", v>>] = "patch",
                      <<"bits", v>> \notin missed, bitmap[v] # Unset
               PROVE  \/ InLogs(v)'
                      \/ v \in touched /\ pc["patch"] = "bits" /\ Awaits("patch", v)'
                      \/ bitmap[v] = Bit(v)'
    BY <1>1 DEF PatchedBits
  <2>1. last[<<"bits", v>>] = "patch" /\ <<"bits", v>> # <<pc[a], w>>
    BY <1>2, <1>s
  <2>2. \/ InLogs(v)
        \/ v \in touched /\ pc["patch"] = "bits" /\ Awaits("patch", v)
        \/ bitmap[v] = Bit(v)
    BY <2>1 DEF StaleInv, PatchedBits
  <2> QED
    BY <1>3, <1>4, <2>1, <2>2
<1>7. PatchedNets'
  <2> SUFFICES ASSUME NEW v \in Words, last'[<<"nets", v>>] = "patch",
                      <<"nets", v>> \notin missed, net[v] # Unset
               PROVE  \/ InLogs(v)'
                      \/ v \in touched /\ pc["patch"] = "bits"
                      \/ v \in touched /\ pc["patch"] = "nets" /\ Awaits("patch", v)'
                      \/ net[v] = liq[v]
    BY <1>1 DEF PatchedNets
  <2>1. last[<<"nets", v>>] = "patch" /\ <<"nets", v>> # <<pc[a], w>>
    BY <1>2, <1>s
  <2>2. \/ InLogs(v)
        \/ v \in touched /\ pc["patch"] = "bits"
        \/ v \in touched /\ pc["patch"] = "nets" /\ Awaits("patch", v)
        \/ net[v] = liq[v]
    BY <2>1 DEF StaleInv, PatchedNets
  <2> QED
    BY <1>3, <1>4, <2>1, <2>2
<1> QED
  BY <1>5, <1>6, <1>7

\* What the patch writes is what it held.
LEMMA InsertExplained ==
  ASSUME StaleInv, NEW a \in Writers, NEW w \in Words, Insert(a, w)
  PROVE  HeldIsCurrent' /\ PatchedBits' /\ PatchedNets'
<1>t. TypeOK /\ "patch" \in Writers /\ "window" # "patch"
  BY DEF StaleInv, Writers
<1> DEFINE s == <<pc[a], w>>
<1>1. /\ got[a][w] # Unset /\ got' = [got EXCEPT ![a][w] = Unset]
      /\ last' = [last EXCEPT ![s] = a]
      /\ missed' = IF <<a, w>> \in outdated THEN missed \cup {s} ELSE missed \ {s}
      /\ outdated' = outdated \ {<<a, w>>}
      /\ pc[a] \in {"bits", "nets"}
      /\ UNCHANGED <<liq, pc, touched, todo, logs>>
  BY DEF Insert
<1>2. /\ pc[a] = "bits" => bitmap' = [bitmap EXCEPT ![w] = got[a][w] # 0] /\ UNCHANGED net
      /\ pc[a] = "nets" => net' = [net EXCEPT ![w] = got[a][w]] /\ UNCHANGED bitmap
  BY DEF Insert
<1>h. a = "patch" /\ s \notin missed' => InLogs(w) \/ got[a][w] = liq[w]
  BY <1>1 DEF StaleInv, HeldIsCurrent
<1>3. \A v \in Words : Awaits("patch", v) => Awaits("patch", v)' \/ (a = "patch" /\ v = w)
  BY <1>t, <1>1 DEF TypeOK, Awaits
<1>4. \A v : (Bit(v)' = Bit(v)) /\ (InLogs(v)' <=> InLogs(v))
  BY <1>1 DEF Bit, InLogs
<1>5. \A v \in Words : <<"bits", v>> \in Slots /\ <<"nets", v>> \in Slots
  BY DEF Slots
<1>6. \A x \in Slots : x # s => /\ last'[x] = last[x] /\ (x \in missed' <=> x \in missed)
  BY <1>t, <1>1 DEF TypeOK
<1>7. s \in Slots => last'[s] = a
  BY <1>t, <1>1 DEF TypeOK
<1>8. HeldIsCurrent'
  <2> SUFFICES ASSUME NEW v \in Words, got'["patch"][v] # Unset
               PROVE  InLogs(v)' \/ <<"patch", v>> \in outdated' \/ got'["patch"][v] = liq'[v]
    BY DEF HeldIsCurrent
  <2>1. got'["patch"][v] = got["patch"][v] /\ <<a, w>> # <<"patch", v>>
    BY <1>t, <1>1 DEF TypeOK
  <2>2. InLogs(v) \/ <<"patch", v>> \in outdated \/ got["patch"][v] = liq[v]
    BY <2>1 DEF StaleInv, HeldIsCurrent
  <2> QED
    BY <1>1, <1>4, <2>1, <2>2
<1>9. PatchedBits'
  <2> SUFFICES ASSUME NEW v \in Words, last'[<<"bits", v>>] = "patch",
                      <<"bits", v>> \notin missed', bitmap'[v] # Unset
               PROVE  \/ InLogs(v)'
                      \/ v \in touched /\ pc["patch"] = "bits" /\ Awaits("patch", v)'
                      \/ bitmap'[v] = Bit(v)'
    BY <1>1 DEF PatchedBits
  <2>1. CASE <<"bits", v>> = s
    <3>1. v = w /\ pc[a] = "bits" /\ a = "patch" /\ s \notin missed'
      BY <1>5, <1>7, <2>1
    <3>2. bitmap'[v] = (got[a][w] # 0)
      BY <1>t, <1>2, <3>1 DEF TypeOK
    <3>3. InLogs(w) \/ got[a][w] = liq[w]
      BY <1>h, <3>1
    <3>4. CASE InLogs(w)
      BY <1>4, <3>1, <3>4
    <3>5. CASE got[a][w] = liq[w]
      BY <1>4, <3>1, <3>2, <3>5 DEF Bit
    <3> QED
      BY <3>3, <3>4, <3>5
  <2>2. CASE <<"bits", v>> # s
    <3>1. last[<<"bits", v>>] = "patch" /\ <<"bits", v>> \notin missed
      BY <1>5, <1>6, <2>2
    <3>2. bitmap'[v] = bitmap[v]
      BY <1>t, <1>1, <1>2, <2>2 DEF TypeOK
    <3>3. \/ InLogs(v)
          \/ v \in touched /\ pc["patch"] = "bits" /\ Awaits("patch", v)
          \/ bitmap[v] = Bit(v)
      BY <3>1, <3>2 DEF StaleInv, PatchedBits
    <3> QED
      BY <1>3, <1>4, <2>2, <3>2, <3>3
  <2> QED
    BY <2>1, <2>2
<1>10. PatchedNets'
  <2> SUFFICES ASSUME NEW v \in Words, last'[<<"nets", v>>] = "patch",
                      <<"nets", v>> \notin missed', net'[v] # Unset
               PROVE  \/ InLogs(v)'
                      \/ v \in touched /\ pc["patch"] = "bits"
                      \/ v \in touched /\ pc["patch"] = "nets" /\ Awaits("patch", v)'
                      \/ net'[v] = liq[v]
    BY <1>1 DEF PatchedNets
  <2>1. CASE <<"nets", v>> = s
    <3>1. v = w /\ pc[a] = "nets" /\ a = "patch" /\ s \notin missed'
      BY <1>5, <1>7, <2>1
    <3>2. net'[v] = got[a][w]
      BY <1>t, <1>2, <3>1 DEF TypeOK
    <3> QED
      BY <1>h, <1>4, <3>1, <3>2
  <2>2. CASE <<"nets", v>> # s
    <3>1. last[<<"nets", v>>] = "patch" /\ <<"nets", v>> \notin missed
      BY <1>5, <1>6, <2>2
    <3>2. net'[v] = net[v]
      BY <1>t, <1>1, <1>2, <2>2 DEF TypeOK
    <3>3. \/ InLogs(v)
          \/ v \in touched /\ pc["patch"] = "bits"
          \/ v \in touched /\ pc["patch"] = "nets" /\ Awaits("patch", v)
          \/ net[v] = liq[v]
      BY <3>1, <3>2 DEF StaleInv, PatchedNets
    <3> QED
      BY <1>3, <1>4, <2>2, <3>2, <3>3
  <2> QED
    BY <2>1, <2>2
<1> QED
  BY <1>8, <1>9, <1>10

\* The second pass reads the nets of the event's ticks.
LEMMA SecondPassExplained ==
  ASSUME StaleInv, NEW a \in Writers, SecondPass(a)
  PROVE  HeldIsCurrent' /\ PatchedBits' /\ PatchedNets'
<1>t. TypeOK /\ "patch" \in Writers /\ "window" # "patch"
  BY DEF StaleInv, Writers
<1>1. /\ pc[a] = "bits" /\ PassDone(a) /\ pc' = [pc EXCEPT ![a] = "nets"]
      /\ todo' = [todo EXCEPT ![a] = NetsToRead(a)]
      /\ UNCHANGED <<liq, bitmap, net, got, touched, logs, last, missed, outdated>>
  BY DEF SecondPass, history
<1>2. \A v : (Bit(v)' = Bit(v)) /\ (InLogs(v)' <=> InLogs(v))
  BY <1>1 DEF Bit, InLogs
<1>3. HeldIsCurrent'
  BY <1>1, <1>2 DEF StaleInv, HeldIsCurrent
<1>4. CASE a = "patch"
  <2>1. /\ pc["patch"] = "bits" /\ pc'["patch"] = "nets" /\ todo'["patch"] = NetsToRead("patch")
        /\ \A w \in Words : ~Awaits("patch", w)
    BY <1>t, <1>1, <1>4 DEF TypeOK, PassDone, Awaits
  <2>2. \A w \in touched : Awaits("patch", w)'
    BY <2>1 DEF NetsToRead, Awaits
  <2>3. PatchedBits'
    BY <1>1, <1>2, <2>1 DEF StaleInv, PatchedBits
  <2>4. PatchedNets'
    BY <1>1, <1>2, <2>1, <2>2 DEF StaleInv, PatchedNets
  <2> QED
    BY <1>3, <2>3, <2>4
<1>5. CASE a # "patch"
  <2>1. pc'["patch"] = pc["patch"] /\ \A w : Awaits("patch", w)' <=> Awaits("patch", w)
    BY <1>t, <1>1, <1>5 DEF TypeOK, Awaits
  <2>2. PatchedBits'
    BY <1>1, <1>2, <2>1 DEF StaleInv, PatchedBits
  <2>3. PatchedNets'
    BY <1>1, <1>2, <2>1 DEF StaleInv, PatchedNets
  <2> QED
    BY <1>3, <2>2, <2>3
<1> QED
  BY <1>4, <1>5

\* A patch ends when all it was to read is written or failed.
LEMMA FinishExplained ==
  ASSUME StaleInv, NEW a \in Writers, Finish(a)
  PROVE  HeldIsCurrent' /\ PatchedBits' /\ PatchedNets'
<1>t. TypeOK /\ "patch" \in Writers /\ "window" # "patch"
  BY DEF StaleInv, Writers
<1>1. /\ pc[a] = "nets" /\ PassDone(a) /\ pc' = [pc EXCEPT ![a] = "idle"]
      /\ touched' = IF a = "patch" THEN {} ELSE touched
      /\ UNCHANGED <<liq, bitmap, net, got, todo, logs, last, missed, outdated>>
  BY DEF Finish, history
<1>2. \A v : (Bit(v)' = Bit(v)) /\ (InLogs(v)' <=> InLogs(v))
  BY <1>1 DEF Bit, InLogs
<1>3. HeldIsCurrent'
  BY <1>1, <1>2 DEF StaleInv, HeldIsCurrent
<1>4. CASE a = "patch"
  <2>1. pc["patch"] = "nets" /\ \A w \in Words : ~Awaits("patch", w)
    BY <1>1, <1>4 DEF PassDone, Awaits
  <2>2. PatchedBits'
    BY <1>1, <1>2, <2>1 DEF StaleInv, PatchedBits
  <2>3. PatchedNets'
    BY <1>1, <1>2, <2>1 DEF StaleInv, PatchedNets
  <2> QED
    BY <1>3, <2>2, <2>3
<1>5. CASE a # "patch"
  <2>1. /\ pc'["patch"] = pc["patch"] /\ touched' = touched
        /\ \A w : Awaits("patch", w)' <=> Awaits("patch", w)
    BY <1>t, <1>1, <1>5 DEF TypeOK, Awaits
  <2>2. PatchedBits'
    BY <1>1, <1>2, <2>1 DEF StaleInv, PatchedBits
  <2>3. PatchedNets'
    BY <1>1, <1>2, <2>1 DEF StaleInv, PatchedNets
  <2> QED
    BY <1>3, <2>2, <2>3
<1> QED
  BY <1>4, <1>5

\* The price, the memo and the start of a window write no slot.
LEMMA QuietExplained ==
  ASSUME StaleInv,
         (\E w \in Words : Swap(w)) \/ ClearMemo \/ FillMemo \/ StartWindow
  PROVE  HeldIsCurrent' /\ PatchedBits' /\ PatchedNets'
<1>t. TypeOK /\ "patch" \in Writers /\ "window" # "patch"
  BY DEF StaleInv, Writers
<1>1. /\ UNCHANGED <<liq, bitmap, net, got, touched, last, missed, outdated>>
      /\ pc'["patch"] = pc["patch"] /\ todo'["patch"] = todo["patch"]
  BY <1>t DEF Swap, ClearMemo, FillMemo, StartWindow, history, TypeOK
<1>2. \A w : InLogs(w) => InLogs(w)'
  <2>1. CASE logs' = logs
    BY <2>1 DEF InLogs
  <2>2. CASE logs' = Append(logs, {})
    BY <1>t, <2>2, LogsGrow
  <2> QED
    BY <2>1, <2>2 DEF Swap, ClearMemo, FillMemo, StartWindow
<1>3. \A w : (Bit(w)' = Bit(w)) /\ (Awaits("patch", w)' <=> Awaits("patch", w))
  BY <1>1 DEF Bit, Awaits
<1>4. HeldIsCurrent'
  BY <1>1, <1>2 DEF StaleInv, HeldIsCurrent
<1>5. PatchedBits'
  BY <1>1, <1>2, <1>3 DEF StaleInv, PatchedBits
<1>6. PatchedNets'
  BY <1>1, <1>2, <1>3 DEF StaleInv, PatchedNets
<1> QED
  BY <1>4, <1>5, <1>6

\* A patch is idle only after it has inserted its answers.
LEMMA RestingPatchKept ==
  ASSUME TypeOK, RestingPatch, Next PROVE RestingPatch'
<1> SUFFICES ASSUME pc'["patch"] = "idle"
             PROVE  todo'["patch"] = {} /\ \A w \in Words : got'["patch"][w] = Unset
  BY DEF RestingPatch, PassDone
<1>p. "patch" \in Writers /\ "window" # "patch"
  BY DEF Writers
<1>1. ASSUME NEW a \in Writers, Finish(a)
      PROVE  todo'["patch"] = {} /\ \A w \in Words : got'["patch"][w] = Unset
  BY <1>p, <1>1 DEF Finish, PassDone, RestingPatch, TypeOK
<1>2. ASSUME NEW a \in Writers, NEW w \in Words, Answer(a, w) \/ Fail(a, w) \/ Insert(a, w)
      PROVE  todo'["patch"] = {} /\ \A v \in Words : got'["patch"][v] = Unset
  BY <1>p, <1>2 DEF Answer, Fail, Insert, PassDone, RestingPatch, TypeOK
<1>3. ASSUME NEW a \in Writers, SecondPass(a)
      PROVE  todo'["patch"] = {} /\ \A v \in Words : got'["patch"][v] = Unset
  BY <1>p, <1>3 DEF SecondPass, PassDone, RestingPatch, TypeOK
<1>4. CASE StartWindow \/ StartPatch
  BY <1>p, <1>4 DEF StartWindow, StartPatch, PassDone, RestingPatch, TypeOK
<1>5. CASE UNCHANGED <<pc, todo, got>>
  BY <1>5 DEF PassDone, RestingPatch
<1> QED
  BY <1>1, <1>2, <1>3, <1>4, <1>5
  DEF Next, ChangeLiquidity, MissLiquidity, Swap, ClearMemo, FillMemo, PassSwap

\* Every step of the cache keeps the explanations.
LEMMA StaleStep == StaleInv /\ Next => StaleInv'
<1> SUFFICES ASSUME StaleInv, Next
             PROVE  HeldIsCurrent' /\ PatchedBits' /\ PatchedNets'
  BY TypeStep, RestingPatchKept DEF StaleInv
<1>1. ASSUME NEW a \in Writers, NEW w \in Words, Answer(a, w) \/ Fail(a, w) \/ Insert(a, w)
      PROVE  HeldIsCurrent' /\ PatchedBits' /\ PatchedNets'
  BY <1>1, AnswerExplained, FailExplained, InsertExplained
<1>2. ASSUME NEW a \in Writers, SecondPass(a) \/ Finish(a)
      PROVE  HeldIsCurrent' /\ PatchedBits' /\ PatchedNets'
  BY <1>2, SecondPassExplained, FinishExplained
<1>3. ASSUME NEW lo \in Words, NEW hi \in Words, NEW n \in 0..MaxLiq,
             ChangeLiquidity(lo, hi, n) \/ MissLiquidity(lo, hi, n)
      PROVE  HeldIsCurrent' /\ PatchedBits' /\ PatchedNets'
  BY <1>3, ChangeExplained
<1> QED
  BY <1>1, <1>2, <1>3, StartPatchExplained, PassSwapExplained, QuietExplained DEF Next

-----------------------------------------------------------------------------
(* No bit is left without its net.                                         *)

\* Writer a is to read the net of w: it is still reading bits and will find the
\* bit of w in its range, or the net's own read is under way.
WillRead(a, w) ==
  \/ pc[a] = "bits" /\ w \in Scanned(a)
  \/ pc[a] = "nets" /\ Awaits(a, w)

NetAccounted ==
  \A w \in Words :
    bitmap[w] = TRUE =>
      net[w] # Unset \/ Failed("nets", w) \/ \E a \in Writers : WillRead(a, w)

\* The bits a writer is about to write are in the range it will read nets of.
ReadsScanned ==
  \A a \in Writers : pc[a] = "bits" => \A w \in Words : Awaits(a, w) => w \in Scanned(a)

\* A writer between two passes waits for nothing.
RestingCache == \A a \in Writers : pc[a] = "idle" => PassDone(a)

NetInv == TypeOK /\ RestingCache /\ ReadsScanned /\ NetAccounted

\* A pass begins with what it scans.
LEMMA PassBegins ==
  ASSUME NetInv, StartPatch \/ StartWindow
  PROVE  NetInv'
<1>t. TypeOK /\ TypeOK'
  BY TypeStep DEF NetInv, Next
<1>1. UNCHANGED <<bitmap, net, got, last>>
  BY DEF StartPatch, StartWindow, history
<1>2. PICK a \in Writers : /\ pc[a] = "idle" /\ pc' = [pc EXCEPT ![a] = "bits"]
                           /\ todo' = [todo EXCEPT ![a] = Scanned(a)']
                           /\ a = "patch" => centre' = centre
                           /\ a = "window" => touched' = touched
  <2>1. CASE StartPatch
    BY <2>1 DEF StartPatch, Scanned, Writers
  <2>2. CASE StartWindow
    BY <2>2 DEF StartWindow, Scanned, Writers, Around
  <2> QED
    BY <2>1, <2>2
<1>3. \A b \in Writers : b # a =>
        /\ pc'[b] = pc[b] /\ todo'[b] = todo[b]
        /\ Scanned(b)' = Scanned(b)
        /\ \A w : Awaits(b, w)' <=> Awaits(b, w)
  <2> TAKE b \in Writers
  <2> HAVE b # a
  <2>1. pc'[b] = pc[b] /\ todo'[b] = todo[b]
    BY <1>t, <1>2 DEF TypeOK
  <2>2. Scanned(b)' = Scanned(b)
    BY <1>2 DEF Scanned, Around, Writers
  <2> QED
    BY <1>1, <2>1, <2>2 DEF Awaits
<1>4. pc'[a] = "bits" /\ todo'[a] = Scanned(a)' /\ \A w \in Words : got'[a][w] = Unset
  BY <1>t, <1>1, <1>2 DEF TypeOK, NetInv, RestingCache, PassDone
<1>5. RestingCache'
  BY <1>1, <1>3, <1>4 DEF NetInv, RestingCache, PassDone
<1>6. ReadsScanned'
  BY <1>3, <1>4 DEF NetInv, ReadsScanned, Awaits
<1>7. ASSUME NEW w \in Words, NEW b \in Writers, WillRead(b, w) PROVE WillRead(b, w)'
  <2>1. b # a
    BY <1>2, <1>7 DEF WillRead
  <2> QED
    BY <1>3, <1>7, <2>1 DEF WillRead
<1>8. NetAccounted'
  BY <1>1, <1>7 DEF NetInv, NetAccounted, Failed
<1> QED
  BY <1>t, <1>5, <1>6, <1>8 DEF NetInv

\* An answer is held, a failed read is recorded.
LEMMA ReadEnds ==
  ASSUME NetInv, NEW a \in Writers, NEW w \in Words, Answer(a, w) \/ Fail(a, w)
  PROVE  NetInv'
<1>t. TypeOK /\ TypeOK' /\ w \in todo[a] /\ Next
  BY TypeStep DEF NetInv, Next, Answer, Fail
<1>1. /\ todo' = [todo EXCEPT ![a] = @ \ {w}]
      /\ UNCHANGED <<bitmap, net, pc, touched, centre>>
      /\ got' = [got EXCEPT ![a][w] = liq[w]] \/ got' = got
  BY DEF Answer, Fail, history
<1>a. \A b \in Writers : Scanned(b)' = Scanned(b)
  BY <1>1 DEF Scanned, Around
<1>2. \A b \in Writers, v \in Words : Awaits(b, v)' => Awaits(b, v)
  BY <1>t, <1>1 DEF TypeOK, Awaits
<1>3. \A b \in Writers, v \in Words : Awaits(b, v) =>
        Awaits(b, v)' \/ (b = a /\ v = w /\ Fail(a, w))
  <2>1. liq[w] # Unset
    BY <1>t, TickCacheAssumption DEF TypeOK
  <2>2. CASE Answer(a, w)
    <3> SUFFICES ASSUME NEW b \in Writers, NEW v \in Words,
                        v \in todo[b] \/ got[b][v] # Unset
                 PROVE  v \in todo'[b] \/ got'[b][v] # Unset
      BY DEF Awaits
    <3>1. got' = [got EXCEPT ![a][w] = liq[w]]
      BY <2>2 DEF Answer
    <3>2. CASE b = a /\ v = w
      BY <1>t, <2>1, <3>1, <3>2 DEF TypeOK
    <3>3. CASE ~(b = a /\ v = w)
      BY <1>t, <1>1, <3>1, <3>3 DEF TypeOK
    <3> QED
      BY <3>2, <3>3
  <2>3. CASE Fail(a, w)
    <3>1. got' = got
      BY <2>3 DEF Fail
    <3> QED
      BY <1>t, <1>1, <2>3, <3>1 DEF TypeOK, Awaits
  <2> QED
    BY <2>2, <2>3
<1>4. \A v \in Words : Failed("nets", v) => Failed("nets", v)'
  BY <1>t DEF Answer, Fail, Failed, TypeOK, history, Slots
<1>5. Fail(a, w) /\ pc[a] = "nets" => Failed("nets", w)'
  BY <1>t DEF Fail, Failed, TypeOK, Slots
<1>6. RestingCache'
  BY <1>t, <1>1, <1>2 DEF NetInv, RestingCache, PassDone, Awaits
<1>7. ReadsScanned'
  BY <1>1, <1>a, <1>2 DEF NetInv, ReadsScanned
<1>8. NetAccounted'
  <2> SUFFICES ASSUME NEW v \in Words, bitmap[v] = TRUE, net[v] = Unset, ~Failed("nets", v)'
               PROVE  \E b \in Writers : WillRead(b, v)'
    BY <1>1 DEF NetAccounted
  <2>1. PICK b \in Writers : WillRead(b, v)
    BY <1>4 DEF NetInv, NetAccounted
  <2>2. WillRead(b, v)'
    BY <1>1, <1>a, <1>3, <1>5, <2>1 DEF WillRead
  <2> QED
    BY <2>2
<1> QED
  BY <1>t, <1>6, <1>7, <1>8 DEF NetInv

\* A bit is written in the range of its writer's second pass, and a net that is
\* written is there.
LEMMA InsertAccounted ==
  ASSUME NetInv, NEW a \in Writers, NEW w \in Words, Insert(a, w)
  PROVE  NetInv'
<1>t. TypeOK /\ TypeOK' /\ Next
  BY TypeStep DEF NetInv, Next
<1>1. /\ got[a][w] # Unset /\ got' = [got EXCEPT ![a][w] = Unset]
      /\ last' = [last EXCEPT ![<<pc[a], w>>] = a]
      /\ pc[a] \in {"bits", "nets"}
      /\ UNCHANGED <<pc, touched, todo, centre>>
  BY DEF Insert
<1>2. /\ pc[a] = "bits" => bitmap' = [bitmap EXCEPT ![w] = got[a][w] # 0] /\ UNCHANGED net
      /\ pc[a] = "nets" => net' = [net EXCEPT ![w] = got[a][w]] /\ UNCHANGED bitmap
  BY DEF Insert
<1>a. \A b \in Writers : Scanned(b)' = Scanned(b)
  BY <1>1 DEF Scanned, Around
<1>3. \A b \in Writers, v \in Words : Awaits(b, v)' => Awaits(b, v)
  BY <1>t, <1>1 DEF TypeOK, Awaits
<1>4. \A b \in Writers, v \in Words : Awaits(b, v) => Awaits(b, v)' \/ (b = a /\ v = w)
  BY <1>t, <1>1 DEF TypeOK, Awaits
<1>5. RestingCache'
  BY <1>t, <1>1, <1>3 DEF NetInv, RestingCache, PassDone, Awaits
<1>6. ReadsScanned'
  BY <1>1, <1>a, <1>3 DEF NetInv, ReadsScanned
<1>7. NetAccounted'
  <2> SUFFICES ASSUME NEW v \in Words, bitmap'[v] = TRUE, net'[v] = Unset, ~Failed("nets", v)'
               PROVE  \E b \in Writers : WillRead(b, v)'
    BY DEF NetAccounted
  <2>1. CASE pc[a] = "bits" /\ v = w
    <3>1. w \in Scanned(a)
      BY <1>1, <2>1 DEF NetInv, ReadsScanned, Awaits
    <3> QED
      BY <1>1, <1>a, <2>1, <3>1 DEF WillRead
  <2>2. CASE pc[a] = "nets" /\ v = w
    BY <1>t, <1>1, <1>2, <2>2 DEF TypeOK
  <2>3. CASE v # w
    <3>1. bitmap[v] = TRUE /\ net[v] = Unset
      BY <1>t, <1>1, <1>2, <2>3 DEF TypeOK
    <3>2. ~Failed("nets", v)
      BY <1>t, <1>1, <2>3 DEF Failed, TypeOK, Slots
    <3>3. PICK b \in Writers : WillRead(b, v)
      BY <3>1, <3>2 DEF NetInv, NetAccounted
    <3>4. WillRead(b, v)'
      BY <1>1, <1>a, <1>4, <2>3, <3>3 DEF WillRead
    <3> QED
      BY <3>4
  <2> QED
    BY <1>1, <2>1, <2>2, <2>3
<1> QED
  BY <1>t, <1>5, <1>6, <1>7 DEF NetInv

\* The second pass reads every bit of its range that is set, whoever set it.
LEMMA PassTurns ==
  ASSUME NetInv, NEW a \in Writers, SecondPass(a) \/ Finish(a)
  PROVE  NetInv'
<1>t. TypeOK /\ TypeOK'
  BY TypeStep DEF NetInv, Next
<1>1. /\ UNCHANGED <<bitmap, net, got, last>> /\ PassDone(a)
      /\ \A w \in Words : ~Awaits(a, w)
  BY DEF SecondPass, Finish, history, PassDone, Awaits
<1>2. \A b \in Writers : b # a =>
        /\ pc'[b] = pc[b] /\ todo'[b] = todo[b] /\ Scanned(b)' = Scanned(b)
        /\ \A w : Awaits(b, w)' <=> Awaits(b, w)
  <2>1. \A b \in Writers : b # a => pc'[b] = pc[b] /\ todo'[b] = todo[b]
    BY <1>t DEF SecondPass, Finish, TypeOK
  <2>2. \A b \in Writers : b # a => Scanned(b)' = Scanned(b)
    BY DEF SecondPass, Finish, Scanned, Around, Writers
  <2> QED
    BY <1>1, <2>1, <2>2 DEF Awaits
<1>3. pc'[a] \in {"nets", "idle"} /\ pc[a] # "idle"
  BY <1>t DEF SecondPass, Finish, TypeOK
<1>4. pc'[a] = "idle" => PassDone(a)'
  BY <1>t, <1>1 DEF SecondPass, Finish, TypeOK, PassDone
<1>5. RestingCache'
  BY <1>1, <1>2, <1>4 DEF NetInv, RestingCache, PassDone
<1>6. ReadsScanned'
  BY <1>2, <1>3 DEF NetInv, ReadsScanned
<1>7. NetAccounted'
  <2> SUFFICES ASSUME NEW w \in Words, bitmap[w] = TRUE, net[w] = Unset, ~Failed("nets", w)
               PROVE  \E b \in Writers : WillRead(b, w)'
    BY <1>1 DEF NetAccounted, Failed
  <2>1. PICK b \in Writers : WillRead(b, w)
    BY DEF NetInv, NetAccounted
  <2>2. CASE b # a
    <3>1. WillRead(b, w)'
      BY <1>2, <2>1, <2>2 DEF WillRead
    <3> QED
      BY <3>1
  <2>3. CASE b = a
    <3>1. SecondPass(a) /\ w \in Scanned(a)
      BY <1>1, <2>1, <2>3 DEF WillRead, SecondPass, Finish
    <3>2. w \in todo'[a] /\ pc'[a] = "nets"
      BY <1>t, <3>1 DEF SecondPass, NetsToRead, TypeOK
    <3>3. WillRead(a, w)'
      BY <3>2 DEF WillRead, Awaits
    <3> QED
      BY <3>3
  <2> QED
    BY <2>2, <2>3
<1> QED
  BY <1>t, <1>5, <1>6, <1>7 DEF NetInv

\* Every step of the cache leaves each bit with a net, a failed read of it, or
\* a writer that will read it.
LEMMA NetStep == NetInv /\ Next => NetInv'
<1> SUFFICES ASSUME NetInv, Next PROVE NetInv'
  OBVIOUS
<1>1. CASE StartPatch \/ StartWindow
  BY <1>1, PassBegins
<1>2. ASSUME NEW a \in Writers, NEW w \in Words, Answer(a, w) \/ Fail(a, w) PROVE NetInv'
  BY <1>2, ReadEnds
<1>3. ASSUME NEW a \in Writers, NEW w \in Words, Insert(a, w) PROVE NetInv'
  BY <1>3, InsertAccounted
<1>4. ASSUME NEW a \in Writers, SecondPass(a) \/ Finish(a) PROVE NetInv'
  BY <1>4, PassTurns
<1>5. ASSUME UNCHANGED <<bitmap, net, pc, touched, todo, got, centre, last>> PROVE NetInv'
  <2>1. TypeOK'
    BY TypeStep DEF NetInv
  <2>2. RestingCache'
    BY <1>5 DEF NetInv, RestingCache, PassDone
  <2>3. ReadsScanned'
    BY <1>5 DEF NetInv, ReadsScanned, Awaits, Scanned, Around
  <2>4. NetAccounted'
    BY <1>5 DEF NetInv, NetAccounted, WillRead, Awaits, Scanned, Around, Failed
  <2> QED
    BY <2>1, <2>2, <2>3, <2>4 DEF NetInv
<1>6. ASSUME NEW lo \in Words, NEW hi \in Words, NEW n \in 0..MaxLiq,
             ChangeLiquidity(lo, hi, n) \/ MissLiquidity(lo, hi, n)
      PROVE  NetInv'
  BY <1>5, <1>6 DEF ChangeLiquidity, MissLiquidity, history
<1>7. ASSUME (\E w \in Words : Swap(w)) \/ ClearMemo \/ FillMemo \/ PassSwap PROVE NetInv'
  BY <1>5, <1>7 DEF Swap, ClearMemo, FillMemo, PassSwap, history
<1> QED
  BY <1>1, <1>2, <1>3, <1>4, <1>6, <1>7 DEF Next

-----------------------------------------------------------------------------
(* The composition.                                                        *)

\* A step of the system is a step of the cache, or leaves it alone but for the
\* bound on events.
LEMMA SystemIsCache ==
  ASSUME SystemNext
  PROVE  \/ Next
         \/ UNCHANGED <<liq, price, slot0, bitmap, net, logs, pc, touched, todo, got,
                        centre, history>> /\ (UNCHANGED events \/ Bounded)
<1> USE DEF vars
<1>1. CASE Surroundings
  BY <1>1 DEF Surroundings, Next
<1>2. CASE BeginLog \/ BeginWindow
  BY <1>2 DEF BeginLog, BeginWindow, Next
<1>3. CASE EndLog \/ EndWindow
  BY <1>3 DEF EndLog, EndWindow, Next, Writers
<1>4. CASE Close \/ LoopStep
  BY <1>4 DEF Close, LoopStep
<1>5. CASE \E p \in Others : OtherLog(p)
  BY <1>5 DEF OtherLog
<1>6. CASE Reads
  BY <1>6 DEF Reads, Next
<1> QED
  BY <1>1, <1>2, <1>3, <1>4, <1>5, <1>6 DEF SystemNext

\* A step that leaves the cache alone keeps what is said of it.
LEMMA CacheUntouched ==
  ASSUME UNCHANGED <<liq, price, slot0, bitmap, net, logs, pc, touched, todo, got,
                     centre, history>>,
         UNCHANGED events \/ Bounded
  PROVE  (StaleInv => StaleInv') /\ (NetInv => NetInv') /\ (TypeOK => TypeOK')
<1>1. TypeOK => TypeOK'
  BY TickCacheAssumption, SMTT(40) DEF TypeOK, history, Bounded
<1>2. StaleInv => StaleInv'
  BY <1>1 DEF StaleInv, RestingPatch, PassDone, HeldIsCurrent, PatchedBits, PatchedNets,
     InLogs, Awaits, Bit, history
<1>3. NetInv => NetInv'
  BY <1>1 DEF NetInv, RestingCache, PassDone, ReadsScanned, NetAccounted, WillRead, Awaits,
     Scanned, Around, Failed, history
<1> QED
  BY <1>1, <1>2, <1>3

\* A slot that stays behind the chain was not written last by a patch, or was
\* last read before a change that no log told of: the patches of successive
\* events never undo each other, nor does a swap, a re-centring or a cleared
\* memo between them, for any words, ranges and number of events.
THEOREM StaleHasCauseTheorem == SystemSpec => []StaleHasCause
<1>1. SystemInit => StaleInv
  <2> SUFFICES ASSUME Init PROVE StaleInv
    BY DEF SystemInit
  <2>1. TypeOK
    BY TypeInit
  <2>2. /\ \A s \in Slots : last[s] = "window"
        /\ \A a \in Writers, w \in Words : got[a][w] = Unset
        /\ \A a \in Writers : todo[a] = {}
    BY DEF Init
  <2>3. "patch" \in Writers /\ \A w \in Words : <<"bits", w>> \in Slots /\ <<"nets", w>> \in Slots
    BY DEF Writers, Slots
  <2> QED
    BY <2>1, <2>2, <2>3
    DEF StaleInv, RestingPatch, PassDone, HeldIsCurrent, PatchedBits, PatchedNets
<1>2. StaleInv /\ [SystemNext]_<<vars, resync>> => StaleInv'
  <2>1. UNCHANGED <<vars, resync>> =>
          UNCHANGED <<liq, price, slot0, bitmap, net, logs, pc, touched, todo, got, centre,
                      history, events>>
    BY DEF vars
  <2> QED
    BY <2>1, StaleStep, SystemIsCache, CacheUntouched
<1>3. StaleInv => StaleHasCause
  <2> SUFFICES ASSUME StaleInv, NEW w \in Words
               PROVE  /\ BitStale(w) => last[<<"bits", w>>] # "patch" \/ <<"bits", w>> \in missed
                      /\ NetStale(w) => last[<<"nets", w>>] # "patch" \/ <<"nets", w>> \in missed
    BY DEF StaleHasCause
  <2>1. ~ChangeComing(w) => ~InLogs(w) /\ w \notin touched
    BY DEF ChangeComing, InLogs
  <2>2. BitStale(w) => last[<<"bits", w>>] # "patch" \/ <<"bits", w>> \in missed
    BY <2>1 DEF StaleInv, PatchedBits, BitStale, Bit
  <2>3. NetStale(w) => last[<<"nets", w>>] # "patch" \/ <<"nets", w>> \in missed
    BY <2>1 DEF StaleInv, PatchedNets, NetStale
  <2> QED
    BY <2>2, <2>3
<1> QED
  BY <1>1, <1>2, <1>3, PTL DEF SystemSpec

\* In whatever order the two passes of the patch and of the window overlap, a
\* tick whose bit the cache shows has its net liquidity when both rest, unless
\* the read of it failed: the writer that is to read a net is the one that set
\* the bit, or one whose range covers it.
THEOREM RestingCacheHasNetsTheorem == SystemSpec => []RestingCacheHasNets
<1>1. SystemInit => NetInv
  <2> SUFFICES ASSUME Init PROVE NetInv
    BY DEF SystemInit
  <2>1. TypeOK
    BY TypeInit
  <2>2. /\ \A a \in Writers, w \in Words : got[a][w] = Unset
        /\ \A a \in Writers : todo[a] = {} /\ pc[a] = "idle"
    BY DEF Init
  <2>3. \A w \in Words : bitmap[w] # TRUE
    <3>1. Unset # TRUE
      BY TickCacheAssumption
    <3> QED
      BY <3>1 DEF Init
  <2> QED
    BY <2>1, <2>2, <2>3 DEF NetInv, RestingCache, PassDone, ReadsScanned, NetAccounted
<1>2. NetInv /\ [SystemNext]_<<vars, resync>> => NetInv'
  <2>1. UNCHANGED <<vars, resync>> =>
          UNCHANGED <<liq, price, slot0, bitmap, net, logs, pc, touched, todo, got, centre,
                      history, events>>
    BY DEF vars
  <2> QED
    BY <2>1, NetStep, SystemIsCache, CacheUntouched
<1>3. NetInv => RestingCacheHasNets
  <2>1. pc["patch"] = "idle" /\ pc["window"] = "idle" =>
          \A a \in Writers, w \in Words : ~WillRead(a, w)
    BY DEF WillRead, Writers
  <2> QED
    BY <2>1 DEF NetInv, NetAccounted, RestingCacheHasNets
<1> QED
  BY <1>1, <1>2, <1>3, PTL DEF SystemSpec

-----------------------------------------------------------------------------
(* Accepted triggers.                                                      *)

AllPools == {pool} \cup Others

\* The loop reads windows only while it hydrates, has nothing left when it has
\* ended, and a window is under way only while its pool is being hydrated.
LoopInOrder ==
  /\ loop # "hydrate" => hydrating = {}
  /\ loop = "done" => closed /\ queue = << >> /\ pending = {}
  /\ pc["window"] # "idle" => pool \in hydrating

QueueInv ==
  /\ SystemTypeOK
  /\ LoopInOrder
  /\ R!AcceptedIsOnItsWay

\* What a queue holds after a trigger and after the loop has taken one.
LEMMA QueueContents ==
  ASSUME R!TypeOK
  PROVE  /\ \A p \in AllPools : queue' = Append(queue, p) =>
              /\ queue' \in Seq(AllPools) /\ Len(queue') = Len(queue) + 1
              /\ R!ToSet(queue') = R!ToSet(queue) \cup {p}
         /\ queue # << >> /\ queue' = Tail(queue) =>
              /\ queue' \in Seq(AllPools) /\ Len(queue') = Len(queue) - 1
              /\ Head(queue) \in AllPools
              /\ R!ToSet(queue) \subseteq R!ToSet(queue') \cup {Head(queue)}
         /\ R!ToSet(<< >>) = {}
         /\ Len(queue) \in Nat /\ queue \in Seq(AllPools) /\ R!ToSet(queue) \subseteq AllPools
<1>1. queue \in Seq(AllPools)
  BY DEF R!TypeOK, AllPools
<1>2. ASSUME NEW p \in AllPools, queue' = Append(queue, p)
      PROVE  /\ queue' \in Seq(AllPools) /\ Len(queue') = Len(queue) + 1
             /\ R!ToSet(queue') = R!ToSet(queue) \cup {p}
  <2>1. /\ queue' \in Seq(AllPools) /\ Len(queue') = Len(queue) + 1
        /\ queue'[Len(queue) + 1] = p /\ \A k \in 1..Len(queue) : queue'[k] = queue[k]
        /\ Len(queue) \in Nat
    BY <1>1, <1>2
  <2>2. DOMAIN queue' = 1..(Len(queue) + 1) /\ DOMAIN queue = 1..Len(queue)
    BY <1>1, <2>1
  <2> QED
    BY <2>1, <2>2 DEF R!ToSet
<1>3. ASSUME queue # << >>, queue' = Tail(queue)
      PROVE  /\ queue' \in Seq(AllPools) /\ Len(queue') = Len(queue) - 1
             /\ Head(queue) \in AllPools
             /\ R!ToSet(queue) \subseteq R!ToSet(queue') \cup {Head(queue)}
  <2>1. /\ queue' \in Seq(AllPools) /\ Len(queue') = Len(queue) - 1 /\ Len(queue) \in Nat
        /\ Head(queue) = queue[1] /\ Head(queue) \in AllPools
        /\ \A k \in 1..Len(queue') : queue'[k] = queue[k + 1]
    BY <1>1, <1>3
  <2>2. DOMAIN queue' = 1..(Len(queue) - 1) /\ DOMAIN queue = 1..Len(queue)
    BY <1>1, <2>1
  <2>3. ASSUME NEW k \in 1..Len(queue), k # 1 PROVE queue[k] \in R!ToSet(queue')
    <3>1. k - 1 \in 1..Len(queue') /\ queue'[k - 1] = queue[k]
      BY <2>1, <2>3
    <3> QED
      BY <2>1, <2>2, <3>1 DEF R!ToSet
  <2> QED
    BY <2>1, <2>2, <2>3 DEF R!ToSet
<1>4. R!ToSet(<< >>) = {}
  BY DEF R!ToSet
<1>5. Len(queue) \in Nat /\ R!ToSet(queue) \subseteq AllPools
  BY <1>1 DEF R!ToSet
<1> QED
  BY <1>1, <1>2, <1>3, <1>4, <1>5

\* A trigger is queued and owed, or dropped.
LEMMA TriggerKeeps ==
  ASSUME QueueInv, NEW p \in AllPools, R!Trigger(p),
         pc'["window"] = pc["window"]
  PROVE  R!TypeOK' /\ LoopInOrder' /\ R!AcceptedIsOnItsWay'
<1>t. R!TypeOK
  BY DEF QueueInv, SystemTypeOK
<1>1. ~closed /\ UNCHANGED <<closed, pending, age, hydrating, loop>>
  BY DEF R!Trigger
<1>2. CASE queue' = Append(queue, p) /\ owed' = owed \cup {p} /\ Len(queue) < Cap
  <2>1. /\ queue' \in Seq(AllPools) /\ Len(queue') = Len(queue) + 1 /\ Len(queue) \in Nat
        /\ R!ToSet(queue') = R!ToSet(queue) \cup {p}
    BY <1>t, <1>2, QueueContents
  <2>2. R!TypeOK'
    BY <1>t, <1>1, <1>2, <2>1, TickSystemAssumption
    DEF R!TypeOK, AllPools, R!TickResyncAssumption
  <2> QED
    BY <1>1, <1>2, <2>1, <2>2 DEF QueueInv, LoopInOrder, R!AcceptedIsOnItsWay
<1>3. CASE UNCHANGED <<queue, owed>>
  BY <1>t, <1>1, <1>3 DEF QueueInv, LoopInOrder, R!AcceptedIsOnItsWay, R!TypeOK
<1> QED
  BY <1>2, <1>3 DEF R!Trigger

\* The window of a pool is read: it is owed again only if it is queued again.
LEMMA HydrateKeeps ==
  ASSUME QueueInv, NEW p \in AllPools, R!Hydrate(p),
         p = pool => pc'["window"] = "idle",
         p # pool => pc'["window"] = pc["window"]
  PROVE  R!TypeOK' /\ LoopInOrder' /\ R!AcceptedIsOnItsWay'
<1>t. R!TypeOK
  BY DEF QueueInv, SystemTypeOK
<1>1. /\ p \in hydrating /\ hydrating' = hydrating \ {p}
      /\ owed' = owed \ ({p} \ R!ToSet(queue))
      /\ loop' = IF hydrating = {p} THEN "recv" ELSE loop
      /\ UNCHANGED <<queue, closed, pending, age>>
  BY DEF R!Hydrate
<1>2. loop = "hydrate"
  BY <1>1 DEF QueueInv, LoopInOrder
<1>3. R!TypeOK'
  BY <1>t, <1>1 DEF R!TypeOK
<1>4. LoopInOrder'
  BY <1>1, <1>2 DEF QueueInv, LoopInOrder
<1>5. R!AcceptedIsOnItsWay'
  BY <1>1 DEF QueueInv, R!AcceptedIsOnItsWay
<1> QED
  BY <1>3, <1>4, <1>5

\* The loop's own steps pass the pools on: from the queue to the collected
\* ones, and from those to the ones being read.
LEMMA LoopKeeps ==
  ASSUME QueueInv, R!Receive \/ R!Wait \/ R!Flush \/ R!Return \/ R!Close,
         pc'["window"] = pc["window"]
  PROVE  R!TypeOK' /\ LoopInOrder' /\ R!AcceptedIsOnItsWay'
<1>t. R!TypeOK
  BY DEF QueueInv, SystemTypeOK
<1>w. Window \in Nat \ {0}
  BY TickSystemAssumption DEF R!TickResyncAssumption
<1>1. CASE R!Receive
  <2>1. /\ queue # << >> /\ queue' = Tail(queue) /\ pending' = pending \cup {Head(queue)}
        /\ age' = 0 /\ loop = "recv" /\ UNCHANGED <<closed, hydrating, loop, owed>>
    BY <1>1, SMTT(40) DEF R!Receive, R!Collected
  <2>2. /\ queue' \in Seq(AllPools) /\ Len(queue') = Len(queue) - 1 /\ Len(queue) \in Nat
        /\ Head(queue) \in AllPools
        /\ R!ToSet(queue) \subseteq R!ToSet(queue') \cup {Head(queue)}
    BY <1>t, <2>1, QueueContents
  <2>3. R!TypeOK'
    <3>1. Len(queue') <= Cap
      BY <1>t, <2>2, TickSystemAssumption DEF R!TypeOK, R!TickResyncAssumption
    <3> QED
      BY <1>t, <1>w, <2>1, <2>2, <3>1 DEF R!TypeOK, AllPools
  <2> QED
    BY <2>1, <2>2, <2>3 DEF QueueInv, LoopInOrder, R!AcceptedIsOnItsWay
<1>2. CASE R!Wait
  <2>1. age' \in 0..Window
    BY <1>t, <1>w, <1>2 DEF R!Wait, R!WindowOpen, R!TypeOK
  <2> QED
    BY <1>t, <1>2, <2>1 DEF R!Wait, QueueInv, LoopInOrder, R!AcceptedIsOnItsWay, R!TypeOK
<1>3. CASE R!Flush
  <2>1. /\ loop = "recv" /\ loop' = "hydrate" /\ hydrating' = pending /\ pending' = {}
        /\ age' = 0 /\ UNCHANGED <<queue, closed, owed>>
    BY <1>3 DEF R!Flush
  <2>2. R!TypeOK'
    BY <1>t, <1>w, <2>1 DEF R!TypeOK
  <2> QED
    BY <2>1, <2>2 DEF QueueInv, LoopInOrder, R!AcceptedIsOnItsWay
<1>4. CASE R!Return
  BY <1>t, <1>4 DEF R!Return, R!Drained, QueueInv, LoopInOrder, R!AcceptedIsOnItsWay, R!TypeOK
<1>5. CASE R!Close
  BY <1>t, <1>5 DEF R!Close, QueueInv, LoopInOrder, R!AcceptedIsOnItsWay, R!TypeOK
<1> QED
  BY <1>1, <1>2, <1>3, <1>4, <1>5

\* A step of the cache alone begins and ends no window.
LEMMA CacheStepKeeps ==
  ASSUME QueueInv, UNCHANGED resync, pc'["window"] = "idle" <=> pc["window"] = "idle"
  PROVE  R!TypeOK' /\ LoopInOrder' /\ R!AcceptedIsOnItsWay'
BY DEF QueueInv, SystemTypeOK, resync, R!TypeOK, LoopInOrder, R!AcceptedIsOnItsWay

\* Every step of the system keeps the triggers on their way.
LEMMA QueueStep == QueueInv /\ [SystemNext]_<<vars, resync>> => QueueInv'
<1> SUFFICES ASSUME QueueInv, [SystemNext]_<<vars, resync>>
             PROVE  TypeOK' /\ R!TypeOK' /\ LoopInOrder' /\ R!AcceptedIsOnItsWay'
  BY DEF QueueInv, SystemTypeOK
<1>t. TypeOK /\ "window" \in Writers /\ "window" # "patch"
  BY DEF QueueInv, SystemTypeOK, Writers
<1>a. TypeOK'
  <2>1. UNCHANGED <<vars, resync>> =>
          UNCHANGED <<liq, price, slot0, bitmap, net, logs, pc, touched, todo, got, centre,
                      history, events>>
    BY DEF vars
  <2> QED
    BY <1>t, <2>1, TypeStep, SystemIsCache, CacheUntouched
<1>p. pool \in AllPools /\ \A p \in Others : p \in AllPools /\ p # pool
  BY TickSystemAssumption DEF AllPools
<1>1. CASE Surroundings \/ BeginLog \/ Reads \/ UNCHANGED <<vars, resync>>
  <2>1. UNCHANGED resync
    BY <1>1 DEF Surroundings, BeginLog, Reads
  <2>2. pc'["window"] = "idle" <=> pc["window"] = "idle"
    BY <1>t, <1>1 DEF Surroundings, ChangeLiquidity, MissLiquidity, Swap, ClearMemo, FillMemo,
       BeginLog, StartPatch, Reads, SecondPass, Answer, Fail, Insert, vars, TypeOK
  <2> QED
    BY <1>a, <2>1, <2>2, CacheStepKeeps
<1>2. CASE EndLog
  <2>1. pc'["window"] = pc["window"]
    BY <1>t, <1>2 DEF EndLog, PassSwap, Finish, TypeOK
  <2> QED
    BY <1>a, <1>p, <1>2, <2>1, TriggerKeeps DEF EndLog
<1>3. ASSUME NEW p \in Others, OtherLog(p)
      PROVE  TypeOK' /\ R!TypeOK' /\ LoopInOrder' /\ R!AcceptedIsOnItsWay'
  BY <1>a, <1>p, <1>3, TriggerKeeps DEF OtherLog
<1>4. CASE Close
  BY <1>a, <1>4, LoopKeeps DEF Close, vars
<1>5. CASE LoopStep
  <2>1. pc'["window"] = pc["window"]
    BY <1>5 DEF LoopStep, vars
  <2>2. CASE \E p \in Others : R!Hydrate(p)
    BY <1>a, <1>p, <2>1, <2>2, HydrateKeeps
  <2> QED
    BY <1>a, <1>5, <2>1, <2>2, LoopKeeps DEF LoopStep
<1>6. CASE BeginWindow
  <2>1. pool \in hydrating /\ UNCHANGED resync
    BY <1>6 DEF BeginWindow
  <2>2. R!TypeOK' /\ R!AcceptedIsOnItsWay'
    BY <2>1 DEF QueueInv, SystemTypeOK, resync, R!TypeOK, R!AcceptedIsOnItsWay
  <2>3. LoopInOrder'
    BY <2>1 DEF QueueInv, LoopInOrder, resync
  <2> QED
    BY <1>a, <2>2, <2>3
<1>7. CASE EndWindow
  <2>1. pc'["window"] = "idle"
    BY <1>t, <1>7 DEF EndWindow, Finish, TypeOK
  <2> QED
    BY <1>a, <1>p, <1>7, <2>1, HydrateKeeps DEF EndWindow
<1> QED
  BY <1>1, <1>2, <1>3, <1>4, <1>5, <1>6, <1>7 DEF SystemNext

\* The invariant holds from the start.
LEMMA QueueInit == SystemInit => QueueInv
<1> SUFFICES ASSUME Init, R!Init PROVE QueueInv
  BY DEF SystemInit
<1>1. TypeOK
  BY TypeInit
<1>2. R!TypeOK
  <2>1. Cap \in Nat /\ Window \in Nat
    BY TickSystemAssumption DEF R!TickResyncAssumption
  <2>2. 0 \in 0..Window
    BY <2>1
  <2>3. << >> \in Seq({pool} \cup Others) /\ Len(<< >>) <= Cap
    BY <2>1
  <2> QED
    BY <2>2, <2>3 DEF R!Init, R!TypeOK
<1>3. pc["window"] = "idle"
  BY DEF Init, Writers
<1> QED
  BY <1>1, <1>2, <1>3
  DEF R!Init, QueueInv, SystemTypeOK, LoopInOrder, R!AcceptedIsOnItsWay

\* The queue, the loop and the cache keep their types.
THEOREM TypeCorrect == SystemSpec => []SystemTypeOK
<1>1. SystemInit => QueueInv
  BY QueueInit
<1>2. QueueInv /\ [SystemNext]_<<vars, resync>> => QueueInv'
  BY QueueStep
<1>3. QueueInv => SystemTypeOK
  BY DEF QueueInv
<1> QED
  BY <1>1, <1>2, <1>3, PTL DEF SystemSpec

\* An accepted trigger is in the queue, collected or being read until its
\* pool's window has been read, and the loop returns only when none is left:
\* closing the queue loses nothing that was accepted (state.rs:286-323).
THEOREM QueuedIsOnItsWayTheorem == SystemSpec => []QueuedIsOnItsWay
<1>1. SystemInit => QueueInv
  BY QueueInit
<1>2. QueueInv /\ [SystemNext]_<<vars, resync>> => QueueInv'
  BY QueueStep
<1>3. QueueInv => QueuedIsOnItsWay
  <2> SUFFICES ASSUME QueueInv, loop = "done" PROVE owed = {} /\ pc["window"] = "idle"
    BY DEF QueueInv, QueuedIsOnItsWay, EndedLoopOwesNothing
  <2>1. hydrating = {} /\ pending = {} /\ R!ToSet(queue) = {}
    BY QueueContents DEF QueueInv, LoopInOrder, SystemTypeOK
  <2> QED
    BY <2>1 DEF QueueInv, LoopInOrder, R!AcceptedIsOnItsWay
<1> QED
  BY <1>1, <1>2, <1>3, PTL DEF SystemSpec

-----------------------------------------------------------------------------
(* Induction over the natural numbers, stated of a set: the library's      *)
(* theorems state it of an operator.                                       *)

\* A set of natural numbers that is not empty has a least member.
LEMMA LeastNumber ==
  ASSUME NEW T \in SUBSET Nat, T # {}
  PROVE  \E m \in T : \A n \in T : m <= n
<1> DEFINE Less == {ss \in Nat \X Nat : ss[1] < ss[2]}
<1>1. IsWellFoundedOn(Less, Nat)
  BY NatLessThanWellFounded, Zenon DEF OpToRel
<1>2. PICK m \in T : \A n \in T : ~ (<<n, m>> \in Less)
  <2> HIDE DEF Less
  <2>1. QED BY ONLY <1>1, WFMin, T \in SUBSET Nat, T # {}
<1>3. ASSUME NEW n \in T, n < m PROVE FALSE
  <2>1. <<n, m>> \in Less BY <1>3
  <2>2. QED BY <1>2, <2>1
<1>4. QED BY <1>3

\* A set with zero and every successor has every natural number.
LEMMA Induction ==
  ASSUME NEW T, 0 \in T, \A n \in Nat : n \in T => n + 1 \in T
  PROVE  Nat \subseteq T
<1> SUFFICES ASSUME Nat \ T # {} PROVE FALSE OBVIOUS
<1>1. PICK m \in Nat \ T : \A n \in Nat \ T : m <= n
  BY LeastNumber
<1>2. m # 0 /\ m - 1 \in Nat /\ m - 1 \in T
  BY <1>1
<1>3. QED BY <1>2, m = (m - 1) + 1

-----------------------------------------------------------------------------
(* Sums over finite sets.                                                  *)

One(s) == CHOOSE x \in s : TRUE

\* One unfolding of the sum's recursion, of the weights w.
Unfolded(w, f, s) == IF s = {} THEN 0 ELSE w[One(s)] + f[s \ {One(s)}]

Sums(w, f, S) == f = [s \in SUBSET S |-> Unfolded(w, f, s)]

Total(w, S) == (CHOOSE f : Sums(w, f, S))[S]

\* The element chosen is one.
LEMMA OneOf ==
  ASSUME NEW s, s # {}
  PROVE  One(s) \in s
BY DEF One

\* A solution unfolds at every set.
LEMMA SumsAt ==
  ASSUME NEW w, NEW f, NEW S, Sums(w, f, S), NEW s \in SUBSET S
  PROVE  f[s] = Unfolded(w, f, s)
BY Zenon DEF Sums

\* A subset of a finite set without one of its elements has one element fewer.
LEMMA OneFewer ==
  ASSUME NEW S, IsFiniteSet(S), NEW x \in S
  PROVE  /\ IsFiniteSet(S \ {x}) /\ x \notin S \ {x}
         /\ Cardinality(S) \in Nat /\ Cardinality(S) # 0
         /\ Cardinality(S \ {x}) \in Nat
         /\ Cardinality(S \ {x}) = Cardinality(S) - 1
BY FS_RemoveElement, FS_CardinalityType, FS_EmptySet

\* Two solutions agree where both are defined.
LEMMA SumsAgree ==
  ASSUME NEW w, NEW f, NEW g, NEW S, NEW T, Sums(w, f, S), Sums(w, g, T)
  PROVE  \A s \in SUBSET (S \cap T) : IsFiniteSet(s) => f[s] = g[s]
<1> DEFINE A == {n \in Nat : \A s \in SUBSET (S \cap T) :
                    IsFiniteSet(s) /\ Cardinality(s) = n => f[s] = g[s]}
<1>1. ASSUME NEW s \in SUBSET (S \cap T), IsFiniteSet(s),
             s # {} => f[s \ {One(s)}] = g[s \ {One(s)}]
      PROVE  f[s] = g[s]
  <2>1. f[s] = Unfolded(w, f, s) /\ g[s] = Unfolded(w, g, s)
    BY SumsAt
  <2>2. QED BY <1>1, <2>1 DEF Unfolded
<1>2. 0 \in A
  <2>1. ASSUME NEW s \in SUBSET (S \cap T), IsFiniteSet(s), Cardinality(s) = 0
        PROVE  f[s] = g[s]
    <3>1. s = {} BY <2>1, FS_EmptySet
    <3>2. QED BY <1>1, <2>1, <3>1
  <2>2. QED BY <2>1
<1>3. ASSUME NEW n \in Nat, n \in A PROVE n + 1 \in A
  <2>1. ASSUME NEW s \in SUBSET (S \cap T), IsFiniteSet(s), Cardinality(s) = n + 1
        PROVE  f[s] = g[s]
    <3>1. s # {} BY <2>1, FS_EmptySet
    <3>2. One(s) \in s BY <3>1, OneOf
    <3>3. IsFiniteSet(s \ {One(s)}) /\ Cardinality(s \ {One(s)}) = n
      BY <2>1, <3>2, OneFewer
    <3>4. f[s \ {One(s)}] = g[s \ {One(s)}]
      BY <1>3, <3>3
    <3>5. QED BY <1>1, <2>1, <3>4
  <2>2. QED BY <2>1
<1>4. Nat \subseteq A
  <2> HIDE DEF A
  <2>1. QED BY <1>2, <1>3, Induction
<1>5. TAKE s \in SUBSET (S \cap T)
<1>6. HAVE IsFiniteSet(s)
<1>7. Cardinality(s) \in A BY <1>4, <1>6, FS_CardinalityType
<1>8. QED BY <1>6, <1>7

\* The recursion has a solution on a finite set.
LEMMA SumsExist ==
  ASSUME NEW w, NEW S, IsFiniteSet(S)
  PROVE  \E f : Sums(w, f, S)
<1> DEFINE IsFun(f) == f = [s \in SUBSET S |-> f[s]]
           Solved(f, n) == \A s \in SUBSET S : Cardinality(s) < n => f[s] = Unfolded(w, f, s)
           A == {n \in Nat : \E f : IsFun(f) /\ Solved(f, n)}
<1>1. \A s \in SUBSET S : IsFiniteSet(s) /\ Cardinality(s) \in Nat /\ Cardinality(s) <= Cardinality(S)
  BY FS_Subset, FS_CardinalityType
<1>2. 0 \in A
  <2> DEFINE f == [s \in SUBSET S |-> 0]
  <2>1. IsFun(f) OBVIOUS
  <2>2. Solved(f, 0) BY <1>1
  <2>3. QED BY <2>1, <2>2
<1>3. ASSUME NEW n \in Nat, n \in A PROVE n + 1 \in A
  <2>1. PICK f : IsFun(f) /\ Solved(f, n) BY <1>3
  <2> DEFINE g == [s \in SUBSET S |-> IF Cardinality(s) < n THEN f[s] ELSE Unfolded(w, f, s)]
  <2>2. IsFun(g) OBVIOUS
  <2>3. ASSUME NEW s \in SUBSET S, Cardinality(s) < n + 1
        PROVE  g[s] = Unfolded(w, g, s)
    <3>1. g[s] = Unfolded(w, f, s)
      BY <2>1
    <3>2. CASE s = {}
      BY <3>1, <3>2 DEF Unfolded
    <3>3. CASE s # {}
      <4>1. One(s) \in s BY <3>3, OneOf
      <4>2. s \ {One(s)} \in SUBSET S /\ Cardinality(s \ {One(s)}) < n
        BY <1>1, <2>3, <4>1, OneFewer
      <4>3. g[s \ {One(s)}] = f[s \ {One(s)}]
        BY <4>2
      <4>4. QED BY <3>1, <3>3, <4>3 DEF Unfolded
    <3>4. QED BY <3>2, <3>3
  <2>4. Solved(g, n + 1)
    <3> HIDE DEF g
    <3>1. QED BY <2>3
  <2>5. \E h : IsFun(h) /\ Solved(h, n + 1)
    <3> HIDE DEF g, IsFun, Solved
    <3>1. QED BY <2>2, <2>4
  <2>6. QED
    <3> HIDE DEF IsFun, Solved
    <3>1. QED BY <2>5
<1>4. Nat \subseteq A
  <2> HIDE DEF A
  <2>1. QED BY <1>2, <1>3, Induction
<1>5. Cardinality(S) + 1 \in A
  <2> HIDE DEF A
  <2>1. QED BY <1>1, <1>4
<1>6. PICK f : IsFun(f) /\ Solved(f, Cardinality(S) + 1)
  BY <1>5
<1>7. ASSUME NEW s \in SUBSET S PROVE f[s] = Unfolded(w, f, s)
  <2>1. Cardinality(s) < Cardinality(S) + 1 BY <1>1
  <2>2. QED BY <1>6, <2>1, Zenon
<1>8. QED BY <1>6, <1>7, Zenon DEF Sums

\* A sum is what any solution says it is.
LEMMA TotalIs ==
  ASSUME NEW w, NEW f, NEW S, IsFiniteSet(S), Sums(w, f, S)
  PROVE  \A s \in SUBSET S : Total(w, s) = f[s]
<1> TAKE s \in SUBSET S
<1>1. IsFiniteSet(s) BY FS_Subset
<1>2. \E g : Sums(w, g, s) BY <1>1, SumsExist
<1> DEFINE g == CHOOSE g : Sums(w, g, s)
<1>3. Sums(w, g, s) BY <1>2
<1>4. g[s] = f[s]
  <2> HIDE DEF g
  <2>1. s \in SUBSET (S \cap s) OBVIOUS
  <2>2. QED BY ONLY <1>1, <1>3, <2>1, Sums(w, f, S), SumsAgree
<1>5. QED BY <1>4, Zenon DEF Total

\* A sum, one element at a time.
LEMMA TotalUnfolds ==
  ASSUME NEW w, NEW S, IsFiniteSet(S)
  PROVE  /\ S = {} => Total(w, S) = 0
         /\ S # {} => Total(w, S) = w[One(S)] + Total(w, S \ {One(S)})
<1>1. PICK f : Sums(w, f, S) BY SumsExist
<1>2. f[S] = Unfolded(w, f, S) BY <1>1, SumsAt
<1>3. Total(w, S) = f[S] /\ Total(w, S \ {One(S)}) = f[S \ {One(S)}]
  BY <1>1, TotalIs
<1>4. QED BY <1>2, <1>3 DEF Unfolded

\* What MapThenSumSet computes, of weights that are a function.
LEMMA MapThenSumSetIs ==
  ASSUME NEW P, NEW S \in SUBSET P, IsFiniteSet(S)
  PROVE  MapThenSumSet(LAMBDA q : q.amount, S) = Total([q \in P |-> q.amount], S)
<1> DEFINE w == [q \in P |-> q.amount]
           Body(f, s) == IF s = {} THEN 0
                         ELSE One(s).amount + f[s \ {One(s)}]
           iter == CHOOSE iter : iter = [s \in SUBSET S |-> Body(iter, s)]
<1>1. MapThenSumSet(LAMBDA q : q.amount, S) = iter[S]
  BY Zenon DEF MapThenSumSet, MapThenFoldSet, One
<1>2. ASSUME NEW f, NEW s \in SUBSET S PROVE Body(f, s) = Unfolded(w, f, s)
  <2>1. CASE s = {} BY <2>1 DEF Unfolded
  <2>2. CASE s # {}
    <3>1. One(s) \in P BY <2>2, OneOf
    <3>2. w[One(s)] = One(s).amount BY <3>1
    <3> HIDE DEF w
    <3>3. QED BY <2>2, <3>2 DEF Unfolded
  <2>3. QED BY <2>1, <2>2
<1>3. PICK f : Sums(w, f, S) BY SumsExist
<1>4. f = [s \in SUBSET S |-> Body(f, s)]
  <2> HIDE DEF Body, w
  <2>1. [s \in SUBSET S |-> Unfolded(w, f, s)] = [s \in SUBSET S |-> Body(f, s)]
    BY <1>2
  <2>2. QED BY <1>3, <2>1 DEF Sums
<1>5. iter = [s \in SUBSET S |-> Body(iter, s)]
  <2> HIDE DEF Body
  <2>1. QED BY <1>4, Zenon
<1>6. Sums(w, iter, S)
  <2> HIDE DEF Body, w, iter
  <2>1. [s \in SUBSET S |-> Unfolded(w, iter, s)] = [s \in SUBSET S |-> Body(iter, s)]
    BY <1>2
  <2>2. QED BY <1>5, <2>1 DEF Sums
<1>7. Total(w, S) = iter[S]
  <2> HIDE DEF w, iter
  <2>1. QED BY <1>6, TotalIs
<1>8. QED BY <1>1, <1>7, Zenon

-----------------------------------------------------------------------------
(* What a sum of integers is, whatever the order it is taken in.           *)

\* A sum of integers is an integer.
LEMMA TotalType ==
  ASSUME NEW w, NEW S, IsFiniteSet(S), \A x \in S : w[x] \in Int
  PROVE  Total(w, S) \in Int
<1> DEFINE A == {n \in Nat : \A s \in SUBSET S : Cardinality(s) = n => Total(w, s) \in Int}
<1>1. \A s \in SUBSET S : IsFiniteSet(s) /\ Cardinality(s) \in Nat
  BY FS_Subset, FS_CardinalityType
<1>2. 0 \in A
  <2>1. \A s \in SUBSET S : Cardinality(s) = 0 => s = {}
    BY <1>1, FS_EmptySet
  <2>2. Total(w, {}) = 0 BY FS_EmptySet, TotalUnfolds
  <2>3. QED BY <2>1, <2>2
<1>3. ASSUME NEW n \in Nat, n \in A PROVE n + 1 \in A
  <2>1. ASSUME NEW s \in SUBSET S, Cardinality(s) = n + 1 PROVE Total(w, s) \in Int
    <3>1. s # {} BY <2>1, FS_EmptySet
    <3>2. One(s) \in s BY <3>1, OneOf
    <3>3. IsFiniteSet(s) BY <1>1
    <3>4. Cardinality(s \ {One(s)}) = n BY <2>1, <3>2, <3>3, OneFewer
    <3>5. Total(w, s \ {One(s)}) \in Int BY <1>3, <3>4
    <3>6. Total(w, s) = w[One(s)] + Total(w, s \ {One(s)})
      BY <3>1, <3>3, TotalUnfolds
    <3>7. QED BY <3>2, <3>5, <3>6
  <2>2. QED BY <2>1
<1>4. Nat \subseteq A
  <2> HIDE DEF A
  <2>1. QED BY <1>2, <1>3, Induction
<1>5. Cardinality(S) \in A
  <2> HIDE DEF A
  <2>1. QED BY <1>1, <1>4
<1>6. QED BY <1>5

\* A sum of natural numbers is one.
LEMMA TotalNat ==
  ASSUME NEW w, NEW S, IsFiniteSet(S), \A x \in S : w[x] \in Nat
  PROVE  Total(w, S) \in Nat
<1> DEFINE A == {n \in Nat : \A s \in SUBSET S : Cardinality(s) = n => Total(w, s) \in Nat}
<1>1. \A s \in SUBSET S : IsFiniteSet(s) /\ Cardinality(s) \in Nat
  BY FS_Subset, FS_CardinalityType
<1>2. 0 \in A
  <2>1. \A s \in SUBSET S : Cardinality(s) = 0 => s = {}
    BY <1>1, FS_EmptySet
  <2>2. Total(w, {}) = 0 BY FS_EmptySet, TotalUnfolds
  <2>3. QED BY <2>1, <2>2
<1>3. ASSUME NEW n \in Nat, n \in A PROVE n + 1 \in A
  <2>1. ASSUME NEW s \in SUBSET S, Cardinality(s) = n + 1 PROVE Total(w, s) \in Nat
    <3>1. s # {} BY <2>1, FS_EmptySet
    <3>2. One(s) \in s BY <3>1, OneOf
    <3>3. IsFiniteSet(s) BY <1>1
    <3>4. Cardinality(s \ {One(s)}) = n BY <2>1, <3>2, <3>3, OneFewer
    <3>5. Total(w, s \ {One(s)}) \in Nat BY <1>3, <3>4
    <3>6. Total(w, s) = w[One(s)] + Total(w, s \ {One(s)})
      BY <3>1, <3>3, TotalUnfolds
    <3>7. QED BY <3>2, <3>5, <3>6
  <2>2. QED BY <2>1
<1>4. Nat \subseteq A
  <2> HIDE DEF A
  <2>1. QED BY <1>2, <1>3, Induction
<1>5. Cardinality(S) \in A
  <2> HIDE DEF A
  <2>1. QED BY <1>1, <1>4
<1>6. QED BY <1>5

\* Any element may be taken out first.
LEMMA TotalWithout ==
  ASSUME NEW w, NEW S, IsFiniteSet(S), \A x \in S : w[x] \in Int
  PROVE  \A x \in S : Total(w, S) = w[x] + Total(w, S \ {x})
<1> DEFINE A == {n \in Nat : \A s \in SUBSET S : Cardinality(s) = n =>
                    \A x \in s : Total(w, s) = w[x] + Total(w, s \ {x})}
<1>1. \A s \in SUBSET S : IsFiniteSet(s) /\ Cardinality(s) \in Nat
  BY FS_Subset, FS_CardinalityType
<1>2. 0 \in A
  <2>1. \A s \in SUBSET S : Cardinality(s) = 0 => s = {}
    BY <1>1, FS_EmptySet
  <2>2. QED BY <2>1
<1>3. ASSUME NEW n \in Nat, n \in A PROVE n + 1 \in A
  <2>1. ASSUME NEW s \in SUBSET S, Cardinality(s) = n + 1, NEW x \in s
        PROVE  Total(w, s) = w[x] + Total(w, s \ {x})
    <3> DEFINE o == One(s)
    <3>1. o \in s BY OneOf
    <3>2. IsFiniteSet(s) BY <1>1
    <3>3. Total(w, s) = w[o] + Total(w, s \ {o})
      BY <3>2, TotalUnfolds
    <3>4. CASE x = o BY <3>3, <3>4
    <3>5. CASE x # o
      <4> DEFINE both == (s \ {o}) \ {x}
      <4> HIDE DEF o
      <4>1. Cardinality(s \ {o}) = n /\ Cardinality(s \ {x}) = n
        BY <2>1, <3>1, <3>2, OneFewer
      <4>2. s \ {o} \in SUBSET S /\ s \ {x} \in SUBSET S /\ x \in s \ {o} /\ o \in s \ {x}
        BY <3>1, <3>5
      <4>3. Total(w, s \ {o}) = w[x] + Total(w, both)
        BY <1>3, <4>1, <4>2
      <4>4. (s \ {x}) \ {o} = both OBVIOUS
      <4>5. Total(w, s \ {x}) = w[o] + Total(w, both)
        BY <1>3, <4>1, <4>2, <4>4
      <4>6. w[x] \in Int /\ w[o] \in Int BY <3>1
      <4>7. Total(w, both) \in Int
        <5>1. IsFiniteSet(both) BY <1>1
        <5>2. QED BY <5>1, TotalType
      <4> HIDE DEF both
      <4>8. QED BY <3>3, <4>3, <4>5, <4>6, <4>7
    <3>6. QED BY <3>4, <3>5
  <2>2. QED BY <2>1
<1>4. Nat \subseteq A
  <2> HIDE DEF A
  <2>1. QED BY <1>2, <1>3, Induction
<1>5. Cardinality(S) \in A
  <2> HIDE DEF A
  <2>1. QED BY <1>1, <1>4
<1>6. QED BY <1>5

\* The sum over two sets that have nothing in common is that of their sums.
LEMMA TotalOfBoth ==
  ASSUME NEW w, NEW S, NEW T, IsFiniteSet(S), IsFiniteSet(T), S \cap T = {},
         \A x \in S \cup T : w[x] \in Int
  PROVE  Total(w, S \cup T) = Total(w, S) + Total(w, T)
<1> DEFINE A == {n \in Nat : \A s \in SUBSET T : Cardinality(s) = n =>
                    Total(w, S \cup s) = Total(w, S) + Total(w, s)}
<1>1. \A s \in SUBSET T : IsFiniteSet(s) /\ Cardinality(s) \in Nat /\ IsFiniteSet(S \cup s)
  BY FS_Subset, FS_CardinalityType, FS_Union
<1>2. \A s \in SUBSET (S \cup T) : IsFiniteSet(s) => Total(w, s) \in Int
  BY TotalType
<1>3. 0 \in A
  <2>1. \A s \in SUBSET T : Cardinality(s) = 0 => s = {}
    BY <1>1, FS_EmptySet
  <2>2. Total(w, {}) = 0 BY FS_EmptySet, TotalUnfolds
  <2>3. S \cup {} = S OBVIOUS
  <2>4. Total(w, S \cup {}) = Total(w, S) + Total(w, {})
    BY <1>2, <2>2, <2>3
  <2>5. QED BY <2>1, <2>4
<1>4. ASSUME NEW n \in Nat, n \in A PROVE n + 1 \in A
  <2>1. ASSUME NEW s \in SUBSET T, Cardinality(s) = n + 1
        PROVE  Total(w, S \cup s) = Total(w, S) + Total(w, s)
    <3>1. PICK x : x \in s BY <2>1, FS_EmptySet
    <3>2. IsFiniteSet(s) /\ IsFiniteSet(S \cup s) BY <1>1
    <3>3. Cardinality(s \ {x}) = n
      <4>1. Cardinality(s \ {x}) = Cardinality(s) - 1
        BY <3>1, <3>2, OneFewer
      <4>2. QED BY <2>1, <4>1
    <3>4. Total(w, S \cup (s \ {x})) = Total(w, S) + Total(w, s \ {x})
      BY <1>4, <3>3
    <3>5. (S \cup s) \ {x} = S \cup (s \ {x}) BY <3>1
    <3>6. Total(w, S \cup s) = w[x] + Total(w, S \cup (s \ {x}))
      BY <3>1, <3>2, <3>5, TotalWithout
    <3>7. Total(w, s) = w[x] + Total(w, s \ {x})
      BY <3>1, <3>2, TotalWithout
    <3>8. w[x] \in Int /\ Total(w, S) \in Int /\ Total(w, s \ {x}) \in Int
      BY <1>1, <1>2, <3>1
    <3>9. QED BY <3>4, <3>6, <3>7, <3>8
  <2>2. QED BY <2>1
<1>5. Nat \subseteq A
  <2> HIDE DEF A
  <2>1. QED BY <1>3, <1>4, Induction
<1>6. Cardinality(T) \in A
  <2> HIDE DEF A
  <2>1. QED BY <1>1, <1>5
<1>7. QED BY <1>6

-----------------------------------------------------------------------------
(* Products and quotients.                                                 *)

\* A factor above zero keeps the order, and tells it.
LEMMA ProductOrder ==
  ASSUME NEW a \in Int, NEW b \in Int, NEW s \in Nat \ {0}
  PROVE  /\ a < b <=> a * s < b * s
         /\ a <= b <=> a * s <= b * s
         /\ a < b => a * s + s <= b * s
         /\ a * s \in Int /\ b * s \in Int
OBVIOUS

\* A factor keeps the order.
LEMMA ProductLe ==
  ASSUME NEW a \in Nat, NEW b \in Nat, NEW s \in Nat, a <= b
  PROVE  a * s <= b * s
OBVIOUS

\* The quotient is rounded down.
LEMMA Division ==
  ASSUME NEW a \in Int, NEW n \in Nat \ {0}
  PROVE  /\ a \div n \in Int /\ a % n \in 0 .. n - 1
         /\ (a \div n) * n <= a /\ a < (a \div n) * n + n
         /\ a = (a \div n) * n + (a % n)
OBVIOUS

\* There is one such quotient.
LEMMA DivisionIs ==
  ASSUME NEW a \in Int, NEW n \in Nat \ {0}, NEW q \in Int, q * n <= a, a < q * n + n
  PROVE  a \div n = q
OBVIOUS

\* Compress rounds down, below zero too.
LEMMA CompressIs ==
  ASSUME NEW t \in Int, NEW n \in Nat \ {0}
  PROVE  Compress(t, n) = t \div n
BY DEF Compress, Quot

-----------------------------------------------------------------------------
(* The next tick and the step to it.                                       *)

\* A set of numbers between two bounds has a greatest and a least.
LEMMA Extremes ==
  ASSUME NEW a \in Int, NEW b \in Int, NEW T \in SUBSET (a .. b), T # {}
  PROVE  /\ Max(T) \in T /\ \A y \in T : y <= Max(T)
         /\ Min(T) \in T /\ \A y \in T : Min(T) <= y
<1>1. \E x \in T : \A y \in T : x >= y
  <2> DEFINE below == {b - x : x \in T}
  <2>1. below \in SUBSET Nat /\ below # {}
    <3>1. below \in SUBSET Nat OBVIOUS
    <3>2. below # {} OBVIOUS
    <3>3. QED BY <3>1, <3>2
  <2>2. PICK m \in below : \A n \in below : m <= n
    <3> HIDE DEF below
    <3>1. QED BY <2>1, LeastNumber
  <2>3. PICK x \in T : m = b - x BY <2>2
  <2>4. ASSUME NEW y \in T PROVE x >= y
    <3>1. m <= b - y BY <2>2
    <3>2. QED BY <2>3, <3>1
  <2>5. QED BY <2>4
<1>2. \E x \in T : \A y \in T : x <= y
  <2> DEFINE above == {x - a : x \in T}
  <2>1. above \in SUBSET Nat /\ above # {}
    <3>1. above \in SUBSET Nat OBVIOUS
    <3>2. above # {} OBVIOUS
    <3>3. QED BY <3>1, <3>2
  <2>2. PICK m \in above : \A n \in above : m <= n
    <3> HIDE DEF above
    <3>1. QED BY <2>1, LeastNumber
  <2>3. PICK x \in T : m = x - a BY <2>2
  <2>4. ASSUME NEW y \in T PROVE x <= y
    <3>1. m <= y - a BY <2>2
    <3>2. QED BY <2>3, <3>1
  <2>5. QED BY <2>4
<1>3. Max(T) \in T /\ \A y \in T : Max(T) >= y
  BY <1>1, Zenon DEF Max
<1>4. Min(T) \in T /\ \A y \in T : Min(T) <= y
  BY <1>2, Zenon DEF Min
<1>5. QED BY <1>3, <1>4

\* The walk's word holds the tick it is on or, on the way up, the one after it.
LEMMA ProbeIs ==
  ASSUME NEW down \in BOOLEAN, NEW c \in Int, NEW w, w = Probe(down, c)
  PROVE  /\ w \in Int /\ w * WordSize \in Int
         /\ IF down THEN w * WordSize <= c /\ c < w * WordSize + WordSize
                    ELSE w * WordSize <= c + 1 /\ c + 1 < w * WordSize + WordSize
<1>0. WordSize \in Nat \ {0} BY TickWalkAssumption
<1>1. CASE down
  <2>1. w = c \div WordSize BY <1>1 DEF Probe
  <2> DEFINE q == c \div WordSize
  <2>2. q \in Int /\ q * WordSize \in Int /\ q * WordSize <= c /\ c < q * WordSize + WordSize
    BY <1>0, Division
  <2> HIDE DEF q
  <2>3. QED BY <1>1, <2>1, <2>2 DEF q
<1>2. CASE ~ down
  <2>1. w = (c + 1) \div WordSize BY <1>2 DEF Probe
  <2>2. c + 1 \in Int OBVIOUS
  <2>3. QED BY <1>0, <1>2, <2>1, <2>2, Division
<1>3. QED BY <1>1, <1>2

\* The compressed ticks of a word.
Span(w) == w * WordSize .. w * WordSize + WordSize - 1

\* The next tick is in the walk's own word and ahead of it, is an initialised one
\* exactly when it says so, and no initialised one comes before it.
LEMMA NextTickIs ==
  ASSUME NEW down \in BOOLEAN, NEW c \in Int, NEW held,
         held.index = Probe(down, c), held.ticks \in SUBSET Span(held.index)
  PROVE  LET found == NextTick(down, c, held)
         IN /\ found.c \in Span(held.index) /\ found.c \in Int
            /\ found.initialized \in BOOLEAN
            /\ IF down THEN found.c <= c ELSE c < found.c
            /\ found.initialized <=> found.c \in held.ticks
            /\ \A b \in held.ticks :
                 ~ (IF down THEN found.c < b /\ b <= c ELSE c < b /\ b < found.c)
<1> DEFINE found == NextTick(down, c, held)
           ahead == {b \in held.ticks : IF down THEN b <= c ELSE b > c}
           w == held.index
<1>1. WordSize \in Nat \ {0} BY TickWalkAssumption
<1>2. w \in Int /\ w * WordSize \in Int
      /\ IF down THEN w * WordSize <= c /\ c < w * WordSize + WordSize
                 ELSE w * WordSize <= c + 1 /\ c + 1 < w * WordSize + WordSize
  BY ProbeIs
<1>3. found = [c |-> IF ahead = {} THEN (IF down THEN w * WordSize ELSE w * WordSize + WordSize - 1)
                     ELSE IF down THEN Max(ahead) ELSE Min(ahead),
               initialized |-> ahead # {}]
  BY DEF NextTick
<1>4. ahead \in SUBSET (w * WordSize .. w * WordSize + WordSize - 1)
  BY DEF Span
<1> HIDE DEF found
<1>5. CASE ahead = {}
  <2>1. found.c = (IF down THEN w * WordSize ELSE w * WordSize + WordSize - 1)
        /\ found.initialized = FALSE
    <3> HIDE DEF ahead
    <3>1. QED BY <1>3, <1>5
  <2>2. \A b \in held.ticks : ~ IF down THEN b <= c ELSE b > c
    BY <1>5
  <2>3. /\ found.c \in Span(held.index) /\ found.c \in Int
        /\ IF down THEN found.c <= c ELSE c < found.c
    BY <1>1, <1>2, <2>1 DEF Span
  <2>4. found.c \notin held.ticks
    BY <2>2, <2>3
  <2>5. \A b \in held.ticks : b \in Int
    BY <1>1, <1>2 DEF Span
  <2>6. \A b \in held.ticks :
           ~ (IF down THEN found.c < b /\ b <= c ELSE c < b /\ b < found.c)
    BY <2>2, <2>5
  <2>7. QED BY <2>1, <2>3, <2>4, <2>6 DEF found
<1>6. CASE ahead # {}
  <2>1. /\ Max(ahead) \in ahead /\ \A y \in ahead : y <= Max(ahead)
        /\ Min(ahead) \in ahead /\ \A y \in ahead : Min(ahead) <= y
    <3> HIDE DEF ahead
    <3>1. w * WordSize + WordSize - 1 \in Int BY <1>1, <1>2
    <3>2. QED BY <1>2, <1>4, <1>6, <3>1, Extremes
  <2>2. found.c = (IF down THEN Max(ahead) ELSE Min(ahead)) /\ found.initialized = TRUE
    <3> HIDE DEF ahead
    <3>1. QED BY <1>3, <1>6
  <2>3. found.c \in held.ticks /\ found.c \in Span(held.index)
        /\ IF down THEN found.c <= c ELSE c < found.c
    BY <2>1, <2>2
  <2>4. found.c \in Int
    BY <1>1, <1>2, <2>3 DEF Span
  <2>5. \A b \in held.ticks : ~ (IF down THEN found.c < b /\ b <= c ELSE c < b /\ b < found.c)
    <3>1. \A b \in held.ticks : b \in Int BY <1>1, <1>2 DEF Span
    <3>2. QED BY <2>1, <2>2, <2>4, <3>1
  <2>7. QED BY <2>2, <2>3, <2>4, <2>5 DEF found
<1>7. QED BY <1>5, <1>6

\* What k units pay from price p on, for each unit of liquidity.
Paid(down, p, k) == MapThenSumSet(LAMBDA n : Pay(down, p, n), 1 .. k)

\* The price k units further.
Moved(down, p, k) == IF down THEN p - k ELSE p + k

Distance(down, p, target) == IF down THEN p - target ELSE target - p

\* The step is k units long: it pays for each the liquidity, and stops short of
\* the target when the amount does not pay for one more.
Stepped(step, down, p, distance, l, amount, k) ==
  /\ step.price = Moved(down, p, k)
  /\ step.out = l * Paid(down, p, k)
  /\ step.in \in Nat /\ step.in <= amount
  /\ k * l <= amount
  /\ k = distance => step.in = k * l
  /\ k < distance => step.in = amount /\ amount < k * l + l

\* A step goes whole units towards its target.
LEMMA StepToIs ==
  ASSUME NEW down \in BOOLEAN, NEW p \in Int, NEW target \in Int,
         IF down THEN target <= p ELSE p <= target,
         NEW l \in Nat, NEW amount \in Nat
  PROVE  \E k \in 0 .. Distance(down, p, target) :
            Stepped(StepTo(down, p, target, l, amount), down, p, Distance(down, p, target),
                    l, amount, k)
<1> DEFINE distance == Distance(down, p, target)
           k == IF l = 0 \/ amount >= distance * l THEN distance ELSE amount \div l
           step == StepTo(down, p, target, l, amount)
<1>1. step = [price |-> IF down THEN p - k ELSE p + k,
              in |-> IF k = distance THEN distance * l ELSE amount,
              out |-> l * Paid(down, p, k)]
  BY DEF StepTo, Paid, Distance
<1>2. distance \in Nat BY DEF Distance
<1>3. distance * l \in Nat
  <2> HIDE DEF distance
  <2>1. QED BY <1>2
<1>4. k \in 0 .. distance /\ k * l <= amount /\ (k < distance => amount < k * l + l)
  <2> HIDE DEF distance
  <2>1. CASE l = 0 \/ amount >= distance * l
    <3>1. k = distance BY <2>1
    <3> HIDE DEF k
    <3>2. distance * l <= amount
      BY <1>2, <1>3, <2>1
    <3>3. QED BY <1>2, <3>1, <3>2
  <2>2. CASE l # 0 /\ amount < distance * l
    <3>1. k = amount \div l BY <2>2, <1>3
    <3>2. k \in Int /\ k * l <= amount /\ amount < k * l + l
      BY <2>2, <3>1, Division
    <3> HIDE DEF k
    <3>3. k * l < distance * l BY <1>2, <1>3, <2>2, <3>2
    <3>4. k < distance BY <1>2, <2>2, <3>2, <3>3, ProductOrder
    <3>5. 0 * l < (k + 1) * l BY <2>2, <3>2
    <3>6. 0 < k + 1 BY <2>2, <3>2, <3>5, ProductOrder
    <3>7. QED BY <1>2, <3>2, <3>4, <3>6
  <2>3. QED BY <1>3, <2>1, <2>2
<1> HIDE DEF k, step, distance
<1>5. step.in \in Nat /\ step.in <= amount
      /\ (k = distance => step.in = k * l) /\ (k < distance => step.in = amount)
  BY <1>1, <1>2, <1>3, <1>4
<1>6. step.price = Moved(down, p, k) /\ step.out = l * Paid(down, p, k)
  BY <1>1 DEF Moved
<1>7. Stepped(step, down, p, distance, l, amount, k)
  BY <1>4, <1>5, <1>6 DEF Stepped
<1>8. QED BY <1>4, <1>7 DEF step, distance

-----------------------------------------------------------------------------
(* The liquidity of positions.                                             *)

\* Positions the pool may have, some of them withdrawn.
Layout(P) == \E L \in Layouts : P \subseteq L

\* Positions begin and end at ticks of the spacing, and there are finitely many.
LEMMA LayoutIs ==
  ASSUME NEW P, Layout(P)
  PROVE  /\ IsFiniteSet(P)
         /\ \A q \in P : /\ q.lo \in Ticks /\ q.hi \in Ticks /\ q.lo < q.hi
                         /\ q.lo % Spacing = 0 /\ q.hi % Spacing = 0 /\ q.amount \in Nat
BY TickWalkAssumption, FS_Subset DEF Layout

\* The liquidity of some of the positions.
Amount(P, S) == Total([q \in P |-> q.amount], S)

\* The sum of TickWalk over some of the positions is theirs.
LEMMA AmountIs ==
  ASSUME NEW P, Layout(P), NEW S \in SUBSET P
  PROVE  /\ MapThenSumSet(LAMBDA q : q.amount, S) = Amount(P, S)
         /\ Amount(P, S) \in Nat
<1>1. IsFiniteSet(S) BY LayoutIs, FS_Subset
<1>2. MapThenSumSet(LAMBDA q : q.amount, S) = Amount(P, S)
  BY <1>1, MapThenSumSetIs, Zenon DEF Amount
<1> DEFINE w == [q \in P |-> q.amount]
<1>3. \A q \in S : w[q] \in Nat BY LayoutIs
<1>4. Total(w, S) \in Nat
  <2> HIDE DEF w
  <2>1. QED BY <1>1, <1>3, TotalNat
<1>5. QED BY <1>2, <1>4 DEF Amount

\* Positions with nothing in common add up.
LEMMA AmountOfBoth ==
  ASSUME NEW P, Layout(P), NEW S \in SUBSET P, NEW T \in SUBSET P, S \cap T = {}
  PROVE  Amount(P, S \cup T) = Amount(P, S) + Amount(P, T)
<1>1. IsFiniteSet(S) /\ IsFiniteSet(T) BY LayoutIs, FS_Subset
<1> DEFINE w == [q \in P |-> q.amount]
<1>2. \A q \in S \cup T : w[q] \in Int BY LayoutIs
<1>3. Total(w, S \cup T) = Total(w, S) + Total(w, T)
  <2> HIDE DEF w
  <2>1. QED BY <1>1, <1>2, TotalOfBoth
<1>4. QED BY <1>3 DEF Amount

\* Active liquidity is a natural number.
LEMMA ActiveIs ==
  ASSUME NEW P, Layout(P), NEW t
  PROVE  /\ ActiveAt(P, t) = Amount(P, {q \in P : q.lo <= t /\ t < q.hi})
         /\ ActiveAt(P, t) \in Nat
<1>1. {q \in P : q.lo <= t /\ t < q.hi} \in SUBSET P OBVIOUS
<1>2. QED BY <1>1, AmountIs, Zenon DEF ActiveAt

\* A net is what begins less what ends.
LEMMA NetIs ==
  ASSUME NEW P, Layout(P), NEW t
  PROVE  /\ NetAt(P, t) = Amount(P, {q \in P : q.lo = t}) - Amount(P, {q \in P : q.hi = t})
         /\ NetAt(P, t) \in Int
<1> DEFINE A == {q \in P : q.lo = t}
           B == {q \in P : q.hi = t}
<1>1. A \in SUBSET P /\ B \in SUBSET P OBVIOUS
<1>2. NetAt(P, t) = MapThenSumSet(LAMBDA q : q.amount, A) - MapThenSumSet(LAMBDA q : q.amount, B)
  BY Zenon DEF NetAt
<1> HIDE DEF A, B
<1>3. NetAt(P, t) = Amount(P, A) - Amount(P, B) BY <1>1, <1>2, AmountIs
<1>4. Amount(P, A) \in Nat /\ Amount(P, B) \in Nat BY <1>1, AmountIs
<1>5. QED BY <1>3, <1>4 DEF A, B

\* Where no position begins or ends, the liquidity stays what it is.
LEMMA ActiveBetween ==
  ASSUME NEW P, Layout(P), NEW a \in Int, NEW b \in Int, a <= b,
         \A e \in Edges(P) : ~ (a < e /\ e <= b)
  PROVE  ActiveAt(P, a) = ActiveAt(P, b)
<1>1. \A q \in P : q.lo \in Edges(P) /\ q.hi \in Edges(P) /\ q.lo \in Int /\ q.hi \in Int
  BY LayoutIs, TickWalkAssumption DEF Edges, Ticks
<1>2. \A q \in P : (q.lo <= a /\ a < q.hi) <=> (q.lo <= b /\ b < q.hi)
  BY <1>1
<1>3. {q \in P : q.lo <= a /\ a < q.hi} = {q \in P : q.lo <= b /\ b < q.hi}
  BY <1>2
<1>4. QED BY <1>3, Zenon DEF ActiveAt

\* At a tick the liquidity changes by its net.
LEMMA ActiveAcross ==
  ASSUME NEW P, Layout(P), NEW t \in Int
  PROVE  ActiveAt(P, t) = ActiveAt(P, t - 1) + NetAt(P, t)
<1> DEFINE on == {q \in P : q.lo <= t /\ t < q.hi}
           below == {q \in P : q.lo <= t - 1 /\ t - 1 < q.hi}
           both == {q \in P : q.lo <= t - 1 /\ t < q.hi}
           begin == {q \in P : q.lo = t}
           end == {q \in P : q.hi = t}
<1>1. \A q \in P : q.lo \in Int /\ q.hi \in Int /\ q.lo < q.hi
  BY LayoutIs, TickWalkAssumption DEF Ticks
<1>2. /\ on = both \cup begin /\ both \cap begin = {}
      /\ below = both \cup end /\ both \cap end = {}
  BY <1>1
<1>3. both \in SUBSET P /\ begin \in SUBSET P /\ end \in SUBSET P OBVIOUS
<1>4. ActiveAt(P, t) = Amount(P, on) /\ ActiveAt(P, t - 1) = Amount(P, below)
      /\ NetAt(P, t) = Amount(P, begin) - Amount(P, end)
  BY ActiveIs, NetIs
<1> HIDE DEF on, below, both, begin, end
<1>5. Amount(P, on) = Amount(P, both) + Amount(P, begin)
      /\ Amount(P, below) = Amount(P, both) + Amount(P, end)
  BY <1>2, <1>3, AmountOfBoth
<1>6. Amount(P, both) \in Nat /\ Amount(P, begin) \in Nat /\ Amount(P, end) \in Nat
  BY <1>3, AmountIs
<1>7. QED BY <1>4, <1>5, <1>6

-----------------------------------------------------------------------------
(* The inductive invariant of the walk.                                    *)

\* The prices the walk stays between.
Lowest == MinTick * Sub + 1
Highest == MaxTick * Sub - 1

\* Price and tick belong together, at a tick from above or from below.
PriceInTick ==
  /\ sqrtPrice \in Lowest .. Highest
  /\ tick \in Int
  /\ tick * Sub <= sqrtPrice /\ sqrtPrice <= tick * Sub + Sub

\* The word the reader holds is one of the cache's.
WordIsKnown ==
  /\ \A held, other \in word : held = other
  /\ \A held \in word : held.index \in known /\ held.ticks \in SUBSET Span(held.index)

WalkOK ==
  /\ codec \in {"packed", "two words"}
  /\ Layout(positions)
  /\ start \in [price : Lowest .. Highest, amount : Nat, down : BOOLEAN]
  /\ known \subseteq Int
  /\ nets \in [Ticks -> Int]
  /\ liquidity \in Nat /\ remaining \in Nat
  /\ WordIsKnown
  /\ sqrtPrice \in Int
  /\ status # "error" => PriceInTick

\* The parts of an iteration, by name.
Index == Probe(start.down, Compress(tick, WalkSpacing(codec)))
Ahead(held) == NextTick(start.down, Compress(tick, WalkSpacing(codec)), held)
NextAt(held) == Clamp(Ahead(held).c * WalkSpacing(codec))
TargetAt(held) ==
  IF \/ start.down /\ NextAt(held) * Sub < Limit(start.down)
     \/ ~ start.down /\ NextAt(held) * Sub > Limit(start.down)
  THEN Limit(start.down) ELSE NextAt(held) * Sub
StepAt(held) == StepTo(start.down, sqrtPrice, TargetAt(held), liquidity, remaining)
Crossed(held) == StepAt(held).price = NextAt(held) * Sub
LiquidityAt(held) ==
  IF Crossed(held) /\ Ahead(held).initialized THEN liquidity + Delta(NextAt(held)) ELSE liquidity

\* An iteration, by the names of its parts.
LEMMA IterateIs ==
  ASSUME Iterate
  PROVE  /\ status = "walking" /\ More /\ word' = Found(Index)
         /\ UNCHANGED <<codec, start, known, positions, bits, nets, changes>>
         /\ word' = {} => status' = "edge" /\ UNCHANGED <<sqrtPrice, tick, liquidity, remaining, out>>
         /\ word' # {} =>
              LET held == CHOOSE held \in word' : TRUE
                  step == StepAt(held)
              IN /\ sqrtPrice' = step.price
                 /\ remaining' = remaining - step.in
                 /\ out' = out + step.out
                 /\ LiquidityAt(held) < 0 => status' = "error" /\ UNCHANGED <<tick, liquidity>>
                 /\ ~ (LiquidityAt(held) < 0) =>
                      /\ liquidity' = LiquidityAt(held)
                      /\ tick' = IF Crossed(held) THEN After(NextAt(held))
                                 ELSE IF step.price # sqrtPrice THEN step.price \div Sub ELSE tick
                      /\ UNCHANGED status
BY Zenon DEF Iterate, Index, Ahead, NextAt, TargetAt, StepAt, Crossed, LiquidityAt, asked, walk

\* The walk and the bitmap go by the same spacing.
LEMMA SpacingIs ==
  ASSUME NEW kind
  PROVE  /\ WalkSpacing(kind) \in Nat \ {0} /\ WordSpacing(kind) = WalkSpacing(kind)
         /\ WalkSpacing(kind) = Spacing \/ WalkSpacing(kind) = 1
BY TickWalkAssumption DEF WalkSpacing, WordSpacing

\* The constants are integers, and so are their products.
LEMMA Constants ==
  /\ Sub \in Nat \ {0} /\ WordSize \in Nat \ {0} /\ Spacing \in Nat \ {0}
  /\ MinTick \in Int /\ MaxTick \in Int /\ MinTick < 0 /\ MaxTick > 0
  /\ MinTick * Sub \in Int /\ MaxTick * Sub \in Int
  /\ Lowest = MinTick * Sub + 1 /\ Highest = MaxTick * Sub - 1
  /\ Lowest \in Int /\ Highest \in Int /\ Ticks = MinTick .. MaxTick
BY TickWalkAssumption DEF Lowest, Highest, Ticks

\* The tick of a price inside the limits is one, and not the last.
LEMMA TickIsOne ==
  ASSUME PriceInTick
  PROVE  MinTick <= tick /\ tick < MaxTick /\ sqrtPrice \in Int /\ tick \in Int
         /\ tick * Sub \in Int /\ Lowest <= sqrtPrice /\ sqrtPrice <= Highest
<1>1. tick \in Int /\ sqrtPrice \in Int /\ tick * Sub \in Int
      /\ tick * Sub <= sqrtPrice /\ sqrtPrice <= tick * Sub + Sub
      /\ MinTick * Sub + 1 <= sqrtPrice /\ sqrtPrice <= MaxTick * Sub - 1
  BY Constants DEF PriceInTick
<1>2. tick * Sub < MaxTick * Sub BY <1>1, Constants
<1>3. tick < MaxTick BY <1>1, <1>2, Constants, ProductOrder
<1>4. MinTick * Sub < (tick + 1) * Sub BY <1>1, Constants
<1>5. MinTick < tick + 1 BY <1>1, <1>4, Constants, ProductOrder
<1>6. QED BY <1>1, <1>3, <1>5, Constants

\* Of the word the walk is in, the next tick and the target lie ahead.
LEMMA NextIs ==
  ASSUME WalkOK, status = "walking", NEW held, held.index = Index, held.ticks \in SUBSET Span(held.index)
  PROVE  LET c == Compress(tick, WalkSpacing(codec))
             found == Ahead(held)
             next == NextAt(held)
             target == TargetAt(held)
         IN /\ c = tick \div WalkSpacing(codec) /\ c \in Int
            /\ found.c \in Span(held.index) /\ found.c \in Int
            /\ next \in Ticks /\ next \in Int /\ next * Sub \in Int
            /\ found.c * WalkSpacing(codec) \in Ticks => next = found.c * WalkSpacing(codec)
            /\ start.down => /\ found.c <= c /\ next <= tick
                             /\ found.c * WalkSpacing(codec) <= next
                             /\ next = found.c * WalkSpacing(codec) \/ next = MinTick
            /\ ~ start.down => /\ c < found.c /\ tick < next
                               /\ next <= found.c * WalkSpacing(codec)
                               /\ next = found.c * WalkSpacing(codec) \/ next = MaxTick
            /\ target \in Int
            /\ start.down => /\ next * Sub <= target /\ target <= sqrtPrice
                             /\ Lowest <= target
            /\ ~ start.down => /\ target <= next * Sub /\ sqrtPrice <= target
                               /\ target <= Highest
<1> DEFINE s == WalkSpacing(codec)
           c == Compress(tick, s)
           found == Ahead(held)
           next == NextAt(held)
           target == TargetAt(held)
<1>1. s \in Nat \ {0} BY SpacingIs
<1> HIDE DEF s
<1>2. PriceInTick /\ start.down \in BOOLEAN BY DEF WalkOK
<1>3. tick \in Int /\ MinTick <= tick /\ tick < MaxTick BY <1>2, TickIsOne
<1>4. c = tick \div s BY <1>1, <1>3, CompressIs
<1>5. c \in Int /\ c * s \in Int /\ c * s <= tick /\ tick < c * s + s
  BY <1>1, <1>3, <1>4, Division
<1>6. /\ found.c \in Span(held.index) /\ found.c \in Int
      /\ IF start.down THEN found.c <= c ELSE c < found.c
  <2>1. held.index = Probe(start.down, c) BY DEF Index, s
  <2>2. found = NextTick(start.down, c, held) BY DEF Ahead, s
  <2> HIDE DEF c, found
  <2>3. QED BY <1>2, <1>5, <2>1, <2>2, NextTickIs
<1> HIDE DEF c, found
<1> DEFINE at == found.c * s
<1>7. at \in Int /\ IF start.down THEN at <= c * s ELSE c * s + s <= at
  BY <1>1, <1>5, <1>6, ProductOrder
<1>8. next = Clamp(at) BY DEF NextAt, found, s
<1> HIDE DEF at, next
<1>9. /\ next \in Int /\ MinTick <= next /\ next <= MaxTick
      /\ (MinTick <= at /\ at <= MaxTick => next = at)
      /\ IF start.down THEN next <= tick /\ at <= next /\ (next = at \/ next = MinTick)
         ELSE tick < next /\ next <= at /\ (next = at \/ next = MaxTick)
  <2>1. at \in Int /\ IF start.down THEN at <= tick ELSE tick < at
    <3> DEFINE cs == c * s
    <3> HIDE DEF cs
    <3>1. QED BY <1>1, <1>3, <1>5, <1>7 DEF cs
  <2>2. MinTick \in Int /\ MaxTick \in Int BY Constants
  <2>3. next = IF at < MinTick THEN MinTick ELSE IF at > MaxTick THEN MaxTick ELSE at
    BY <1>8 DEF Clamp
  <2>4. QED BY <1>3, <2>1, <2>2, <2>3
<1>10. /\ next * Sub \in Int
       /\ IF start.down THEN next * Sub <= tick * Sub ELSE tick * Sub + Sub <= next * Sub
  BY <1>3, <1>9, Constants, ProductOrder
<1>11. /\ target \in Int
       /\ IF start.down THEN next * Sub <= target /\ target <= sqrtPrice /\ Lowest <= target
          ELSE target <= next * Sub /\ sqrtPrice <= target /\ target <= Highest
  <2>1. target = (IF \/ start.down /\ next * Sub < Limit(start.down)
                     \/ ~ start.down /\ next * Sub > Limit(start.down)
                  THEN Limit(start.down) ELSE next * Sub)
    BY DEF TargetAt, next
  <2>2. tick * Sub \in Int /\ tick * Sub <= sqrtPrice /\ sqrtPrice <= tick * Sub + Sub
        /\ sqrtPrice \in Int /\ Lowest <= sqrtPrice /\ sqrtPrice <= Highest
    BY <1>2, TickIsOne DEF PriceInTick
  <2>3. Lowest \in Int /\ Highest \in Int BY Constants
  <2> DEFINE np == next * Sub
             tp == tick * Sub
  <2> HIDE DEF target, np, tp
  <2>7. np \in Int /\ tp \in Int /\ Sub \in Int /\ tp <= sqrtPrice /\ sqrtPrice <= tp + Sub
        /\ (start.down => np <= tp) /\ (~ start.down => tp + Sub <= np)
    BY <1>10, <2>2, Constants DEF np, tp
  <2>8. target = (IF \/ start.down /\ np < Limit(start.down)
                     \/ ~ start.down /\ np > Limit(start.down)
                  THEN Limit(start.down) ELSE np)
    BY <2>1 DEF np
  <2>4. CASE start.down
    <3>1. Limit(start.down) = Lowest BY <2>4 DEF Limit, Lowest
    <3>2. target = IF np < Lowest THEN Lowest ELSE np BY <2>4, <2>8, <3>1
    <3>3. QED BY <2>2, <2>3, <2>4, <2>7, <3>2 DEF np
  <2>5. CASE ~ start.down
    <3>1. Limit(start.down) = Highest BY <2>5 DEF Limit, Highest
    <3>2. target = IF np > Highest THEN Highest ELSE np BY <2>5, <2>8, <3>1
    <3>3. QED BY <2>2, <2>3, <2>5, <2>7, <3>2 DEF np
  <2>6. QED BY <2>4, <2>5
<1> HIDE DEF target
<1>12. next \in Ticks /\ (at \in Ticks => next = at) BY <1>7, <1>9, Constants
<1>13. QED
  BY <1>4, <1>5, <1>6, <1>9, <1>10, <1>11, <1>12 DEF s, c, found, next, target, at

\* A tick that a word can have a bit for and that the walk comes by on its way to
\* the next one is of the word the walk is in.
LEMMA OnTheWay ==
  ASSUME WalkOK, status = "walking", NEW held, held.index = Index, held.ticks \in SUBSET Span(held.index),
         NEW u \in Int, u % WalkSpacing(codec) = 0,
         IF start.down THEN NextAt(held) <= u /\ u <= tick
                       ELSE tick < u /\ u <= NextAt(held)
  PROVE  LET s == WalkSpacing(codec)
             k == u \div s
             c == Compress(tick, s)
         IN /\ k \in Int /\ u = k * s /\ k \in Span(held.index) /\ WordOf(codec, u) = held.index
            /\ IF start.down THEN Ahead(held).c <= k /\ k <= c
                             ELSE c < k /\ k <= Ahead(held).c
            /\ u = NextAt(held) /\ u = Ahead(held).c * s => k = Ahead(held).c
            /\ u # Ahead(held).c * s => k # Ahead(held).c
<1> DEFINE s == WalkSpacing(codec)
           k == u \div s
           c == Compress(tick, s)
           w == held.index
           f == Ahead(held).c
           next == NextAt(held)
<1>1. s \in Nat \ {0} /\ WordSpacing(codec) = s /\ WordSize \in Nat \ {0}
  BY SpacingIs, Constants
<1>2. tick \in Int /\ start.down \in BOOLEAN
  BY TickIsOne DEF WalkOK
<1>3. /\ c = tick \div s /\ c \in Int /\ f \in Int /\ f \in Span(w) /\ next \in Int
      /\ IF start.down THEN f <= c /\ f * s <= next ELSE c < f /\ next <= f * s
  BY <1>2, NextIs
<1>4. w = Probe(start.down, c) BY DEF Index
<1> HIDE DEF s
<1>5. k \in Int /\ u = k * s
  <2>1. k \in Int /\ u = k * s + (u % s) BY <1>1, Division
  <2>2. u % s = 0 BY DEF s
  <2> HIDE DEF k
  <2>3. k * s \in Int BY <1>1, <2>1
  <2>4. QED BY <2>1, <2>2, <2>3
<1>6. c * s \in Int /\ c * s <= tick /\ tick < c * s + s
  BY <1>1, <1>2, <1>3, Division
<1> HIDE DEF k, c, f, next
<1>7. IF start.down THEN f <= k /\ k <= c ELSE c < k /\ k <= f
  <2>1. f * s \in Int /\ k * s \in Int /\ (c + 1) * s = c * s + s BY <1>1, <1>3, <1>5
  <2>2. CASE start.down
    <3>1. next <= u /\ u <= tick BY <2>2 DEF next
    <3>2. f * s <= k * s BY <1>3, <1>5, <2>1, <2>2, <3>1
    <3>3. k * s < (c + 1) * s BY <1>1, <1>2, <1>5, <1>6, <2>1, <3>1
    <3>4. f <= k BY <1>1, <1>3, <1>5, <3>2, ProductOrder
    <3>5. k < c + 1 BY <1>1, <1>3, <1>5, <3>3, ProductOrder
    <3>6. QED BY <1>3, <1>5, <2>2, <3>4, <3>5
  <2>3. CASE ~ start.down
    <3>1. tick < u /\ u <= next BY <2>3 DEF next
    <3>2. k * s <= f * s BY <1>3, <1>5, <2>1, <2>3, <3>1
    <3>3. c * s < k * s BY <1>1, <1>2, <1>5, <1>6, <2>1, <3>1
    <3>4. k <= f BY <1>1, <1>3, <1>5, <3>2, ProductOrder
    <3>5. c < k BY <1>1, <1>3, <1>5, <3>3, ProductOrder
    <3>6. QED BY <1>3, <1>5, <2>3, <3>4, <3>5
  <2>4. QED BY <2>2, <2>3
<1>8. w \in Int /\ w * WordSize \in Int /\ w * WordSize <= k /\ k < w * WordSize + WordSize
  <2> DEFINE wb == w * WordSize
  <2>1. /\ w \in Int /\ wb \in Int
        /\ IF start.down THEN wb <= c /\ c < wb + WordSize
                         ELSE wb <= c + 1 /\ c + 1 < wb + WordSize
    BY <1>2, <1>3, <1>4, ProbeIs
  <2>2. wb <= f /\ f <= wb + WordSize - 1 BY <1>3 DEF Span
  <2> HIDE DEF wb
  <2>3. wb <= k /\ k < wb + WordSize BY <1>1, <1>2, <1>3, <1>5, <1>7, <2>1, <2>2
  <2>4. QED BY <2>1, <2>3 DEF wb
<1>9. k \in Span(w)
  <2> DEFINE wb == w * WordSize
  <2> HIDE DEF wb
  <2>1. wb \in Int /\ wb <= k /\ k < wb + WordSize BY <1>8 DEF wb
  <2>2. k \in wb .. wb + WordSize - 1 BY <1>1, <1>5, <2>1
  <2>3. QED BY <2>2 DEF Span, wb
<1>10. WordOf(codec, u) = w
  <2>1. k \div WordSize = w BY <1>1, <1>5, <1>8, DivisionIs
  <2>2. WordOf(codec, u) = (u \div WordSpacing(codec)) \div WordSize BY DEF WordOf
  <2>3. (u \div WordSpacing(codec)) = k BY <1>1 DEF k
  <2>4. QED BY <2>1, <2>2, <2>3
<1>11. u = f * s <=> k = f
  BY <1>1, <1>3, <1>5, ProductOrder
<1>12. QED BY <1>5, <1>7, <1>9, <1>10, <1>11 DEF s, k, c, f, next

\* The word that is read is the walk's own, and one of the cache's.
LEMMA FoundIs ==
  ASSUME WordIsKnown, word' = Found(Index), known' = known
  PROVE  /\ WordIsKnown'
         /\ \A held \in word' : /\ held.index = Index /\ held.index \in known
                                /\ held.ticks \in SUBSET Span(held.index)
                                /\ held \in word \/ held.ticks = BitsOf(held.index)
         /\ word' # {} => (CHOOSE held \in word' : TRUE) \in word'
<1>1. CASE word # {} /\ \A held \in word : held.index = Index
  <2>1. word' = word BY <1>1 DEF Found, Read
  <2>2. QED BY <1>1, <2>1 DEF WordIsKnown
<1>2. CASE ~ (word # {} /\ \A held \in word : held.index = Index)
  <2>1. CASE Index \in known
    <3> DEFINE new == [index |-> Index, ticks |-> BitsOf(Index)]
    <3>1. word' = {new}
      BY <1>2, <2>1 DEF Found, Read
    <3>2. BitsOf(Index) \in SUBSET Span(Index) BY DEF BitsOf, Span
    <3>3. new.index = Index /\ new.ticks = BitsOf(Index) OBVIOUS
    <3> HIDE DEF new
    <3>4. QED BY <2>1, <3>1, <3>2, <3>3 DEF WordIsKnown
  <2>2. CASE Index \notin known
    <3>1. word' = {} BY <1>2, <2>2 DEF Found, Read
    <3>2. QED BY <3>1 DEF WordIsKnown
  <2>3. QED BY <2>1, <2>2
<1>3. QED BY <1>1, <1>2

\* What an iteration that found its word does.
Took(held, k) ==
  /\ held \in word' /\ held.index = Index /\ held.index \in known
  /\ held.ticks \in SUBSET Span(held.index)
  /\ held \in word \/ held.ticks = BitsOf(held.index)
  /\ k \in Nat
  /\ sqrtPrice' = StepAt(held).price /\ sqrtPrice' = Moved(start.down, sqrtPrice, k)
  /\ sqrtPrice' \in Lowest .. Highest
  /\ IF start.down THEN TargetAt(held) <= sqrtPrice' /\ sqrtPrice' <= sqrtPrice
                   ELSE sqrtPrice <= sqrtPrice' /\ sqrtPrice' <= TargetAt(held)
  /\ out' = out + liquidity * Paid(start.down, sqrtPrice, k)
  /\ remaining' \in Nat /\ k * liquidity <= remaining
  /\ sqrtPrice' = TargetAt(held) => remaining' = remaining - k * liquidity
  /\ sqrtPrice' # TargetAt(held) => remaining' = 0 /\ remaining < k * liquidity + liquidity

\* An iteration that found its word is a step towards the target.
LEMMA IterateTook ==
  ASSUME WalkOK, Iterate, word' # {}
  PROVE  LET held == CHOOSE held \in word' : TRUE
         IN \E k \in Nat : Took(held, k)
<1> DEFINE held == CHOOSE held \in word' : TRUE
           target == TargetAt(held)
           step == StepAt(held)
           distance == Distance(start.down, sqrtPrice, target)
<1>1. held \in word' /\ held.index = Index /\ held.index \in known
      /\ held.ticks \in SUBSET Span(held.index)
      /\ (held \in word \/ held.ticks = BitsOf(held.index))
  <2>1. WordIsKnown /\ word' = Found(Index) /\ known' = known
    BY IterateIs DEF WalkOK
  <2>2. held \in word' BY FoundIs, <2>1
  <2> HIDE DEF held
  <2>3. QED BY <2>1, <2>2, FoundIs
<1>0. status = "walking" BY IterateIs
<1>2. sqrtPrice' = step.price /\ remaining' = remaining - step.in /\ out' = out + step.out
  BY IterateIs
<1> HIDE DEF held
<1>3. /\ target \in Int /\ start.down \in BOOLEAN /\ Lowest \in Int /\ Highest \in Int
      /\ sqrtPrice \in Int /\ liquidity \in Nat /\ remaining \in Nat
      /\ Lowest <= sqrtPrice /\ sqrtPrice <= Highest
  BY <1>0, <1>1, NextIs, TickIsOne, Constants DEF WalkOK
<1>4. IF start.down THEN target <= sqrtPrice /\ Lowest <= target
                   ELSE sqrtPrice <= target /\ target <= Highest
  BY <1>0, <1>1, NextIs
<1>5. step = StepTo(start.down, sqrtPrice, target, liquidity, remaining)
  BY DEF StepAt
<1> HIDE DEF target, step
<1>6. PICK k \in 0 .. distance :
        Stepped(step, start.down, sqrtPrice, distance, liquidity, remaining, k)
  <2>1. IF start.down THEN target <= sqrtPrice ELSE sqrtPrice <= target BY <1>4
  <2>2. QED BY <1>3, <1>5, <2>1, StepToIs
<1>7. k \in Nat /\ k <= distance BY <1>3 DEF Distance
<1>8. /\ sqrtPrice' \in Int
      /\ IF start.down THEN target <= sqrtPrice' /\ sqrtPrice' <= sqrtPrice
                       ELSE sqrtPrice <= sqrtPrice' /\ sqrtPrice' <= target
      /\ sqrtPrice' = target <=> k = distance
  BY <1>2, <1>3, <1>4, <1>6, <1>7 DEF Moved, Stepped, Distance
<1>9. sqrtPrice' \in Lowest .. Highest
  BY <1>3, <1>4, <1>8
<1>10. remaining' \in Nat BY <1>2, <1>3, <1>6 DEF Stepped
<1>11. /\ sqrtPrice' = target => remaining' = remaining - k * liquidity
       /\ sqrtPrice' # target => remaining' = 0 /\ remaining < k * liquidity + liquidity
  <2> HIDE DEF distance
  <2>1. k * liquidity \in Nat BY <1>3, <1>7
  <2>2. distance \in Int BY <1>3 DEF Distance, distance
  <2>3. CASE k = distance BY <1>2, <1>6, <1>8, <2>3 DEF Stepped
  <2>4. CASE k < distance BY <1>2, <1>3, <1>6, <1>8, <2>4 DEF Stepped
  <2>5. QED BY <1>7, <2>2, <2>3, <2>4
<1>12. Took(held, k)
  BY <1>1, <1>2, <1>6, <1>7, <1>8, <1>9, <1>10, <1>11 DEF Took, Stepped, target, step
<1>13. QED BY <1>7, <1>12 DEF held

\* Where an iteration that has found its word leaves the tick.
LEMMA TickFollows ==
  ASSUME WalkOK, Iterate, word' # {}, status' # "error"
  PROVE  LET held == CHOOSE held \in word' : TRUE
         IN /\ PriceInTick'
            /\ ~ (LiquidityAt(held) < 0) /\ liquidity' = LiquidityAt(held)
            /\ tick' = IF Crossed(held) THEN After(NextAt(held))
                       ELSE IF sqrtPrice' # sqrtPrice THEN sqrtPrice' \div Sub ELSE tick
<1> DEFINE held == CHOOSE held \in word' : TRUE
           next == NextAt(held)
<1>1. /\ ~ (LiquidityAt(held) < 0) /\ liquidity' = LiquidityAt(held)
      /\ tick' = IF Crossed(held) THEN After(next)
                 ELSE IF sqrtPrice' # sqrtPrice THEN sqrtPrice' \div Sub ELSE tick
  BY IterateIs
<1>2. PICK k \in Nat : Took(held, k) BY IterateTook
<1>3. status = "walking" /\ start' = start BY IterateIs
<1> HIDE DEF held
<1>4. held.index = Index /\ held.ticks \in SUBSET Span(held.index)
      /\ sqrtPrice' = StepAt(held).price /\ sqrtPrice' \in Lowest .. Highest
  BY <1>2 DEF Took
<1>5. next \in Int /\ next * Sub \in Int BY <1>3, <1>4, NextIs
<1>6. PriceInTick /\ tick \in Int BY <1>3 DEF WalkOK, PriceInTick
<1> HIDE DEF next
<1>7. PriceInTick'
  <2>1. CASE Crossed(held)
    <3>1. sqrtPrice' = next * Sub BY <1>4, <2>1 DEF Crossed, next
    <3>2. tick' = next \/ tick' = next - 1 BY <1>1, <2>1 DEF After
    <3>3. (next - 1) * Sub = next * Sub - Sub BY <1>5, Constants
    <3>4. QED BY <1>4, <1>5, <3>1, <3>2, <3>3, Constants DEF PriceInTick, Lowest, Highest
  <2>2. CASE ~ Crossed(held) /\ sqrtPrice' # sqrtPrice
    <3>1. tick' = sqrtPrice' \div Sub BY <1>1, <2>2
    <3>2. sqrtPrice' \in Int BY <1>4, Constants
    <3>3. tick' \in Int /\ tick' * Sub <= sqrtPrice' /\ sqrtPrice' < tick' * Sub + Sub
      BY <3>1, <3>2, Constants, Division
    <3>4. QED BY <1>4, <3>2, <3>3, Constants DEF PriceInTick, Lowest, Highest
  <2>3. CASE ~ Crossed(held) /\ sqrtPrice' = sqrtPrice
    <3>1. tick' = tick BY <1>1, <2>3
    <3>2. QED BY <1>6, <2>3, <3>1 DEF PriceInTick, Lowest, Highest
  <2>4. QED BY <2>1, <2>2, <2>3
<1>8. QED BY <1>1, <1>7 DEF held, next

\* Every step keeps price, tick and word together.
LEMMA WalkStep ==
  ASSUME WalkOK, [WalkNext]_walkVars
  PROVE  WalkOK'
<1>1. CASE Iterate
  <2>1. /\ word' = Found(Index) /\ UNCHANGED <<codec, start, known, positions, nets>>
        /\ status = "walking"
    BY <1>1, IterateIs
  <2>2. WordIsKnown' BY <2>1, FoundIs DEF WalkOK
  <2>3. CASE word' = {}
    <3>1. UNCHANGED <<sqrtPrice, tick, liquidity, remaining>> BY <1>1, <2>3, IterateIs
    <3>2. QED BY <2>1, <2>2, <3>1 DEF WalkOK, PriceInTick, Lowest, Highest, Ticks
  <2>4. CASE word' # {}
    <3>1. remaining' \in Nat /\ sqrtPrice' \in Int
      <4>1. PICK k \in Nat : Took(CHOOSE held \in word' : TRUE, k) BY <1>1, <2>4, IterateTook
      <4>2. QED BY <4>1, Constants DEF Took
    <3>2. CASE status' = "error"
      <4>1. liquidity' = liquidity
        <5>1. status' # status BY <2>1, <3>2
        <5>2. QED BY <1>1, <2>4, <5>1, IterateIs
      <4>2. QED BY <2>1, <2>2, <3>1, <3>2, <4>1 DEF WalkOK, Lowest, Highest, Ticks
    <3>3. CASE status' # "error"
      <4> DEFINE held == CHOOSE held \in word' : TRUE
      <4>1. PriceInTick' /\ ~ (LiquidityAt(held) < 0) /\ liquidity' = LiquidityAt(held)
        BY <1>1, <2>4, <3>3, TickFollows
      <4>2. NextAt(held) \in Ticks
        <5>1. PICK k \in Nat : Took(held, k) BY <1>1, <2>4, IterateTook
        <5> HIDE DEF held
        <5>2. QED BY <2>1, <5>1, NextIs DEF Took
      <4> HIDE DEF held
      <4>3. LiquidityAt(held) \in Int
        <5> DEFINE next == NextAt(held)
        <5> HIDE DEF next
        <5>1. nets[next] \in Int BY <4>2 DEF WalkOK, next
        <5>2. Delta(next) \in Int BY <5>1 DEF Delta
        <5>3. liquidity \in Nat BY DEF WalkOK
        <5>4. QED BY <5>2, <5>3 DEF LiquidityAt, next
      <4>4. liquidity' \in Nat BY <4>1, <4>3
      <4>5. QED BY <2>1, <2>2, <3>1, <4>1, <4>4 DEF WalkOK, Lowest, Highest, Ticks
    <3>4. QED BY <3>2, <3>3
  <2>5. QED BY <2>3, <2>4
<1>2. CASE EndWalk
  BY <1>2 DEF WalkOK, EndWalk, asked, PriceInTick, WordIsKnown, Lowest, Highest, Ticks
<1>3. CASE GiveUp
  BY <1>3 DEF WalkOK, GiveUp, asked, PriceInTick, WordIsKnown, Lowest, Highest, Ticks

<1>4. CASE \E q \in positions : \E t \in {q.lo, q.hi} : Refresh(q, t)
  <2>0. PICK q \in positions : \E t \in {q.lo, q.hi} : Refresh(q, t) BY <1>4
  <2>1. PICK t \in {q.lo, q.hi} : Refresh(q, t) BY <2>0
  <2> DEFINE after == positions \ {q}
  <2>2. positions' = after /\ (nets' = nets \/ nets' = [nets EXCEPT ![t] = NetAt(after, t)])
        /\ UNCHANGED <<asked, walk>>
    BY <2>1 DEF Refresh
  <2>3. Layout(after) BY DEF Layout, WalkOK
  <2> HIDE DEF after
  <2>4. NetAt(after, t) \in Int BY <2>3, NetIs
  <2>5. nets' \in [Ticks -> Int] BY <2>2, <2>4 DEF WalkOK
  <2>6. QED
    BY <2>2, <2>3, <2>5 DEF WalkOK, asked, walk, PriceInTick, WordIsKnown, Lowest, Highest, Ticks
<1>5. CASE UNCHANGED walkVars
  BY <1>5 DEF WalkOK, walkVars, asked, walk, PriceInTick, WordIsKnown, Lowest, Highest, Ticks
<1>6. QED BY <1>1, <1>2, <1>3, <1>4, <1>5 DEF WalkNext

\* The walk starts at a price of its tick.
LEMMA WalkStart ==
  ASSUME WalkInit
  PROVE  WalkOK
<1>1. /\ codec \in {"packed", "two words"} /\ positions \in Layouts
      /\ start \in [price : {p \in Prices : Limit(TRUE) <= p /\ p <= Limit(FALSE)},
                    amount : Amounts, down : BOOLEAN]
      /\ sqrtPrice = start.price /\ tick \in {sqrtPrice \div Sub, (sqrtPrice - 1) \div Sub}
      /\ liquidity = ActiveAt(positions, tick) /\ remaining = start.amount
      /\ status = "walking" /\ word = {}
  BY DEF WalkInit
<1>2. Layout(positions) BY <1>1 DEF Layout
<1>3. start \in [price : Lowest .. Highest, amount : Nat, down : BOOLEAN]
  <2>1. \A p \in Prices : p \in Int BY Constants DEF Prices
  <2>2. Limit(TRUE) = Lowest /\ Limit(FALSE) = Highest BY DEF Limit, Lowest, Highest
  <2>3. \A p \in Prices : Limit(TRUE) <= p /\ p <= Limit(FALSE) => p \in Lowest .. Highest
    <3>1. TAKE p \in Prices
    <3>2. HAVE Limit(TRUE) <= p /\ p <= Limit(FALSE)
    <3>3. Lowest <= p /\ p <= Highest BY <2>2, <3>2
    <3>4. QED BY <2>1, <3>3, Constants
  <2>4. QED BY <1>1, <2>3, TickWalkAssumption
<1>4. known \subseteq Int
  <2>1. \A t \in Ticks : WordOf(codec, t) \in Int
    <3>1. TAKE t \in Ticks
    <3>2. t \in Int /\ WordSpacing(codec) \in Nat \ {0} /\ WordSize \in Nat \ {0}
      BY Constants, SpacingIs
    <3>3. t \div WordSpacing(codec) \in Int BY <3>2, Division
    <3>4. (t \div WordSpacing(codec)) \div WordSize \in Int BY <3>2, <3>3, Division
    <3>5. QED BY <3>4 DEF WordOf
  <2>2. known \subseteq WordsOf(codec) BY DEF WalkInit
  <2>3. QED BY <2>1, <2>2 DEF WordsOf
<1>5. nets \in [Ticks -> Int]
  <2>1. PICK lost : nets = [t \in Ticks |-> IF t \in lost THEN 0 ELSE NetAt(positions, t)]
    BY DEF WalkInit
  <2>2. \A t \in Ticks : NetAt(positions, t) \in Int BY <1>2, NetIs
  <2>3. QED BY <2>1, <2>2
<1>6. liquidity \in Nat BY <1>1, <1>2, ActiveIs
<1>7. PriceInTick
  <2>1. sqrtPrice \in Lowest .. Highest /\ sqrtPrice \in Int
    <3>1. sqrtPrice \in Lowest .. Highest BY <1>1, <1>3
    <3>2. QED BY <3>1, Constants
  <2>2. CASE tick = sqrtPrice \div Sub
    <3>1. tick \in Int /\ tick * Sub <= sqrtPrice /\ sqrtPrice < tick * Sub + Sub
      BY <2>1, <2>2, Constants, Division
    <3>2. QED BY <2>1, <3>1, Constants DEF PriceInTick
  <2>3. CASE tick = (sqrtPrice - 1) \div Sub
    <3>1. sqrtPrice - 1 \in Int BY <2>1
    <3>2. tick \in Int /\ tick * Sub \in Int
          /\ tick * Sub <= sqrtPrice - 1 /\ sqrtPrice - 1 < tick * Sub + Sub
      <4> DEFINE p == sqrtPrice - 1
      <4>1. p \in Int /\ tick = p \div Sub BY <2>3, <3>1
      <4> HIDE DEF p
      <4>2. tick \in Int /\ tick * Sub <= p /\ p < tick * Sub + Sub
        BY <4>1, Constants, Division
      <4>3. tick * Sub \in Int BY <4>2, Constants
      <4>4. QED BY <4>2, <4>3 DEF p
    <3>3. QED BY <2>1, <3>2, Constants DEF PriceInTick
  <2>4. QED BY <1>1, <2>2, <2>3
<1>8. WordIsKnown BY <1>1 DEF WordIsKnown
<1>9. remaining \in Nat BY <1>1, <1>3
<1>10. sqrtPrice \in Int BY <1>7, TickIsOne
<1>11. QED BY <1>1, <1>2, <1>3, <1>4, <1>5, <1>6, <1>7, <1>8, <1>9, <1>10 DEF WalkOK

\* Price, tick and the word held belong together in every state of the walk.
THEOREM WalkInvariant == WalkSpec => []WalkOK
<1>1. WalkInit => WalkOK BY WalkStart
<1>2. WalkOK /\ [WalkNext]_walkVars => WalkOK' BY WalkStep
<1>3. QED BY <1>1, <1>2, PTL DEF WalkSpec

\* A step takes the price past no tick of a word the cache lacks.
LEMMA GroundStep ==
  ASSUME WalkOK, [WalkNext]_walkVars,
         NEW t \in Ticks, t % WordSpacing(codec) = 0,
         \/ sqrtPrice < t * Sub /\ t * Sub < sqrtPrice'
         \/ sqrtPrice' < t * Sub /\ t * Sub < sqrtPrice
  PROVE  WordOf(codec, t) \in known
<1>1. t \in Int /\ t * Sub \in Int /\ sqrtPrice \in Int
  <2>1. sqrtPrice \in Int BY DEF WalkOK
  <2>2. t \in Int BY Constants
  <2>3. QED BY <2>1, <2>2, Constants, ProductOrder
<1>2. Iterate /\ word' # {}
  <2>1. sqrtPrice' # sqrtPrice BY <1>1
  <2>2. Iterate
    BY <2>1 DEF WalkNext, walkVars, EndWalk, GiveUp, Refresh, walk
  <2>3. word' # {} BY <2>1, <2>2, IterateIs
  <2>4. QED BY <2>2, <2>3
<1> DEFINE held == CHOOSE held \in word' : TRUE
           next == NextAt(held)
<1>3. PICK k \in Nat : Took(held, k) BY <1>2, IterateTook
<1> HIDE DEF held
<1>4. status = "walking" BY <1>2, IterateIs
<1>5. /\ held.index = Index /\ held.index \in known /\ held.ticks \in SUBSET Span(held.index)
      /\ sqrtPrice' \in Int
      /\ IF start.down THEN TargetAt(held) <= sqrtPrice' /\ sqrtPrice' <= sqrtPrice
                       ELSE sqrtPrice <= sqrtPrice' /\ sqrtPrice' <= TargetAt(held)
  BY <1>3, Constants DEF Took
<1>6. /\ next \in Int /\ next * Sub \in Int /\ TargetAt(held) \in Int
      /\ IF start.down THEN next * Sub <= TargetAt(held) ELSE TargetAt(held) <= next * Sub
  BY <1>4, <1>5, NextIs
<1> HIDE DEF next
<1>7. tick \in Int /\ tick * Sub \in Int /\ (tick + 1) * Sub = tick * Sub + Sub
      /\ tick * Sub <= sqrtPrice /\ sqrtPrice <= tick * Sub + Sub
  <2>1. PriceInTick BY <1>4 DEF WalkOK
  <2>2. tick \in Int /\ tick * Sub \in Int BY <2>1, TickIsOne
  <2>3. (tick + 1) * Sub = tick * Sub + Sub BY <2>2, Constants
  <2>4. QED BY <2>1, <2>2, <2>3 DEF PriceInTick
<1>8. IF start.down THEN next * Sub < t * Sub /\ t * Sub < (tick + 1) * Sub
                    ELSE tick * Sub < t * Sub /\ t * Sub < next * Sub
  BY <1>1, <1>5, <1>6, <1>7, Constants
<1>9. IF start.down THEN next <= t /\ t <= tick ELSE tick < t /\ t <= next
  <2>1. CASE start.down
    <3>1. next < t BY <1>1, <1>6, <1>8, <2>1, Constants, ProductOrder
    <3>2. t < tick + 1 BY <1>1, <1>7, <1>8, <2>1, Constants, ProductOrder
    <3>3. QED BY <1>1, <1>6, <1>7, <2>1, <3>1, <3>2
  <2>2. CASE ~ start.down
    <3>1. tick < t BY <1>1, <1>7, <1>8, <2>2, Constants, ProductOrder
    <3>2. t < next BY <1>1, <1>6, <1>8, <2>2, Constants, ProductOrder
    <3>3. QED BY <1>1, <1>6, <1>7, <2>2, <3>1, <3>2
  <2>3. QED BY <2>1, <2>2
<1>10. t % WalkSpacing(codec) = 0 BY SpacingIs
<1>11. WordOf(codec, t) = held.index
  BY <1>1, <1>4, <1>5, <1>9, <1>10, OnTheWay DEF next
<1>12. QED BY <1>5, <1>11

\* The walk stops where the cache knows nothing (try_swap_src, the edge of the
\* known words): no step takes the price past a tick of a word it lacks.
THEOREM WalkKeepsToKnownGround == WalkSpec => OnKnownGround
<1>1. WalkOK /\ [WalkNext]_walkVars =>
        [\A t \in {u \in Ticks : u % WordSpacing(codec) = 0} :
           LET at == t * Sub
           IN (sqrtPrice < at /\ at < sqrtPrice') \/ (sqrtPrice' < at /\ at < sqrtPrice) =>
                WordOf(codec, t) \in known]_walkVars
  BY GroundStep
<1>2. QED BY <1>1, WalkInvariant, PTL DEF WalkSpec, OnKnownGround

-----------------------------------------------------------------------------
(* A cache that has every net and that nobody touches.                     *)

\* The cache is the chain's: the bits, the nets and the word the reader holds.
CacheIsChain ==
  /\ bits = Edges(positions)
  /\ nets = [t \in Ticks |-> NetAt(positions, t)]
  /\ \A held \in word : held.ticks = BitsOf(held.index)

WalkFresh ==
  /\ changes \in Nat
  /\ changes = 0 => /\ CacheIsChain /\ status # "error"
                    /\ liquidity = ActiveAt(positions, tick)

\* Positions begin and end where a word can have a bit.
LEMMA EdgesAre ==
  ASSUME NEW P, Layout(P), NEW e \in Edges(P)
  PROVE  e \in Ticks /\ e \in Int /\ e % Spacing = 0 /\ \A kind : e % WalkSpacing(kind) = 0
<1>1. e \in Ticks /\ e % Spacing = 0 BY LayoutIs DEF Edges
<1>2. e \in Int BY <1>1, Constants
<1>3. e % 1 = 0 BY <1>2
<1>4. QED BY <1>1, <1>2, <1>3, SpacingIs

\* On the way to the next tick no position begins or ends, and at it one does
\* exactly when it is an initialised one.
LEMMA EdgesAhead ==
  ASSUME WalkOK, status = "walking", NEW held, held.index = Index,
         held.ticks = BitsOf(held.index), bits = Edges(positions)
  PROVE  /\ \A e \in Edges(positions) :
              ~ (IF start.down THEN NextAt(held) < e /\ e <= tick
                              ELSE tick < e /\ e < NextAt(held))
         /\ NextAt(held) \in Edges(positions) <=> Ahead(held).initialized
<1> DEFINE s == WalkSpacing(codec)
           c == Compress(tick, s)
           f == Ahead(held)
           next == NextAt(held)
<1>1. Layout(positions) /\ start.down \in BOOLEAN BY DEF WalkOK
<1>2. held.ticks \in SUBSET Span(held.index) BY DEF BitsOf, Span
<1>3. /\ c \in Int /\ f.c \in Int /\ next \in Int /\ tick \in Int
      /\ (f.c * s \in Ticks => next = f.c * s)
      /\ IF start.down THEN next <= tick ELSE tick < next
  <2>1. tick \in Int BY TickIsOne DEF WalkOK
  <2>2. QED BY <1>1, <1>2, <2>1, NextIs
<1>4. /\ f.initialized \in BOOLEAN
      /\ f.initialized <=> f.c \in held.ticks
      /\ \A b \in held.ticks :
           ~ (IF start.down THEN f.c < b /\ b <= c ELSE c < b /\ b < f.c)
  <2>1. held.index = Probe(start.down, c) BY DEF Index
  <2>2. f = NextTick(start.down, c, held) BY DEF Ahead
  <2> HIDE DEF c, f
  <2>3. QED BY <1>1, <1>2, <1>3, <2>1, <2>2, NextTickIs
<1>5. ASSUME NEW e \in Edges(positions),
             IF start.down THEN next <= e /\ e <= tick ELSE tick < e /\ e <= next
      PROVE  f.initialized /\ e = f.c * s
  <2> DEFINE k == e \div s
  <2>1. e \in Int /\ e % s = 0 BY <1>1, EdgesAre
  <2>2. /\ k \in Int /\ e = k * s /\ k \in Span(held.index)
        /\ IF start.down THEN f.c <= k /\ k <= c ELSE c < k /\ k <= f.c
    BY <1>2, <1>5, <2>1, OnTheWay
  <2> HIDE DEF k
  <2>3. k \in held.ticks
    BY <2>2, SpacingIs DEF BitsOf, Span
  <2> HIDE DEF c, f
  <2>4. k = f.c BY <1>3, <1>4, <2>2, <2>3
  <2>5. QED BY <1>4, <2>2, <2>3, <2>4
<1>6. ASSUME NEW e \in Edges(positions) 
      PROVE  ~ (IF start.down THEN next < e /\ e <= tick ELSE tick < e /\ e < next)
  <2>1. SUFFICES ASSUME IF start.down THEN next < e /\ e <= tick ELSE tick < e /\ e < next
                 PROVE  FALSE
    OBVIOUS
  <2>2. e \in Int /\ e \in Ticks BY <1>1, EdgesAre
  <2> HIDE DEF next
  <2>3. IF start.down THEN next <= e /\ e <= tick ELSE tick < e /\ e <= next
    BY <1>3, <2>1, <2>2
  <2>4. e = f.c * s BY <1>5, <2>3
  <2>5. next = e BY <1>3, <2>2, <2>4
  <2>6. QED BY <1>1, <1>3, <2>1, <2>5
<1>7. next \in Edges(positions) => f.initialized
  <2> HIDE DEF f
  <2>1. IF start.down THEN next <= next /\ next <= tick ELSE tick < next /\ next <= next
    BY <1>1, <1>3
  <2>2. QED BY <1>5, <2>1
<1>8. f.initialized => next \in Edges(positions)
  <2>1. HAVE f.initialized
  <2>2. f.c * s \in Edges(positions)
    BY <1>4, <2>1, SpacingIs DEF BitsOf
  <2>3. QED BY <1>1, <1>3, <2>2, EdgesAre
<1>9. QED BY <1>6, <1>7, <1>8

\* The liquidity of every unit of price up to the next tick is the walk's.
LEMMA ActiveOn ==
  ASSUME WalkOK, status = "walking", NEW held, held.index = Index,
         held.ticks = BitsOf(held.index), bits = Edges(positions),
         NEW x \in Int,
         IF start.down THEN NextAt(held) * Sub <= x /\ x < tick * Sub + Sub
                       ELSE tick * Sub <= x /\ x < NextAt(held) * Sub
  PROVE  ActiveAt(positions, x \div Sub) = ActiveAt(positions, tick)
<1> DEFINE q == x \div Sub
           next == NextAt(held)
<1>1. q \in Int /\ q * Sub \in Int /\ q * Sub <= x /\ x < q * Sub + Sub
  BY Constants, Division, ProductOrder
<1>2. held.ticks \in SUBSET Span(held.index) BY DEF BitsOf, Span
<1>3. next \in Int /\ next * Sub \in Int /\ tick \in Int /\ tick * Sub \in Int
      /\ Layout(positions) /\ start.down \in BOOLEAN
  BY <1>2, NextIs, TickIsOne DEF WalkOK
<1>4. \A e \in Edges(positions) :
        ~ (IF start.down THEN next < e /\ e <= tick ELSE tick < e /\ e < next)
  BY EdgesAhead
<1>5. \A e \in Edges(positions) : e \in Int BY <1>3, EdgesAre
<1> HIDE DEF q
<1>6. (q + 1) * Sub = q * Sub + Sub /\ (tick + 1) * Sub = tick * Sub + Sub
  BY <1>1, <1>3, Constants
<1>7. CASE start.down
  <2>1. next * Sub < (q + 1) * Sub /\ q * Sub < (tick + 1) * Sub
    <3>1. next * Sub <= x /\ x < tick * Sub + Sub BY <1>7
    <3> HIDE DEF next
    <3>2. QED BY <1>1, <1>3, <1>6, <3>1, Constants
  <2> HIDE DEF next
  <2>2. next < q + 1 /\ q < tick + 1 BY <1>1, <1>3, <2>1, Constants, ProductOrder
  <2>3. q <= tick /\ next <= q BY <1>1, <1>3, <2>2
  <2>4. \A e \in Edges(positions) : ~ (q < e /\ e <= tick)
    BY <1>1, <1>3, <1>4, <1>5, <1>7, <2>3
  <2>5. ActiveAt(positions, q) = ActiveAt(positions, tick)
    BY <1>1, <1>3, <2>3, <2>4, ActiveBetween
  <2>6. QED BY <2>5 DEF q
<1>8. CASE ~ start.down
  <2>1. q * Sub < next * Sub /\ tick * Sub < (q + 1) * Sub
    <3>1. tick * Sub <= x /\ x < next * Sub BY <1>8
    <3> HIDE DEF next
    <3>2. QED BY <1>1, <1>3, <1>6, <3>1, Constants
  <2> HIDE DEF next
  <2>2. q < next /\ tick < q + 1 BY <1>1, <1>3, <2>1, Constants, ProductOrder
  <2>3. tick <= q BY <1>1, <1>3, <2>2
  <2>4. \A e \in Edges(positions) : ~ (tick < e /\ e <= q)
    BY <1>1, <1>3, <1>4, <1>5, <1>8, <2>2
  <2>5. ActiveAt(positions, tick) = ActiveAt(positions, q)
    BY <1>1, <1>3, <2>3, <2>4, ActiveBetween
  <2>6. QED BY <2>5 DEF q
<1>9. QED BY <1>7, <1>8

\* At the next tick the walk takes in what begins or ends there.
LEMMA ActiveAfterCrossing ==
  ASSUME WalkOK, status = "walking", NEW held, held.index = Index,
         held.ticks = BitsOf(held.index), CacheIsChain,
         liquidity = ActiveAt(positions, tick), Crossed(held)
  PROVE  LiquidityAt(held) = ActiveAt(positions, After(NextAt(held)))
<1> DEFINE next == NextAt(held)
<1>1. held.ticks \in SUBSET Span(held.index) BY DEF BitsOf, Span
<1>2. next \in Int /\ next \in Ticks /\ tick \in Int
      /\ Layout(positions) /\ start.down \in BOOLEAN
      /\ IF start.down THEN next <= tick ELSE tick < next
  BY <1>1, NextIs, TickIsOne DEF WalkOK
<1>3. /\ \A e \in Edges(positions) :
           ~ (IF start.down THEN next < e /\ e <= tick ELSE tick < e /\ e < next)
      /\ next \in Edges(positions) <=> Ahead(held).initialized
  BY EdgesAhead DEF CacheIsChain
<1>4. \A e \in Edges(positions) : e \in Int BY <1>2, EdgesAre
<1>5. nets[next] = NetAt(positions, next) /\ NetAt(positions, next) \in Int
  BY <1>2, NetIs DEF CacheIsChain
<1> HIDE DEF next
<1>6. ActiveAt(positions, next) = ActiveAt(positions, next - 1) + NetAt(positions, next)
  BY <1>2, ActiveAcross
<1>7. ~ Ahead(held).initialized => ActiveAt(positions, next - 1) = ActiveAt(positions, next)
  <2>1. HAVE ~ Ahead(held).initialized
  <2>2. \A e \in Edges(positions) : ~ (next - 1 < e /\ e <= next)
    BY <1>2, <1>3, <1>4, <2>1
  <2>3. next - 1 \in Int /\ next - 1 <= next BY <1>2
  <2>4. QED BY <1>2, <2>2, <2>3, ActiveBetween
<1>8. ActiveAt(positions, next) \in Nat /\ ActiveAt(positions, next - 1) \in Nat
  BY <1>2, ActiveIs
<1>9. LiquidityAt(held) = IF Ahead(held).initialized THEN liquidity + Delta(next) ELSE liquidity
  BY DEF LiquidityAt, next
<1>10. CASE start.down
  <2>1. \A e \in Edges(positions) : ~ (next < e /\ e <= tick) BY <1>3, <1>10
  <2>2. next <= tick BY <1>2, <1>10
  <2>3. liquidity = ActiveAt(positions, next) BY <1>2, <2>1, <2>2, ActiveBetween
  <2>4. After(next) = next - 1 /\ Delta(next) = - NetAt(positions, next)
    BY <1>5, <1>10 DEF After, Delta
  <2>5. QED BY <1>5, <1>6, <1>7, <1>8, <1>9, <2>3, <2>4 DEF next
<1>11. CASE ~ start.down
  <2>1. \A e \in Edges(positions) : ~ (tick < e /\ e <= next - 1)
    BY <1>2, <1>3, <1>4, <1>11
  <2>2. tick <= next - 1 /\ next - 1 \in Int BY <1>2, <1>11
  <2>3. liquidity = ActiveAt(positions, next - 1) BY <1>2, <2>1, <2>2, ActiveBetween
  <2>4. After(next) = next /\ Delta(next) = NetAt(positions, next)
    BY <1>5, <1>11 DEF After, Delta
  <2>5. QED BY <1>5, <1>6, <1>7, <1>8, <1>9, <2>3, <2>4 DEF next
<1>12. QED BY <1>10, <1>11

\* So is that of the tick the walk stops on before the next.
LEMMA ActiveBefore ==
  ASSUME WalkOK, Iterate, NEW held, NEW k, Took(held, k),
         held.ticks = BitsOf(held.index), CacheIsChain,
         liquidity = ActiveAt(positions, tick), ~ Crossed(held), sqrtPrice' # sqrtPrice
  PROVE  liquidity = ActiveAt(positions, sqrtPrice' \div Sub)
<1>1. status = "walking" /\ held.index = Index /\ held.ticks \in SUBSET Span(held.index)
  BY IterateIs DEF Took
<1> DEFINE next == NextAt(held)
<1>2. /\ next \in Int /\ next * Sub \in Int /\ TargetAt(held) \in Int /\ start.down \in BOOLEAN
      /\ IF start.down THEN next * Sub <= TargetAt(held) ELSE TargetAt(held) <= next * Sub
  BY <1>1, NextIs DEF WalkOK
<1>3. sqrtPrice' # next * Sub /\ sqrtPrice' \in Int
      /\ IF start.down THEN TargetAt(held) <= sqrtPrice' /\ sqrtPrice' <= sqrtPrice
                       ELSE sqrtPrice <= sqrtPrice' /\ sqrtPrice' <= TargetAt(held)
  BY Constants DEF Took, Crossed
<1>4. tick * Sub \in Int /\ tick * Sub <= sqrtPrice /\ sqrtPrice <= tick * Sub + Sub /\ sqrtPrice \in Int
  BY <1>1, TickIsOne DEF WalkOK, PriceInTick
<1>5. IF start.down THEN next * Sub <= sqrtPrice' /\ sqrtPrice' < tick * Sub + Sub
                    ELSE tick * Sub <= sqrtPrice' /\ sqrtPrice' < next * Sub
  <2> HIDE DEF next
  <2>1. QED BY <1>2, <1>3, <1>4, Constants
<1>6. QED BY <1>1, <1>3, <1>5, ActiveOn DEF CacheIsChain

\* Every step keeps the walk's liquidity that of the pool.
LEMMA FreshStep ==
  ASSUME WalkOK, WalkFresh, [WalkNext]_walkVars
  PROVE  WalkFresh'
<1>1. CASE Iterate
  <2>1. /\ status = "walking" /\ word' = Found(Index)
        /\ UNCHANGED <<codec, start, known, positions, bits, nets, changes>>
    BY <1>1, IterateIs
  <2>2. SUFFICES ASSUME changes = 0
                 PROVE  CacheIsChain' /\ status' # "error"
                        /\ liquidity' = ActiveAt(positions, tick')
    BY <2>1 DEF WalkFresh
  <2>3. CacheIsChain /\ liquidity = ActiveAt(positions, tick) BY <2>2 DEF WalkFresh
  <2>4. \A held \in word' : held.ticks = BitsOf(held.index)
    BY <2>1, <2>3, FoundIs DEF WalkOK, CacheIsChain
  <2>5. CacheIsChain'
    <3>1. \A w : BitsOf(w)' = BitsOf(w) BY <2>1 DEF BitsOf
    <3>2. QED BY <2>1, <2>3, <2>4, <3>1 DEF CacheIsChain
  <2>6. CASE word' = {}
    BY <1>1, <2>1, <2>3, <2>5, <2>6, IterateIs
  <2>7. CASE word' # {}
    <3> DEFINE held == CHOOSE held \in word' : TRUE
    <3>1. PICK k \in Nat : Took(held, k) BY <1>1, <2>7, IterateTook
    <3>2. LiquidityAt(held) < 0 => status' = "error" /\ UNCHANGED <<tick, liquidity>>
      BY <1>1, <2>7, IterateIs
    <3>3. ~ (LiquidityAt(held) < 0) =>
             /\ liquidity' = LiquidityAt(held) /\ UNCHANGED status
             /\ tick' = IF Crossed(held) THEN After(NextAt(held))
                        ELSE IF StepAt(held).price # sqrtPrice THEN StepAt(held).price \div Sub
                        ELSE tick
      BY <1>1, <2>7, IterateIs
    <3> HIDE DEF held
    <3>4. held.index = Index /\ held.ticks = BitsOf(held.index)
          /\ sqrtPrice' = StepAt(held).price
      BY <2>4, <3>1 DEF Took
    <3>5. Layout(positions) BY DEF WalkOK
    <3>6. CASE Crossed(held)
      <4>1. LiquidityAt(held) = ActiveAt(positions, After(NextAt(held)))
        BY <2>1, <2>3, <3>4, <3>6, ActiveAfterCrossing
      <4>2. LiquidityAt(held) \in Nat BY <3>5, <4>1, ActiveIs
      <4>3. QED BY <2>1, <2>5, <3>3, <3>6, <4>1, <4>2
    <3>7. CASE ~ Crossed(held)
      <4>1. LiquidityAt(held) = liquidity BY <3>7 DEF LiquidityAt
      <4>2. liquidity \in Nat BY DEF WalkOK
      <4>3. liquidity' = liquidity /\ UNCHANGED status
            /\ tick' = IF sqrtPrice' # sqrtPrice THEN sqrtPrice' \div Sub ELSE tick
        BY <3>3, <3>4, <3>7, <4>1, <4>2
      <4>4. CASE sqrtPrice' # sqrtPrice
        <5>1. liquidity = ActiveAt(positions, sqrtPrice' \div Sub)
          BY <1>1, <2>3, <3>1, <3>4, <3>7, <4>4, ActiveBefore
        <5>2. QED BY <2>1, <2>5, <4>3, <4>4, <5>1
      <4>5. CASE sqrtPrice' = sqrtPrice
        BY <2>1, <2>3, <2>5, <4>3, <4>5
      <4>6. QED BY <4>4, <4>5
    <3>8. QED BY <3>6, <3>7
  <2>8. QED BY <2>6, <2>7
<1>2. CASE EndWalk
  BY <1>2 DEF WalkFresh, CacheIsChain, BitsOf, EndWalk, asked
<1>3. CASE GiveUp
  BY <1>3 DEF WalkFresh, CacheIsChain, BitsOf, GiveUp, asked
<1>4. CASE \E q \in positions : \E t \in {q.lo, q.hi} : Refresh(q, t)
  <2>1. changes' = changes + 1 BY <1>4 DEF Refresh
  <2>2. changes' \in Nat /\ changes' # 0 BY <2>1 DEF WalkFresh
  <2>3. QED BY <2>2 DEF WalkFresh
<1>5. CASE UNCHANGED walkVars
  BY <1>5 DEF WalkFresh, CacheIsChain, BitsOf, walkVars, asked, walk
<1>6. QED BY <1>1, <1>2, <1>3, <1>4, <1>5 DEF WalkNext

\* With every net fetched the walk starts with the chain's ticks.
LEMMA FreshStart ==
  ASSUME WalkInit, MaxLost = 0
  PROVE  WalkFresh
<1>1. Layout(positions) BY DEF WalkInit, Layout
<1>2. IsFiniteSet(Edges(positions))
  <2>1. Edges(positions) \subseteq Ticks BY <1>1, EdgesAre
  <2>2. IsFiniteSet(Ticks) BY Constants, FS_Interval
  <2>3. QED BY <2>1, <2>2, FS_Subset
<1>3. PICK lost \in UNION {kSubset(n, Edges(positions)) : n \in 0 .. MaxLost} :
        nets = [t \in Ticks |-> IF t \in lost THEN 0 ELSE NetAt(positions, t)]
  BY DEF WalkInit
<1>4. lost = {}
  <2>1. lost \in SUBSET Edges(positions) /\ Cardinality(lost) = 0 BY <1>3 DEF kSubset
  <2>2. QED BY <1>2, <2>1, FS_Subset, FS_EmptySet
<1>5. nets = [t \in Ticks |-> NetAt(positions, t)] BY <1>3, <1>4
<1>6. QED BY <1>5 DEF WalkInit, WalkFresh, CacheIsChain

\* On a cache nobody touches, with every net, the walk's liquidity is the pool's.
THEOREM WalkLiquidityIsActive == ASSUME MaxLost = 0 PROVE WalkSpec => []LiquidityIsActive
<1>1. WalkInit => WalkOK /\ WalkFresh BY WalkStart, FreshStart
<1>2. (WalkOK /\ WalkFresh) /\ [WalkNext]_walkVars => (WalkOK /\ WalkFresh)'
  BY WalkStep, FreshStep
<1>3. WalkOK /\ WalkFresh => LiquidityIsActive BY DEF WalkFresh, LiquidityIsActive
<1>4. QED BY <1>1, <1>2, <1>3, PTL DEF WalkSpec

-----------------------------------------------------------------------------
(* What an amount buys unit by unit.                                       *)

\* What MapThenSumSet computes of the pay of some units.
LEMMA PaySumIs ==
  ASSUME NEW down, NEW p, NEW P, NEW S \in SUBSET P, IsFiniteSet(S)
  PROVE  MapThenSumSet(LAMBDA n : Pay(down, p, n), S) = Total([n \in P |-> Pay(down, p, n)], S)
<1> DEFINE w == [n \in P |-> Pay(down, p, n)]
           Body(f, s) == IF s = {} THEN 0
                         ELSE Pay(down, p, One(s)) + f[s \ {One(s)}]
           iter == CHOOSE iter : iter = [s \in SUBSET S |-> Body(iter, s)]
<1>1. MapThenSumSet(LAMBDA n : Pay(down, p, n), S) = iter[S]
  BY Zenon DEF MapThenSumSet, MapThenFoldSet, One
<1>2. ASSUME NEW f, NEW s \in SUBSET S PROVE Body(f, s) = Unfolded(w, f, s)
  <2>1. CASE s = {} BY <2>1 DEF Unfolded
  <2>2. CASE s # {}
    <3>1. One(s) \in P BY <2>2, OneOf
    <3>2. w[One(s)] = Pay(down, p, One(s)) BY <3>1
    <3> HIDE DEF w
    <3>3. QED BY <2>2, <3>2 DEF Unfolded
  <2>3. QED BY <2>1, <2>2
<1>3. PICK f : Sums(w, f, S) BY SumsExist
<1>4. f = [s \in SUBSET S |-> Body(f, s)]
  <2> HIDE DEF Body, w
  <2>1. [s \in SUBSET S |-> Unfolded(w, f, s)] = [s \in SUBSET S |-> Body(f, s)]
    BY <1>2
  <2>2. QED BY <1>3, <2>1 DEF Sums
<1>5. iter = [s \in SUBSET S |-> Body(iter, s)]
  <2> HIDE DEF Body
  <2>1. QED BY <1>4, Zenon
<1>6. Sums(w, iter, S)
  <2> HIDE DEF Body, w, iter
  <2>1. [s \in SUBSET S |-> Unfolded(w, iter, s)] = [s \in SUBSET S |-> Body(iter, s)]
    BY <1>2
  <2>2. QED BY <1>5, <2>1 DEF Sums
<1>7. Total(w, S) = iter[S]
  <2> HIDE DEF w, iter
  <2>1. QED BY <1>6, TotalIs
<1>8. QED BY <1>1, <1>7, Zenon

\* One unit more pays its own pay more.
LEMMA PaidIs ==
  ASSUME NEW down \in BOOLEAN, NEW p \in Int, NEW k \in Nat
  PROVE  /\ Paid(down, p, 0) = 0
         /\ Paid(down, p, k + 1) = Paid(down, p, k) + Pay(down, p, k + 1)
         /\ Paid(down, p, k) \in Int /\ Pay(down, p, k) \in Int
<1> DEFINE w == [n \in Nat |-> Pay(down, p, n)]
<1>1. \A n \in Nat : w[n] = Pay(down, p, n) /\ Pay(down, p, n) \in Int
  BY Constants DEF Pay
<1>2. \A n \in Nat : 1 .. n \in SUBSET Nat /\ IsFiniteSet(1 .. n)
  BY FS_Interval
<1>3. \A n \in Nat : Paid(down, p, n) = Total(w, 1 .. n)
  BY <1>2, PaySumIs, Zenon DEF Paid
<1> HIDE DEF w
<1>4. Paid(down, p, 0) = 0
  <2>1. 1 .. 0 = {} OBVIOUS
  <2>2. Paid(down, p, 0) = Total(w, 1 .. 0) BY <1>3
  <2>3. Total(w, {}) = 0 BY FS_EmptySet, TotalUnfolds
  <2>4. QED BY <2>1, <2>2, <2>3
<1>5. Paid(down, p, k) \in Int BY <1>1, <1>2, <1>3, TotalType
<1>6. Total(w, 1 .. k + 1) = w[k + 1] + Total(w, (1 .. k + 1) \ {k + 1})
  <2>1. k + 1 \in Nat /\ k + 1 \in 1 .. k + 1 OBVIOUS
  <2>2. \A x \in 1 .. k + 1 : w[x] \in Int BY <1>1
  <2>3. IsFiniteSet(1 .. k + 1) BY <1>2, <2>1
  <2>4. QED BY <2>1, <2>2, <2>3, TotalWithout
<1>7. (1 .. k + 1) \ {k + 1} = 1 .. k OBVIOUS
<1>8. k + 1 \in Nat OBVIOUS
<1>9. Paid(down, p, k + 1) = Total(w, 1 .. k + 1) /\ Paid(down, p, k) = Total(w, 1 .. k)
  BY <1>3, <1>8
<1>10. w[k + 1] = Pay(down, p, k + 1) /\ Pay(down, p, k + 1) \in Int /\ Pay(down, p, k) \in Int
  BY <1>1, <1>8
<1>11. Paid(down, p, k + 1) = Pay(down, p, k + 1) + Paid(down, p, k)
  BY <1>6, <1>7, <1>9, <1>10
<1>12. QED BY <1>4, <1>5, <1>10, <1>11

\* A unit pays what it pays wherever the count of units begins.
LEMMA PayFrom ==
  ASSUME NEW down \in BOOLEAN, NEW p \in Int, NEW n \in Nat, NEW i \in Nat
  PROVE  Pay(down, Moved(down, p, n), i + 1) = Pay(down, p, n + (i + 1))
<1> DEFINE lo == MinTick * Sub
           hi == MaxTick * Sub
<1>1. lo \in Int /\ hi \in Int BY Constants
<1> HIDE DEF lo, hi
<1>2. \A a, b : Pay(down, a, b) = IF down THEN (a - b + 1) - lo ELSE hi - (a + b - 1)
  BY DEF Pay, lo, hi
<1>3. QED BY <1>1, <1>2 DEF Moved

\* The units from the price asked to the limit, and the tick of the n-th.
Units(st) == IF st.down THEN st.price - Lowest ELSE Highest - st.price
Under(st, n) == IF st.down THEN st.price - n ELSE st.price + n - 1
Live(P, st, n) == ActiveAt(P, Under(st, n) \div Sub)

\* What is left and what it has bought after the n-th unit.
Sold(P, st, n, before) ==
  IF before[1] >= Live(P, st, n)
  THEN <<before[1] - Live(P, st, n),
         before[2] + Live(P, st, n) * Pay(st.down, st.price, n)>>
  ELSE <<0, before[2]>>

IsCurve(P, st, f) ==
  f = [n \in 0 .. Units(st) |-> IF n = 0 THEN <<st.amount, 0>> ELSE Sold(P, st, n, f[n - 1])]

Curve(P, st) == CHOOSE f : IsCurve(P, st, f)

\* Worth is the end of the curve.
LEMMA WorthIs == Worth = Curve(positions, start)[Units(start)][2]
<1>1. Units(start) = IF start.down THEN start.price - Limit(TRUE) ELSE Limit(FALSE) - start.price
  BY DEF Units, Limit, Lowest, Highest
<1>2. QED BY <1>1, Zenon DEF Worth, Curve, IsCurve, Sold, Live, Under

\* What the walk asks of a start.
Asked(st) == st \in [price : Lowest .. Highest, amount : Nat, down : BOOLEAN]

\* From the price asked there are units to go, each with its pay.
LEMMA UnitsAre ==
  ASSUME NEW st, Asked(st)
  PROVE  /\ Units(st) \in Nat /\ st.price \in Int /\ st.amount \in Nat /\ st.down \in BOOLEAN
         /\ \A n \in 1 .. Units(st) : Pay(st.down, st.price, n) \in Nat
<1>1. /\ st.price \in Int /\ Lowest <= st.price /\ st.price <= Highest
      /\ st.amount \in Nat /\ st.down \in BOOLEAN
  <2>1. st.price \in Lowest .. Highest /\ st.amount \in Nat /\ st.down \in BOOLEAN BY DEF Asked
  <2>2. QED BY <2>1, Constants
<1>2. Units(st) \in Nat BY <1>1, Constants DEF Units
<1>3. ASSUME NEW n \in 1 .. Units(st) PROVE Pay(st.down, st.price, n) \in Nat
  <2> DEFINE lo == MinTick * Sub
             hi == MaxTick * Sub
  <2>1. lo \in Int /\ hi \in Int /\ Lowest = lo + 1 /\ Highest = hi - 1 BY Constants
  <2> HIDE DEF lo, hi
  <2>2. Pay(st.down, st.price, n) = IF st.down THEN (st.price - n + 1) - lo ELSE hi - (st.price + n - 1)
    BY DEF Pay, lo, hi
  <2>3. n \in Int /\ 1 <= n /\ n <= Units(st) BY <1>2
  <2>4. QED BY <1>1, <2>1, <2>2, <2>3 DEF Units
<1>4. QED BY <1>1, <1>2, <1>3

\* The curve is a solution of its recursion.
LEMMA CurveExists ==
  ASSUME NEW P, NEW st, Asked(st)
  PROVE  IsCurve(P, st, Curve(P, st))
<1> DEFINE U == Units(st)
           Entry(f, n) == IF n = 0 THEN <<st.amount, 0>> ELSE Sold(P, st, n, f[n - 1])
           Solved(f, m) == \A n \in 0 .. U : n < m => f[n] = Entry(f, n)
           IsFun(f) == f = [n \in 0 .. U |-> f[n]]
           A == {m \in Nat : \E f : IsFun(f) /\ Solved(f, m)}
<1>1. U \in Nat BY UnitsAre
<1> HIDE DEF U
<1>2. 0 \in A
  <2> DEFINE f == [n \in 0 .. U |-> 0]
  <2>1. IsFun(f) OBVIOUS
  <2>2. Solved(f, 0)
    <3>1. \A n \in 0 .. U : ~ (n < 0) BY <1>1
    <3> HIDE DEF f
    <3>2. QED BY <3>1
  <2>3. \E g : IsFun(g) /\ Solved(g, 0)
    <3> HIDE DEF f, IsFun, Solved
    <3>1. QED BY <2>1, <2>2
  <2>4. QED
    <3> HIDE DEF IsFun, Solved
    <3>1. QED BY <2>3
<1>3. ASSUME NEW m \in Nat, m \in A PROVE m + 1 \in A
  <2>1. PICK f : IsFun(f) /\ Solved(f, m) BY <1>3
  <2> DEFINE g == [n \in 0 .. U |-> IF n < m THEN f[n] ELSE Entry(f, n)]
  <2>2. IsFun(g) OBVIOUS
  <2>3. ASSUME NEW n \in 0 .. U, n < m + 1 PROVE g[n] = Entry(g, n)
    <3> HIDE DEF Entry
    <3>1. g[n] = Entry(f, n) BY <2>1
    <3>2. CASE n = 0 BY <3>1, <3>2 DEF Entry
    <3>3. CASE n # 0
      <4>1. n - 1 \in 0 .. U /\ n - 1 < m BY <1>1, <2>3, <3>3
      <4>2. g[n - 1] = f[n - 1] BY <4>1
      <4> HIDE DEF g
      <4>3. QED BY <3>1, <3>3, <4>2 DEF Entry
    <3>4. QED BY <3>2, <3>3
  <2>4. Solved(g, m + 1)
    <3> HIDE DEF g, Entry
    <3>1. QED BY <2>3
  <2>5. \E h : IsFun(h) /\ Solved(h, m + 1)
    <3> HIDE DEF g, IsFun, Solved
    <3>1. QED BY <2>2, <2>4
  <2>6. QED
    <3> HIDE DEF IsFun, Solved
    <3>1. QED BY <2>5
<1>4. Nat \subseteq A
  <2> HIDE DEF A
  <2>1. QED BY <1>2, <1>3, Induction
<1>5. U + 1 \in A
  <2> HIDE DEF A
  <2>1. QED BY <1>1, <1>4
<1>6. PICK f : IsFun(f) /\ Solved(f, U + 1) BY <1>5
<1>7. ASSUME NEW n \in 0 .. U PROVE f[n] = Entry(f, n)
  <2>1. n < U + 1 BY <1>1
  <2>2. QED BY <1>6, <2>1, Zenon
<1>8. f = [n \in 0 .. U |-> Entry(f, n)]
  <2> HIDE DEF Entry
  <2>1. [n \in 0 .. U |-> f[n]] = [n \in 0 .. U |-> Entry(f, n)] BY <1>7
  <2>2. QED BY <1>6, <2>1
<1>9. IsCurve(P, st, f) BY <1>8, Zenon DEF IsCurve, U
<1>10. QED BY <1>9, Zenon DEF Curve

\* The curve, unit by unit.
LEMMA CurveIs ==
  ASSUME NEW P, Layout(P), NEW st, Asked(st)
  PROVE  LET f == Curve(P, st)
         IN /\ f[0] = <<st.amount, 0>>
            /\ \A n \in 1 .. Units(st) : f[n] = Sold(P, st, n, f[n - 1])
            /\ \A n \in 0 .. Units(st) : f[n] \in Nat \X Nat
<1> DEFINE f == Curve(P, st)
           U == Units(st)
           A == {n \in Nat : n <= U => f[n] \in Nat \X Nat}
<1>1. U \in Nat /\ st.amount \in Nat /\ \A n \in 1 .. U : Pay(st.down, st.price, n) \in Nat
  BY UnitsAre
<1>2. f = [n \in 0 .. U |-> IF n = 0 THEN <<st.amount, 0>> ELSE Sold(P, st, n, f[n - 1])]
  BY CurveExists, Zenon DEF IsCurve
<1> HIDE DEF f, U
<1>3. f[0] = <<st.amount, 0>>
  <2>1. 0 \in 0 .. U BY <1>1
  <2>2. QED BY <1>2, <2>1, Zenon
<1>4. ASSUME NEW n \in 1 .. U PROVE f[n] = Sold(P, st, n, f[n - 1])
  <2>1. n \in 0 .. U /\ n # 0 BY <1>1
  <2>2. QED BY <1>2, <2>1, Zenon
<1>5. 0 \in A BY <1>1, <1>3
<1>6. ASSUME NEW n \in Nat, n \in A PROVE n + 1 \in A
  <2>1. SUFFICES ASSUME n + 1 <= U PROVE f[n + 1] \in Nat \X Nat OBVIOUS
  <2>2. n + 1 \in 1 .. U /\ (n + 1) - 1 = n BY <1>1, <2>1
  <2>3. f[n + 1] = Sold(P, st, n + 1, f[n]) BY <1>4, <2>2
  <2>4. f[n] \in Nat \X Nat BY <1>1, <1>6, <2>1
  <2> DEFINE l == Live(P, st, n + 1)
             pay == Pay(st.down, st.price, n + 1)
             b == f[n]
  <2>5. l \in Nat /\ pay \in Nat BY <1>1, <2>2, ActiveIs DEF Live
  <2>6. f[n + 1] = IF b[1] >= l THEN <<b[1] - l, b[2] + l * pay>> ELSE <<0, b[2]>>
    BY <2>3, Zenon DEF Sold
  <2>7. b[1] \in Nat /\ b[2] \in Nat BY <2>4
  <2> HIDE DEF l, pay, b
  <2>8. l * pay \in Nat BY <2>5
  <2>9. QED BY <2>5, <2>6, <2>7, <2>8
<1>7. Nat \subseteq A
  <2> HIDE DEF A
  <2>1. QED BY <1>5, <1>6, Induction
<1>8. \A n \in 0 .. U : f[n] \in Nat \X Nat BY <1>1, <1>7
<1>9. QED BY <1>3, <1>4, <1>8 DEF f, U

\* One unit of the curve.
LEMMA CurveUnit ==
  ASSUME NEW P, Layout(P), NEW st, Asked(st), NEW n \in Nat, n < Units(st)
  PROVE  LET b == Curve(P, st)[n]
             a == Curve(P, st)[n + 1]
             l == Live(P, st, n + 1)
         IN /\ b[1] \in Nat /\ b[2] \in Nat /\ a[1] \in Nat /\ a[2] \in Nat /\ l \in Nat
            /\ b[1] >= l => a[1] = b[1] - l
                            /\ a[2] = b[2] + l * Pay(st.down, st.price, n + 1)
            /\ b[1] < l => a[1] = 0 /\ a[2] = b[2]
            /\ b[2] <= a[2]
            /\ b[1] = 0 => a[1] = 0 /\ a[2] = b[2]
<1> DEFINE b == Curve(P, st)[n]
           a == Curve(P, st)[n + 1]
           l == Live(P, st, n + 1)
           pay == Pay(st.down, st.price, n + 1)
<1>1. Units(st) \in Nat /\ \A m \in 1 .. Units(st) : Pay(st.down, st.price, m) \in Nat
  BY UnitsAre
<1>2. n + 1 \in 1 .. Units(st) /\ n \in 0 .. Units(st) /\ n + 1 \in 0 .. Units(st)
      /\ (n + 1) - 1 = n
  BY <1>1
<1>3. a = Sold(P, st, n + 1, b) /\ a \in Nat \X Nat /\ b \in Nat \X Nat
  BY <1>2, CurveIs
<1>4. l \in Nat /\ pay \in Nat BY <1>1, <1>2, ActiveIs DEF Live
<1>5. a = IF b[1] >= l THEN <<b[1] - l, b[2] + l * pay>> ELSE <<0, b[2]>>
  BY <1>3, Zenon DEF Sold
<1> HIDE DEF a, b, l, pay
<1>6. b[1] \in Nat /\ b[2] \in Nat /\ a[1] \in Nat /\ a[2] \in Nat BY <1>3
<1> DEFINE gain == l * pay
<1>7. gain \in Nat /\ (l = 0 => gain = 0) BY <1>4
<1>8. a = IF b[1] >= l THEN <<b[1] - l, b[2] + gain>> ELSE <<0, b[2]>> BY <1>5
<1> HIDE DEF gain
<1>9. /\ b[1] >= l => a[1] = b[1] - l /\ a[2] = b[2] + gain
      /\ b[1] < l => a[1] = 0 /\ a[2] = b[2]
  BY <1>4, <1>6, <1>8
<1>10. b[2] <= a[2] /\ (b[1] = 0 => a[1] = 0 /\ a[2] = b[2])
  BY <1>4, <1>6, <1>7, <1>9
<1>11. QED BY <1>4, <1>6, <1>9, <1>10 DEF a, b, l, pay, gain

\* What has been bought is kept, and when nothing is left nothing more is bought.
LEMMA CurveGrows ==
  ASSUME NEW P, Layout(P), NEW st, Asked(st), NEW n \in 0 .. Units(st)
  PROVE  LET f == Curve(P, st)
         IN /\ f[n][2] <= f[Units(st)][2]
            /\ f[n][1] = 0 => f[Units(st)][2] = f[n][2]
            /\ f[n][2] \in Nat /\ f[Units(st)][2] \in Nat
<1> DEFINE f == Curve(P, st)
           U == Units(st)
           Holds(m) == f[n][2] <= f[m][2] /\ (f[n][1] = 0 => f[m][1] = 0 /\ f[m][2] = f[n][2])
           A == {i \in Nat : n + i <= U => Holds(n + i)}
<1>1. U \in Nat /\ n \in Nat /\ n \in 0 .. U BY UnitsAre
<1>2. \A m \in 0 .. U : f[m][1] \in Nat /\ f[m][2] \in Nat
  <2>1. \A m \in 0 .. U : f[m] \in Nat \X Nat BY CurveIs
  <2> HIDE DEF f, U
  <2>2. QED BY <2>1
<1>3. 0 \in A
  <2>1. n + 0 = n BY <1>1
  <2>2. f[n][2] \in Nat BY <1>2
  <2> HIDE DEF f
  <2>3. QED BY <2>1, <2>2
<1>4. ASSUME NEW i \in Nat, i \in A PROVE i + 1 \in A
  <2>1. SUFFICES ASSUME n + (i + 1) <= U PROVE Holds(n + (i + 1)) OBVIOUS
  <2> DEFINE m == n + i
  <2>2. m \in Nat /\ m < U /\ n + (i + 1) = m + 1 /\ m \in 0 .. U /\ m + 1 \in 0 .. U
    BY <1>1, <2>1
  <2>3. Holds(m) BY <1>1, <1>4, <2>1
  <2> HIDE DEF m
  <2>4. f[m][2] <= f[m + 1][2] /\ (f[m][1] = 0 => f[m + 1][1] = 0 /\ f[m + 1][2] = f[m][2])
    BY <2>2, CurveUnit
  <2> HIDE DEF f, U
  <2>5. f[n][2] \in Nat /\ f[m][2] \in Nat /\ f[m + 1][2] \in Nat BY <1>1, <1>2, <2>2
  <2>6. Holds(m + 1) BY <2>3, <2>4, <2>5
  <2>7. QED BY <2>2, <2>6
<1>5. Nat \subseteq A
  <2> HIDE DEF A
  <2>1. QED BY <1>3, <1>4, Induction
<1>6. U - n \in Nat /\ n + (U - n) = U BY <1>1
<1>7. Holds(U)
  <2> HIDE DEF Holds, f, U
  <2>1. QED BY <1>1, <1>5, <1>6
<1>8. U \in 0 .. U BY <1>1
<1>9. QED BY <1>2, <1>7, <1>8

\* After n units there is r left, and that pays for k more of liquidity l.
Affords(P, st, n, k, l, r) ==
  k * l <= r /\ \A i \in 1 .. k : Live(P, st, n + i) = l

\* What is left and what has been bought k units later.
Later(st, n, k, l, r, o) ==
  <<r - k * l, o + l * Paid(st.down, Moved(st.down, st.price, n), k)>>

\* While there is enough, each of k units of the same liquidity is bought.
LEMMA CurveAlong ==
  ASSUME NEW P, Layout(P), NEW st, Asked(st), NEW n \in Nat, NEW k \in Nat,
         n + k <= Units(st), NEW l \in Nat, NEW r \in Nat, NEW o \in Int,
         Curve(P, st)[n] = <<r, o>>, Affords(P, st, n, k, l, r)
  PROVE  Curve(P, st)[n + k] = Later(st, n, k, l, r, o)
<1>0. k * l <= r /\ \A i \in 1 .. k : Live(P, st, n + i) = l BY DEF Affords
<1> DEFINE f == Curve(P, st)
           U == Units(st)
           p == Moved(st.down, st.price, n)
           Holds(i) == /\ f[n + i][1] = r - i * l
                       /\ f[n + i][2] = o + l * Paid(st.down, p, i)
           A == {i \in Nat : i <= k => Holds(i)}
<1>1. /\ U \in Nat /\ st.price \in Int /\ st.down \in BOOLEAN
      /\ \A m \in 1 .. U : Pay(st.down, st.price, m) \in Nat
  BY UnitsAre
<1>2. p \in Int BY <1>1 DEF Moved
<1>3. 0 \in A
  <2>1. Paid(st.down, p, 0) = 0 BY <1>1, <1>2, PaidIs
  <2> HIDE DEF p
  <2>2. n + 0 = n /\ r - 0 * l = r /\ o + l * 0 = o OBVIOUS
  <2>3. f[n][1] = r /\ f[n][2] = o OBVIOUS
  <2> HIDE DEF f
  <2>4. QED BY <2>1, <2>2, <2>3
<1>4. ASSUME NEW i \in Nat, i \in A PROVE i + 1 \in A
  <2>1. SUFFICES ASSUME i + 1 <= k PROVE Holds(i + 1) OBVIOUS
  <2> DEFINE m == n + i
             paid == Paid(st.down, p, i)
             pay == Pay(st.down, p, i + 1)
  <2>2. m \in Nat /\ m < U /\ n + (i + 1) = m + 1 BY <1>1, <2>1
  <2>3. Holds(i) BY <1>4, <2>1
  <2>4. Live(P, st, m + 1) = l
    <3>1. i + 1 \in 1 .. k BY <2>1
    <3>2. QED BY <1>0, <2>2, <3>1
  <2>5. pay = Pay(st.down, st.price, m + 1)
    <3>1. pay = Pay(st.down, st.price, n + (i + 1)) BY <1>1, PayFrom
    <3>2. QED BY <2>2, <3>1
  <2>6. Paid(st.down, p, i + 1) = paid + pay /\ paid \in Int /\ pay \in Int
    <3>1. i + 1 \in Nat OBVIOUS
    <3> HIDE DEF p
    <3>2. QED BY <1>1, <1>2, <3>1, PaidIs
  <2>7. f[m][1] = r - i * l /\ f[m][2] = o + l * paid BY <2>3
  <2>8. r - i * l >= l
    <3>1. (i + 1) * l <= k * l BY <2>1, ProductLe
    <3>2. (i + 1) * l = i * l + l OBVIOUS
    <3>3. i * l \in Nat /\ k * l \in Nat OBVIOUS
    <3> DEFINE il == i * l
               kl == k * l
    <3> HIDE DEF il, kl
    <3>4. il + l <= kl /\ il \in Nat /\ kl \in Nat /\ kl <= r BY <1>0, <3>1, <3>2, <3>3 DEF il, kl
    <3>5. r - il >= l BY <3>4
    <3>6. QED BY <3>5 DEF il
  <2> HIDE DEF m
  <2>9. f[m + 1][1] = f[m][1] - l /\ f[m + 1][2] = f[m][2] + l * pay
    BY <2>2, <2>4, <2>5, <2>7, <2>8, CurveUnit
  <2> HIDE DEF f, p, paid, pay
  <2>10. (r - i * l) - l = r - (i + 1) * l OBVIOUS
  <2>11. (o + l * paid) + l * pay = o + l * (paid + pay) BY <2>6
  <2>12. QED BY <2>2, <2>6, <2>7, <2>9, <2>10, <2>11
<1>5. Nat \subseteq A
  <2> HIDE DEF A
  <2>1. QED BY <1>3, <1>4, Induction
<1>6. Holds(k) BY <1>5
<1>7. f[n + k] \in Nat \X Nat BY <1>1, CurveIs
<1>8. QED
  <2> HIDE DEF f, p
  <2>1. f[n + k] = <<f[n + k][1], f[n + k][2]>> BY <1>7
  <2>2. QED BY <1>6, <2>1 DEF f, p, Later

\* Units the walk has gone.
Gone == IF start.down THEN start.price - sqrtPrice ELSE sqrtPrice - start.price

\* What the walk has left and has bought is what the curve says of the units it
\* has gone, or all is spent and the rest did not pay for one more.
OnCurve ==
  changes = 0 =>
    /\ Gone \in 0 .. Units(start)
    /\ \/ Curve(positions, start)[Gone] = <<remaining, out>>
       \/ /\ remaining = 0 /\ Gone < Units(start)
          /\ Curve(positions, start)[Gone][2] = out
          /\ Curve(positions, start)[Gone][1] < Live(positions, start, Gone + 1)
    /\ status = "done" => ~ More

\* Every unit of a step, and the one it stops before, has the walk's liquidity.
LEMMA UnitsOfStep ==
  ASSUME WalkOK, WalkFresh, changes = 0, Iterate, NEW held, NEW k, Took(held, k),
         held.ticks = BitsOf(held.index), Gone \in 0 .. Units(start)
  PROVE  /\ Gone' = Gone + k /\ Gone + k \in 0 .. Units(start)
         /\ \A i \in 1 .. k : Live(positions, start, Gone + i) = liquidity
         /\ sqrtPrice' # TargetAt(held) =>
              /\ Live(positions, start, (Gone + k) + 1) = liquidity
              /\ Gone + k < Units(start)
<1> DEFINE next == NextAt(held)
           target == TargetAt(held)
<1>1. /\ status = "walking" /\ held.index = Index /\ held.ticks \in SUBSET Span(held.index)
      /\ start' = start /\ k \in Nat
  BY IterateIs DEF Took
<1>2. /\ sqrtPrice \in Int /\ Lowest <= sqrtPrice /\ sqrtPrice <= Highest
      /\ tick * Sub \in Int /\ tick * Sub <= sqrtPrice /\ sqrtPrice <= tick * Sub + Sub
      /\ Lowest \in Int /\ Highest \in Int /\ Sub \in Int
  <2>1. PriceInTick BY <1>1 DEF WalkOK
  <2>2. /\ sqrtPrice \in Int /\ Lowest <= sqrtPrice /\ sqrtPrice <= Highest
        /\ tick * Sub \in Int
    BY <2>1, TickIsOne
  <2>3. QED BY <2>1, <2>2, Constants DEF PriceInTick
<1>3. start.price \in Int /\ start.down \in BOOLEAN /\ Asked(start)
  BY UnitsAre DEF WalkOK, Asked
<1>4. /\ next * Sub \in Int /\ target \in Int
      /\ IF start.down THEN next * Sub <= target /\ Lowest <= target
                       ELSE target <= next * Sub /\ target <= Highest
  BY <1>1, <1>3, NextIs
<1>5. /\ sqrtPrice' = Moved(start.down, sqrtPrice, k)
      /\ IF start.down THEN target <= sqrtPrice' /\ sqrtPrice' <= sqrtPrice
                       ELSE sqrtPrice <= sqrtPrice' /\ sqrtPrice' <= target
  BY DEF Took
<1> DEFINE np == next * Sub
           tp == tick * Sub
<1> HIDE DEF target, next, np, tp
<1>6. Gone' = Gone + k /\ Gone \in Int /\ Gone + k \in Int
  BY <1>1, <1>2, <1>3, <1>5 DEF Gone, Moved
<1>7. Gone + k \in 0 .. Units(start)
  <2>1. Gone + k >= 0 BY <1>1, <1>2, <1>3, UnitsAre DEF Gone
  <2>2. Gone + k <= Units(start)
    BY <1>1, <1>2, <1>3, <1>4, <1>5 DEF Gone, Moved, Units
  <2>3. QED BY <1>3, <1>6, <2>1, <2>2, UnitsAre
<1>8. ASSUME NEW i \in Nat, 1 <= i, IF start.down THEN target <= sqrtPrice - i
                                               ELSE sqrtPrice + i <= target
      PROVE  Live(positions, start, Gone + i) = liquidity
  <2> DEFINE x == Under(start, Gone + i)
  <2>1. x \in Int /\ x = IF start.down THEN sqrtPrice - i ELSE sqrtPrice + i - 1
    BY <1>2, <1>3 DEF Under, Gone
  <2> HIDE DEF x
  <2>2. IF start.down THEN np <= x /\ x < tp + Sub ELSE tp <= x /\ x < np
    BY <1>2, <1>3, <1>4, <1>8, <2>1 DEF np, tp
  <2>3. CacheIsChain /\ liquidity = ActiveAt(positions, tick) BY DEF WalkFresh
  <2>4. ActiveAt(positions, x \div Sub) = ActiveAt(positions, tick)
    <3>1. bits = Edges(positions) BY <2>3 DEF CacheIsChain
    <3>2. IF start.down THEN NextAt(held) * Sub <= x /\ x < tick * Sub + Sub
                       ELSE tick * Sub <= x /\ x < NextAt(held) * Sub
      BY <2>2 DEF np, tp, next
    <3>3. QED BY <1>1, <2>1, <3>1, <3>2, ActiveOn
  <2>5. QED BY <2>3, <2>4 DEF Live, x
<1>9. ASSUME NEW i \in 1 .. k PROVE Live(positions, start, Gone + i) = liquidity
  <2>1. i \in Nat /\ 1 <= i /\ i <= k BY <1>1
  <2>2. IF start.down THEN target <= sqrtPrice - i ELSE sqrtPrice + i <= target
    BY <1>1, <1>2, <1>3, <1>4, <1>5, <2>1 DEF Moved
  <2>3. QED BY <1>8, <2>1, <2>2
<1>10. ASSUME sqrtPrice' # target
       PROVE  Live(positions, start, (Gone + k) + 1) = liquidity /\ Gone + k < Units(start)
  <2>1. k + 1 \in Nat /\ 1 <= k + 1 /\ Gone + (k + 1) = (Gone + k) + 1 BY <1>1, <1>6
  <2>2. IF start.down THEN target <= sqrtPrice - (k + 1) ELSE sqrtPrice + (k + 1) <= target
    BY <1>1, <1>2, <1>3, <1>4, <1>5, <1>10 DEF Moved
  <2>3. Live(positions, start, Gone + (k + 1)) = liquidity BY <1>8, <2>1, <2>2
  <2>4. Gone + k < Units(start)
    BY <1>1, <1>2, <1>3, <1>4, <2>2 DEF Gone, Units
  <2>5. QED BY <2>1, <2>3, <2>4
<1>11. QED BY <1>6, <1>7, <1>9, <1>10 DEF target

\* Every step keeps the walk on the curve.
LEMMA CurveStep ==
  ASSUME WalkOK, WalkFresh, OnCurve, [WalkNext]_walkVars
  PROVE  OnCurve'
<1> DEFINE f == Curve(positions, start)
           U == Units(start)
<1>1. CASE Iterate
  <2>1. /\ status = "walking" /\ More /\ word' = Found(Index)
        /\ UNCHANGED <<codec, start, known, positions, bits, nets, changes>>
    BY <1>1, IterateIs
  <2>2. SUFFICES ASSUME changes = 0
                 PROVE  /\ Gone' \in 0 .. U
                        /\ \/ f[Gone'] = <<remaining', out'>>
                           \/ /\ remaining' = 0 /\ Gone' < U
                              /\ f[Gone'][2] = out'
                              /\ f[Gone'][1] < Live(positions, start, Gone' + 1)
                        /\ status' # "done"
    BY <2>1 DEF OnCurve
  <2>3. Gone \in 0 .. U /\ f[Gone] = <<remaining, out>>
    BY <2>1, <2>2 DEF OnCurve, More
  <2>4. CASE word' = {}
    <3>1. status' = "edge" /\ UNCHANGED <<sqrtPrice, remaining, out>>
      BY <1>1, <2>4, IterateIs
    <3>2. Gone' = Gone BY <2>1, <3>1 DEF Gone
    <3>3. QED BY <2>3, <3>1, <3>2
  <2>5. CASE word' # {}
    <3> DEFINE held == CHOOSE held \in word' : TRUE
    <3>1. PICK k \in Nat : Took(held, k) BY <1>1, <2>5, IterateTook
    <3>2. status' # "done" BY <1>1, <2>1, <2>5, IterateIs
    <3> HIDE DEF held
    <3>3. held.ticks = BitsOf(held.index)
      BY <2>2, <3>1 DEF Took, WalkFresh, CacheIsChain
    <3>4. /\ Gone' = Gone + k /\ Gone + k \in 0 .. U
          /\ \A i \in 1 .. k : Live(positions, start, Gone + i) = liquidity
          /\ sqrtPrice' # TargetAt(held) =>
               Live(positions, start, (Gone + k) + 1) = liquidity /\ Gone + k < U
      BY <1>1, <2>2, <2>3, <3>1, <3>3, UnitsOfStep
    <3>5. Asked(start) /\ Layout(positions) /\ liquidity \in Nat /\ remaining \in Nat
      BY DEF WalkOK, Asked
    <3>6. U \in Nat /\ start.price \in Int /\ start.down \in BOOLEAN /\ sqrtPrice \in Int
      BY <3>5, UnitsAre DEF WalkOK
    <3>7. /\ k * liquidity <= remaining
          /\ out' = out + liquidity * Paid(start.down, sqrtPrice, k)
          /\ sqrtPrice' = TargetAt(held) => remaining' = remaining - k * liquidity
          /\ sqrtPrice' # TargetAt(held) => remaining' = 0 /\ remaining < k * liquidity + liquidity
      BY <3>1 DEF Took
    <3>8. Gone \in Nat /\ Gone + k <= U BY <2>3, <3>1, <3>4, <3>6
    <3>9. out \in Int
      <4>1. f[Gone] \in Nat \X Nat BY <2>3, <3>5, CurveIs
      <4>2. <<remaining, out>> \in Nat \X Nat BY <2>3, <4>1
      <4>3. QED BY <4>2
    <3>10. Moved(start.down, start.price, Gone) = sqrtPrice BY <3>6 DEF Moved, Gone
    <3>11. f[Gone + k] = <<remaining - k * liquidity,
                           out + liquidity * Paid(start.down, sqrtPrice, k)>>
      <4>1. Affords(positions, start, Gone, k, liquidity, remaining)
        BY <3>4, <3>7 DEF Affords
      <4>2. f[Gone + k] = Later(start, Gone, k, liquidity, remaining, out)
        BY <2>3, <3>5, <3>8, <3>9, <4>1, CurveAlong
      <4>3. QED BY <3>10, <4>2 DEF Later
    <3> HIDE DEF f, U
    <3>12. CASE sqrtPrice' = TargetAt(held)
      BY <3>2, <3>4, <3>7, <3>11, <3>12
    <3>13. CASE sqrtPrice' # TargetAt(held)
      <4>1. remaining - k * liquidity < liquidity
        <5> DEFINE kl == k * liquidity
        <5>1. kl \in Nat BY <3>5
        <5> HIDE DEF kl
        <5>2. remaining < kl + liquidity BY <3>7, <3>13 DEF kl
        <5>3. remaining - kl < liquidity BY <3>5, <5>1, <5>2
        <5>4. QED BY <5>3 DEF kl
      <4>2. f[Gone + k][1] < Live(positions, start, (Gone + k) + 1) /\ f[Gone + k][2] = out'
        BY <3>4, <3>7, <3>11, <3>13, <4>1
      <4>3. QED BY <3>2, <3>4, <3>7, <3>13, <4>2
    <3>14. QED BY <3>12, <3>13
  <2>6. QED BY <2>4, <2>5
<1>2. CASE EndWalk
  <2>1. /\ ~ More /\ UNCHANGED <<positions, changes, start, sqrtPrice, remaining, out>>
    BY <1>2 DEF EndWalk, asked
  <2>2. Gone' = Gone /\ (~ More') BY <2>1 DEF Gone, More
  <2>3. QED BY <2>1, <2>2 DEF OnCurve
<1>3. CASE GiveUp
  <2>1. /\ status' # "done" /\ UNCHANGED <<positions, changes, start, sqrtPrice, remaining, out>>
    BY <1>3 DEF GiveUp, asked
  <2>2. Gone' = Gone BY <2>1 DEF Gone
  <2>3. QED BY <2>1, <2>2 DEF OnCurve
<1>4. CASE \E q \in positions : \E t \in {q.lo, q.hi} : Refresh(q, t)
  <2>1. changes' = changes + 1 BY <1>4 DEF Refresh
  <2>2. changes' # 0 BY <2>1 DEF WalkFresh
  <2>3. QED BY <2>2 DEF OnCurve
<1>5. CASE UNCHANGED walkVars
  <2>1. UNCHANGED <<positions, changes, start, sqrtPrice, remaining, out, status>>
    BY <1>5 DEF walkVars, asked, walk
  <2>2. Gone' = Gone /\ More' = More BY <2>1 DEF Gone, More
  <2>3. QED BY <2>1, <2>2 DEF OnCurve
<1>6. QED BY <1>1, <1>2, <1>3, <1>4, <1>5 DEF WalkNext

\* It starts there.
LEMMA CurveStart ==
  ASSUME WalkInit
  PROVE  OnCurve
<1>1. WalkOK BY WalkStart
<1>2. sqrtPrice = start.price /\ remaining = start.amount /\ out = 0 /\ status = "walking"
  BY DEF WalkInit
<1>3. Asked(start) /\ Layout(positions) BY <1>1 DEF WalkOK, Asked
<1>4. Units(start) \in Nat /\ start.price \in Int BY <1>3, UnitsAre
<1>5. Gone = 0 BY <1>2, <1>4 DEF Gone
<1>6. Curve(positions, start)[0] = <<start.amount, 0>> BY <1>3, CurveIs
<1>7. QED BY <1>2, <1>4, <1>5, <1>6 DEF OnCurve

\* On the curve no quote is above its end, and a finished one is there.
LEMMA QuoteIsTrueOnCurve ==
  ASSUME WalkOK, WalkFresh, OnCurve
  PROVE  QuoteIsTrue
<1> DEFINE f == Curve(positions, start)
           U == Units(start)
<1>1. SUFFICES ASSUME status # "walking", changes = 0
               PROVE  Quote <= Worth /\ (status = "done" => Quote = Worth)
  BY DEF QuoteIsTrue
<1>2. Quote = out BY <1>1 DEF Quote, WalkFresh
<1>3. Worth = f[U][2] BY WorthIs
<1>4. Asked(start) /\ Layout(positions) BY DEF WalkOK, Asked
<1>5. U \in Nat /\ start.price \in Int /\ start.down \in BOOLEAN BY <1>4, UnitsAre
<1>6. Gone \in 0 .. U /\ Gone \in Nat BY <1>1, <1>5 DEF OnCurve
<1>7. /\ f[Gone][2] <= f[U][2] /\ f[Gone][2] \in Nat /\ f[U][2] \in Nat
      /\ f[Gone][1] = 0 => f[U][2] = f[Gone][2]
  BY <1>4, <1>6, CurveGrows
<1>8. f[Gone][2] = out BY <1>1 DEF OnCurve
<1>9. ASSUME status = "done" PROVE out = f[U][2]
  <2>1. remaining = 0 \/ sqrtPrice = Limit(start.down) BY <1>1, <1>9 DEF OnCurve, More
  <2>2. CASE sqrtPrice = Limit(start.down)
    <3>1. Limit(start.down) = IF start.down THEN Lowest ELSE Highest
      BY DEF Limit, Lowest, Highest
    <3>2. Gone = U BY <2>2, <3>1 DEF Gone, Units
    <3>3. QED BY <1>8, <3>2
  <2>3. CASE remaining = 0 /\ f[Gone] = <<remaining, out>>
    BY <1>7, <1>8, <2>3
  <2>4. CASE Gone < U /\ f[Gone][1] < Live(positions, start, Gone + 1)
    <3>1. f[Gone + 1][1] = 0 /\ f[Gone + 1][2] = f[Gone][2]
      BY <1>4, <1>6, <2>4, CurveUnit
    <3>2. Gone + 1 \in 0 .. U BY <1>5, <1>6, <2>4
    <3>3. f[U][2] = f[Gone + 1][2] BY <1>4, <3>1, <3>2, CurveGrows
    <3>4. QED BY <1>8, <3>1, <3>3
  <2>5. QED BY <1>1, <2>1, <2>2, <2>3, <2>4 DEF OnCurve
<1>10. QED BY <1>2, <1>3, <1>7, <1>8, <1>9

\* Where nobody touches the cache and no net is missing, a quote is never more
\* than what the pool would pay unit by unit, and is that when the walk ends.
THEOREM WalkQuoteIsTrue == ASSUME MaxLost = 0 PROVE WalkSpec => []QuoteIsTrue
<1>1. WalkInit => WalkOK /\ WalkFresh /\ OnCurve BY WalkStart, FreshStart, CurveStart
<1>2. (WalkOK /\ WalkFresh /\ OnCurve) /\ [WalkNext]_walkVars => (WalkOK /\ WalkFresh /\ OnCurve)'
  BY WalkStep, FreshStep, CurveStep
<1>3. WalkOK /\ WalkFresh /\ OnCurve => QuoteIsTrue BY QuoteIsTrueOnCurve
<1>4. QED BY <1>1, <1>2, <1>3, PTL DEF WalkSpec

=============================================================================

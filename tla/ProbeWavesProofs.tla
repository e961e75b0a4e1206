------------------------- MODULE ProbeWavesProofs -------------------------
(***************************************************************************)
(* What ProbeWaves guarantees for any backends, models, callers and gap:   *)
(* types, single flight, the wait a 429 asks for, the spacing of the       *)
(* generations of a key, and what the ring of samples holds.               *)
(***************************************************************************)
EXTENDS ProbeWaves, FiniteSetTheorems, FunctionTheorems, SequenceTheorems, TLAPS

Samples == Time \X Backends \X Models

\* The number of ring entries not later than a sample is at most the ring's length,
\* so insertSorted always has a place for it (insertSorted).
LEMMA InsertionPoint ==
  ASSUME NEW ring \in Seq(Samples), NEW s
  PROVE  Cardinality({i \in 1..Len(ring) : ~Before(s, ring[i])}) \in 0..Len(ring)
<1> DEFINE P == {i \in 1..Len(ring) : ~Before(s, ring[i])}
<1>1. Len(ring) \in Nat
  BY LenProperties
<1>2. IsFiniteSet(1..Len(ring)) /\ Cardinality(1..Len(ring)) = Len(ring)
  <2>1. /\ IsFiniteSet(1..Len(ring))
        /\ Cardinality(1..Len(ring)) = IF 1 > Len(ring) THEN 0 ELSE Len(ring) - 1 + 1
    BY <1>1, FS_Interval
  <2> QED
    BY <1>1, <2>1
<1>3. P \in SUBSET (1..Len(ring))
  OBVIOUS
<1>4. IsFiniteSet(P) /\ Cardinality(P) <= Len(ring)
  BY <1>2, <1>3, FS_Subset
<1>5. Cardinality(P) \in Nat
  BY <1>4, FS_CardinalityType
<1> QED
  BY <1>1, <1>4, <1>5

\* How many entries of the ring are not later than a sample.
NotLater(ring, s) == Cardinality({i \in 1..Len(ring) : ~Before(s, ring[i])})

\* Recording a sample keeps the ring a sequence of samples, and puts the sample behind
\* as many as are not later (insertSorted).
LEMMA InsertedIsRing ==
  ASSUME NEW ring \in Seq(Samples), NEW s \in Samples
  PROVE  LET q == insertSorted(ring, s)
             n == NotLater(ring, s)
         IN  /\ q \in Seq(Samples) /\ Len(q) = Len(ring) + 1
             /\ \A i \in 1..n : q[i] = ring[i]
             /\ q[n + 1] = s
             /\ \A i \in n + 1..Len(ring) : q[i + 1] = ring[i]
<1> DEFINE n == NotLater(ring, s)
           q == insertSorted(ring, s)
           front == SubSeq(ring, 1, n)
           back == SubSeq(ring, n + 1, Len(ring))
<1>1. Len(ring) \in Nat /\ n \in 0..Len(ring)
  BY InsertionPoint, LenProperties DEF NotLater
<1>2. \A i \in 1..Len(ring) : ring[i] \in Samples
  BY ElementOfSeq
<1>3. insertSorted(ring, s) = (front \o <<s>>) \o back
  <2>1. (1 + n) - 1 = n /\ 1 + n = n + 1
    BY <1>1
  <2> QED
    BY <2>1 DEF insertSorted, InsertAt, NotLater
<1> HIDE DEF n, q
<1>4. front \in Seq(Samples) /\ Len(front) = n /\ \A i \in 1..n : front[i] = ring[i]
  <2>1. n \in Int /\ \A i \in 1..n : ring[i] \in Samples
    BY <1>1, <1>2
  <2> QED
    BY <1>1, <2>1, SubSeqProperties
<1>5. /\ back \in Seq(Samples) /\ Len(back) = Len(ring) - n
      /\ \A i \in 1..Len(ring) - n : back[i] = ring[n + i]
  <2>1. n + 1 \in Int /\ Len(ring) \in Int /\ \A i \in (n + 1)..Len(ring) : ring[i] \in Samples
    BY <1>1, <1>2
  <2>2. /\ back \in Seq(Samples)
        /\ Len(back) = IF n + 1 <= Len(ring) THEN Len(ring) - (n + 1) + 1 ELSE 0
        /\ \A i \in 1..Len(ring) - (n + 1) + 1 : back[i] = ring[n + 1 + i - 1]
    BY <2>1, SubSeqProperties
  <2> HIDE DEF back
  <2> QED
    BY <1>1, <2>2
<1>6. <<s>> \in Seq(Samples) /\ Len(<<s>>) = 1 /\ <<s>>[1] = s
  OBVIOUS
<1> HIDE DEF front, back
<1> DEFINE head == front \o <<s>>
<1>7. /\ head \in Seq(Samples) /\ Len(head) = n + 1
      /\ \A i \in 1..n + 1 : head[i] = IF i <= n THEN front[i] ELSE <<s>>[i - n]
  BY <1>4, <1>6, ConcatProperties
<1>8. q = head \o back
  BY <1>3 DEF q
<1>9. (\A i \in 1..n : head[i] = ring[i]) /\ head[n + 1] = s
  <2>1. \A i \in 1..n : i \in 1..n + 1 /\ i <= n
    BY <1>1
  <2>2. n + 1 \in 1..n + 1 /\ ~(n + 1 <= n) /\ (n + 1) - n = 1
    BY <1>1
  <2>3. \A i \in 1..n : head[i] = front[i]
    BY <1>7, <2>1
  <2>4. head[n + 1] = <<s>>[1]
    BY <1>7, <2>2
  <2> QED
    BY <1>4, <1>6, <2>3, <2>4
<1> HIDE DEF head
<1>10. /\ q \in Seq(Samples) /\ Len(q) = Len(head) + Len(back)
       /\ \A i \in 1..Len(head) + Len(back) :
            q[i] = IF i <= Len(head) THEN head[i] ELSE back[i - Len(head)]
  BY <1>5, <1>7, <1>8, ConcatProperties
<1>11. Len(head) = n + 1 /\ Len(back) = Len(ring) - n /\ Len(head) + Len(back) = Len(ring) + 1
  BY <1>1, <1>5, <1>7
<1>12. q \in Seq(Samples) /\ Len(q) = Len(ring) + 1
  BY <1>10, <1>11
<1>13. ASSUME NEW i \in 1..n + 1
       PROVE  q[i] = head[i]
  <2>1. i \in 1..Len(ring) + 1 /\ i <= n + 1
    BY <1>1
  <2> QED
    BY <1>10, <1>11, <2>1
<1>14. ASSUME NEW i \in n + 1..Len(ring)
       PROVE  q[i + 1] = ring[i]
  <2>1. i + 1 \in 1..Len(ring) + 1 /\ ~(i + 1 <= n + 1)
    BY <1>1
  <2>2. q[i + 1] = back[(i + 1) - (n + 1)]
    BY <1>10, <1>11, <2>1
  <2>3. (i + 1) - (n + 1) = i - n /\ i - n \in 1..Len(ring) - n /\ n + (i - n) = i
    BY <1>1
  <2> QED
    BY <1>5, <2>2, <2>3
<1>15. n + 1 \in 1..n + 1 /\ 1..n \subseteq 1..n + 1
  BY <1>1
<1> QED
  BY <1>9, <1>12, <1>13, <1>14, <1>15 DEF q, n

\* Trimming it keeps it one, and within its bound (RecordProbe).
LEMMA RetainedIsRing ==
  ASSUME NEW ring \in Seq(Samples), Len(ring) <= ProbeHistoryLen + 1
  PROVE  /\ Retained(ring) \in Seq(Samples)
         /\ Len(Retained(ring)) <= ProbeHistoryLen
         /\ Len(ring) <= ProbeHistoryLen => Retained(ring) = ring
         /\ Len(ring) = ProbeHistoryLen + 1 =>
              /\ Len(Retained(ring)) = ProbeHistoryLen
              /\ \A i \in 1..ProbeHistoryLen : Retained(ring)[i] = ring[i + 1]
<1>1. Len(ring) \in Nat /\ ProbeHistoryLen \in Nat \ {0}
  BY LenProperties, ProbeAssumption DEF ProbeAssumption
<1>2. CASE Len(ring) <= ProbeHistoryLen
  BY <1>1, <1>2 DEF Retained
<1>3. CASE Len(ring) = ProbeHistoryLen + 1
  <2>1. Retained(ring) = SubSeq(ring, 2, Len(ring))
    BY <1>1, <1>3 DEF Retained
  <2>2. \A i \in 2..Len(ring) : ring[i] \in Samples
    BY ElementOfSeq, <1>1
  <2>3. /\ SubSeq(ring, 2, Len(ring)) \in Seq(Samples)
        /\ Len(SubSeq(ring, 2, Len(ring))) = IF 2 <= Len(ring) THEN Len(ring) - 2 + 1 ELSE 0
        /\ \A i \in 1..Len(ring) - 2 + 1 : SubSeq(ring, 2, Len(ring))[i] = ring[2 + i - 1]
    BY <1>1, <2>2, SubSeqProperties
  <2> DEFINE u == SubSeq(ring, 2, Len(ring))
  <2> HIDE DEF u
  <2>4. /\ u \in Seq(Samples) /\ Len(u) = ProbeHistoryLen
        /\ \A i \in 1..ProbeHistoryLen : u[i] = ring[i + 1]
    BY <1>1, <1>3, <2>3 DEF u
  <2> QED
    BY <1>1, <1>3, <2>1, <2>4 DEF u
<1> QED
  BY <1>1, <1>2, <1>3

\* Every step takes typed states to typed states.
LEMMA TypeStep == TypeOK /\ [Next]_vars => TypeOK'
<1> SUFFICES ASSUME TypeOK, [Next]_vars
             PROVE  TypeOK'
  OBVIOUS
<1> USE ProbeAssumption DEF ProbeAssumption
<1>1. CASE Tick
  BY <1>1 DEF TypeOK, Tick, Time, Generations
<1>2. ASSUME NEW b \in Backends, NEW m \in Models \cup {NoModel}, Scrape(b, m)
      PROVE  TypeOK'
  BY <1>2 DEF TypeOK, Scrape
<1>3. ASSUME NEW c \in Callers, Targets(c)
      PROVE  TypeOK'
  <2> DEFINE targets == {<<b, lastModel[b]>> : b \in {x \in Backends : lastModel[x] # NoModel}}
  <2>1. targets \in SUBSET Keys
    BY DEF TypeOK, Keys
  <2> HIDE DEF targets
  <2>2. [step |-> "targeted", targets |-> targets, at |-> 0]
          \in [step : {"idle", "targeted", "stamped"}, targets : SUBSET Keys, at : Time]
    BY <2>1 DEF Time
  <2>3. calls' = [calls EXCEPT ![c] = [step |-> "targeted", targets |-> targets, at |-> 0]]
    BY <1>3 DEF Targets, targets
  <2>4. calls' \in [Callers -> [step : {"idle", "targeted", "stamped"},
                               targets : SUBSET Keys, at : Time]]
    BY <2>2, <2>3 DEF TypeOK
  <2> QED
    BY <1>3, <2>4 DEF TypeOK, Targets
<1>4. ASSUME NEW c \in Callers, Stamp(c)
      PROVE  TypeOK'
  BY <1>4 DEF TypeOK, Stamp
<1>5. Idle \in [step : {"idle", "targeted", "stamped"}, targets : SUBSET Keys, at : Time]
  BY DEF Idle, Time
<1>6. ASSUME NEW c \in Callers, Gated(c)
      PROVE  TypeOK'
  BY <1>5, <1>6 DEF TypeOK, Gated
<1>7. ASSUME NEW c \in Callers, Launch(c)
      PROVE  TypeOK'
  <2> DEFINE at == calls[c].at
             live == {k \in calls[c].targets : MayProbe(k, at)}
  <2>1. at \in Time /\ live \in SUBSET Keys
    BY DEF TypeOK
  <2>2. gens' \subseteq Generations
    BY <1>7, <2>1 DEF TypeOK, Launch, Generations
  <2>3. probeBackoff' \in [Keys -> Nat]
    BY <1>7 DEF TypeOK, Launch
  <2>4. calls' \in [Callers -> [step : {"idle", "targeted", "stamped"},
                               targets : SUBSET Keys, at : Time]]
    BY <1>5, <1>7 DEF TypeOK, Launch
  <2>5. probeInflight' \subseteq Keys /\ lastProbeWave' \in Time \cup {-Gap}
    BY <1>7, <2>1 DEF TypeOK, Launch
  <2> QED
    BY <1>7, <2>2, <2>3, <2>4, <2>5 DEF TypeOK, Launch
<1>8. ASSUME NEW g \in gens, NEW retry \in Retries \cup {0}, Answer(g, retry)
      PROVE  TypeOK'
  <2>1. retry \in Nat /\ now \in Nat /\ g \in Generations
    BY DEF TypeOK, Time
  <2>2. gens' \subseteq Generations
    BY <1>8, <2>1 DEF TypeOK, Answer, Becomes, Generations
  <2>3. promised' \in [Keys -> Nat]
    <3>1. promised \in [Keys -> Nat] /\ now + retry \in Nat
      BY <2>1 DEF TypeOK
    <3>2. promised' = promised \/ promised' = [promised EXCEPT ![g.key] = now + retry]
      BY <1>8 DEF Answer
    <3> QED
      BY <3>1, <3>2
  <2> QED
    BY <1>8, <2>2, <2>3 DEF TypeOK, Answer
<1>9. ASSUME NEW g \in gens, BackOff(g)
      PROVE  TypeOK'
  <2>1. g \in Generations /\ now \in Nat
    BY DEF TypeOK, Time
  <2>2. gens' \subseteq Generations
    BY <1>9, <2>1 DEF TypeOK, BackOff, Becomes, Generations
  <2>3. probeBackoff' \in [Keys -> Nat]
    <3>1. \A retry \in Retries \cup {0} : retry \in Nat
      OBVIOUS
    <3>2. g.retry \in Nat
      BY <2>1, <3>1 DEF Generations
    <3>3. probeBackoff' = [probeBackoff EXCEPT ![g.key] = now + g.retry]
      BY <1>9 DEF BackOff
    <3>4. probeBackoff \in [Keys -> Nat] /\ now + g.retry \in Nat
      BY <2>1, <3>2 DEF TypeOK
    <3> QED
      BY <3>3, <3>4
  <2> QED
    BY <1>9, <2>2, <2>3 DEF TypeOK, BackOff
<1>10. ASSUME NEW g \in gens, RecordProbe(g)
       PROVE  TypeOK'
  <2>1. g \in Generations /\ SampleOf(g) \in Samples
    BY DEF TypeOK, Generations, Keys, SampleOf, Samples
  <2>2. gens' \subseteq Generations
    BY <1>10, <2>1 DEF TypeOK, RecordProbe, Becomes, Generations
  <2>3. probes' \in Seq(Samples) /\ Len(probes') <= ProbeHistoryLen
    <3>1. probes \in Seq(Samples) /\ Len(probes) <= ProbeHistoryLen
      BY DEF TypeOK, Samples
    <3>2. /\ insertSorted(probes, SampleOf(g)) \in Seq(Samples)
          /\ Len(insertSorted(probes, SampleOf(g))) = Len(probes) + 1
      BY <2>1, <3>1, InsertedIsRing
    <3>3. Len(insertSorted(probes, SampleOf(g))) <= ProbeHistoryLen + 1
      BY <3>1, <3>2, LenProperties
    <3> QED
      BY <1>10, <3>2, <3>3, RetainedIsRing DEF RecordProbe
  <2>4. recorded' \subseteq Samples
    BY <1>10, <2>1 DEF TypeOK, RecordProbe, Samples
  <2> QED
    BY <1>10, <2>2, <2>3, <2>4 DEF TypeOK, RecordProbe, Samples
<1>11. ASSUME NEW g \in gens, Release(g)
       PROVE  TypeOK'
  BY <1>11 DEF TypeOK, Release
<1>12. CASE UNCHANGED vars
  BY <1>12 DEF TypeOK, vars
<1> QED
  BY <1>1, <1>2, <1>3, <1>4, <1>6, <1>7, <1>8, <1>9, <1>10, <1>11, <1>12
  DEF Next, ProbeAll, Generation

\* The state of the collector is well-typed, and the ring within its bound, in every
\* reachable state (RecordProbe).
THEOREM TypeCorrect == Spec => []TypeOK
<1>1. Init => TypeOK
  BY ProbeAssumption DEF ProbeAssumption, Init, TypeOK, Time, Idle, Keys
<1> QED
  BY <1>1, TypeStep, PTL DEF Spec

(***************************************************************************)
(* Single flight                                                           *)
(***************************************************************************)
\* A wave claims exactly the keys it starts generations for, and the release of a
\* generation gives back its key alone: single flight is inductive.
LEMMA OneGenerationStep == TypeOK /\ OneGeneration /\ [Next]_vars => OneGeneration'
<1> SUFFICES ASSUME TypeOK, OneGeneration, [Next]_vars
             PROVE  OneGeneration'
  OBVIOUS
<1>1. ASSUME UNCHANGED <<probeInflight, gens>>
      PROVE  OneGeneration'
  BY <1>1 DEF OneGeneration
<1>2. ASSUME NEW c \in Callers, Launch(c)
      PROVE  OneGeneration'
  <2> DEFINE at == calls[c].at
             live == {k \in calls[c].targets : MayProbe(k, at)}
             new == {[key |-> k, at |-> at, step |-> "run", retry |-> 0] : k \in live}
  <2>1. gens' = gens \cup new /\ probeInflight' = probeInflight \cup live
    BY <1>2 DEF Launch
  <2>2. \A k \in live : k \notin probeInflight
    BY DEF MayProbe
  <2> DEFINE Fresh(k) == [key |-> k, at |-> at, step |-> "run", retry |-> 0]
  <2>3. \A g \in new : g.key \in live /\ g = Fresh(g.key)
    OBVIOUS
  <2>4. \A k \in live : Fresh(k) \in new /\ Fresh(k).key = k
    OBVIOUS
  <2> HIDE DEF live, new
  <2>5. \A g \in gens : g.key \in probeInflight
    BY DEF OneGeneration
  <2>6. probeInflight' = {g.key : g \in gens'}
    <3>1. probeInflight = {g.key : g \in gens}
      BY DEF OneGeneration
    <3>2. {g.key : g \in new} = live
      BY <2>3, <2>4
    <3> QED
      BY <2>1, <3>1, <3>2
  <2>7. ASSUME NEW g \in gens', NEW h \in gens', g.key = h.key
        PROVE  g = h
    <3>1. CASE g \in gens /\ h \in gens
      BY <2>7, <3>1 DEF OneGeneration
    <3>2. CASE g \in new /\ h \in new
      <4>1. PICK k \in live : g = Fresh(k)
        BY <3>2 DEF new
      <4>2. PICK l \in live : h = Fresh(l)
        BY <3>2 DEF new
      <4>3. k = l
        BY <2>4, <2>7, <4>1, <4>2
      <4> QED
        BY <4>1, <4>2, <4>3
    <3>3. CASE g \in gens /\ h \in new
      BY <2>2, <2>3, <2>5, <2>7, <3>3
    <3>4. CASE g \in new /\ h \in gens
      BY <2>2, <2>3, <2>5, <2>7, <3>4
    <3>5. g \in gens \cup new /\ h \in gens \cup new
      BY <2>1
    <3> QED
      BY <3>1, <3>2, <3>3, <3>4, <3>5
  <2> QED
    BY <2>6, <2>7 DEF OneGeneration
<1>3. ASSUME NEW g \in gens, NEW h, Becomes(g, h), h.key = g.key, UNCHANGED probeInflight
      PROVE  OneGeneration'
  BY <1>3 DEF OneGeneration, Becomes
<1>4. ASSUME NEW g \in gens, NEW retry \in Retries \cup {0}, Answer(g, retry)
      PROVE  OneGeneration'
  <2>1. g \in Generations
    BY DEF TypeOK
  <2>2. [g EXCEPT !.step = "answered", !.retry = retry].key = g.key
    BY <2>1 DEF Generations
  <2> QED
    BY <1>3, <1>4, <2>2 DEF Answer
<1>5. ASSUME NEW g \in gens, BackOff(g)
      PROVE  OneGeneration'
  <2>1. [g EXCEPT !.step = "backedOff"].key = g.key
    BY DEF TypeOK, Generations
  <2> QED
    BY <1>3, <1>5, <2>1 DEF BackOff
<1>6. ASSUME NEW g \in gens, RecordProbe(g)
      PROVE  OneGeneration'
  <2>1. [g EXCEPT !.step = "recorded"].key = g.key
    BY DEF TypeOK, Generations
  <2> QED
    BY <1>3, <1>6, <2>1 DEF RecordProbe
<1>7. ASSUME NEW g \in gens, Release(g)
      PROVE  OneGeneration'
  BY <1>7 DEF Release, OneGeneration
<1>8. CASE Tick
  BY <1>1, <1>8 DEF Tick
<1>9. ASSUME NEW b \in Backends, NEW m \in Models \cup {NoModel}, Scrape(b, m)
      PROVE  OneGeneration'
  BY <1>1, <1>9 DEF Scrape
<1>10. ASSUME NEW c \in Callers, Targets(c) \/ Stamp(c) \/ Gated(c)
       PROVE  OneGeneration'
  BY <1>1, <1>10 DEF Targets, Stamp, Gated
<1>11. CASE UNCHANGED vars
  BY <1>1, <1>11 DEF vars
<1> QED
  BY <1>2, <1>4, <1>5, <1>6, <1>7, <1>8, <1>9, <1>10, <1>11 DEF Next, ProbeAll, Generation

\* A model of a backend is never sent two generations at a time, whatever the number
\* of callers, and a claimed key always has the generation that will free it
\* (probeInflight).
THEOREM SingleFlight == Spec => []OneGeneration
<1>1. Init => OneGeneration
  BY DEF Init, OneGeneration
<1>2. Init => TypeOK
  BY ProbeAssumption DEF ProbeAssumption, Init, TypeOK, Time, Idle, Keys
<1> QED
  BY <1>1, <1>2, TypeStep, OneGenerationStep, PTL DEF Spec

(***************************************************************************)
(* The wait a 429 or 503 asks for                                          *)
(***************************************************************************)
\* BackoffRespected is not inductive: nothing in it says why a wave to come will
\* respect the wait.  Either a wave as late as its end has been let through, which
\* refuses every earlier stamp; or the wait is noted; or the goroutine of the
\* answer is about to note it, and has not freed the key.
Noted ==
  \A k \in Keys :
    \/ promised[k] <= lastProbeWave
    \/ promised[k] <= probeBackoff[k]
    \/ \E g \in gens : /\ g.key = k
                       /\ g.step = "answered"
                       /\ g.retry > 0

\* What an answer asked for ends no later than the wait its goroutine will note.
AnsweredWait ==
  \A g \in gens : g.step = "answered" /\ g.retry > 0 => promised[g.key] <= now + g.retry

\* A generation that moves on keeps its key, its stamp and its Retry-After.
LEMMA GenerationFields ==
  ASSUME NEW g \in Generations, NEW s, NEW r
  PROVE  /\ g.key \in Keys /\ g.at \in Nat /\ g.retry \in Nat
         /\ LET h == [g EXCEPT !.step = s]
            IN h.key = g.key /\ h.at = g.at /\ h.retry = g.retry /\ h.step = s
         /\ LET h == [g EXCEPT !.step = s, !.retry = r]
            IN h.key = g.key /\ h.at = g.at /\ h.retry = r /\ h.step = s
<1>1. \A r0 \in Retries \cup {0} : r0 \in Nat
  BY ProbeAssumption DEF ProbeAssumption
<1> QED
  BY <1>1 DEF Generations, Time

\* Every step that leaves the waits as they are keeps both: the clock and the wave
\* stamp only grow, and a generation that moves on past "run" says less.
LEMMA NotedMonotone ==
  ASSUME TypeOK, TypeOK', Noted, now <= now', lastProbeWave <= lastProbeWave',
         promised' = promised, probeBackoff' = probeBackoff,
         \A g \in gens : g.step = "answered" /\ g.retry > 0 => g \in gens'
  PROVE  Noted'
<1> SUFFICES ASSUME NEW k \in Keys
             PROVE  \/ promised[k] <= lastProbeWave'
                    \/ promised[k] <= probeBackoff[k]
                    \/ \E g \in gens' : /\ g.key = k
                                        /\ g.step = "answered"
                                        /\ g.retry > 0
  BY DEF Noted
<1>1. promised[k] \in Nat /\ now \in Int /\ now' \in Int
      /\ lastProbeWave \in Int /\ lastProbeWave' \in Int
  BY ProbeAssumption DEF TypeOK, Time, ProbeAssumption
<1>2. CASE promised[k] <= lastProbeWave
  BY <1>1, <1>2
<1>3. CASE promised[k] <= probeBackoff[k]
  BY <1>3
<1>4. ASSUME NEW g \in gens, g.key = k, g.step = "answered", g.retry > 0
      PROVE  g \in gens'
  BY <1>4
<1> QED
  BY <1>2, <1>3, <1>4 DEF Noted

\* A step that starts no generation and promises nothing keeps the running ones.
LEMMA RespectedKept ==
  ASSUME BackoffRespected, promised' = promised,
         \A g \in gens' : g.step = "run" => g \in gens
  PROVE  BackoffRespected'
BY DEF BackoffRespected

\* Its own answer is the last to ask anything of the key, and the clock only grows.
LEMMA AnsweredWaitStep ==
  TypeOK /\ OneGeneration /\ AnsweredWait /\ [Next]_vars => AnsweredWait'
<1> SUFFICES ASSUME TypeOK, OneGeneration, AnsweredWait, [Next]_vars
             PROVE  AnsweredWait'
  OBVIOUS
<1>1. now \in Nat /\ \A k \in Keys : promised[k] \in Nat
  BY DEF TypeOK, Time
<1>2. ASSUME now' \in Nat, now <= now', promised' = promised,
             \A g \in gens' : g.step = "answered" => g \in gens
      PROVE  AnsweredWait'
  <2> SUFFICES ASSUME NEW g \in gens', g.step = "answered", g.retry > 0
               PROVE  promised[g.key] <= now' + g.retry
    BY <1>2 DEF AnsweredWait
  <2>1. g \in gens /\ promised[g.key] <= now + g.retry
    BY <1>2 DEF AnsweredWait
  <2>2. g.retry \in Nat /\ g.key \in Keys
    BY <2>1, GenerationFields DEF TypeOK
  <2> QED
    BY <1>1, <1>2, <2>1, <2>2
<1>3. ASSUME NEW g \in gens, NEW retry \in Retries \cup {0}, Answer(g, retry)
      PROVE  AnsweredWait'
  <2> DEFINE h == [g EXCEPT !.step = "answered", !.retry = retry]
  <2>1. g \in Generations /\ retry \in Nat
    BY ProbeAssumption DEF TypeOK, ProbeAssumption
  <2>2. g.key \in Keys /\ h.key = g.key /\ h.retry = retry
    BY <2>1, GenerationFields
  <2>3. gens' = (gens \ {g}) \cup {h} /\ now' = now
    BY <1>3 DEF Answer, Becomes
  <2>4. \A k \in Keys : promised'[k] = IF retry > 0 /\ k = g.key THEN now + retry ELSE promised[k]
    BY <1>3, <2>1, <2>2 DEF Answer, TypeOK
  <2>5. \A x \in gens \ {g} : x.key # g.key /\ x.key \in Keys
    BY GenerationFields DEF OneGeneration, TypeOK
  <2> HIDE DEF h
  <2> SUFFICES ASSUME NEW x \in gens', x.step = "answered", x.retry > 0
               PROVE  promised'[x.key] <= now + x.retry
    BY <2>3 DEF AnsweredWait
  <2>6. CASE x = h
    BY <1>1, <2>1, <2>2, <2>4, <2>6
  <2>7. CASE x \in gens \ {g}
    BY <2>4, <2>5, <2>7 DEF AnsweredWait
  <2> QED
    BY <2>3, <2>6, <2>7
<1>4. ASSUME NEW c \in Callers, Launch(c)
      PROVE  AnsweredWait'
  <2>1. \A g \in gens' : g.step = "answered" => g \in gens
    BY <1>4 DEF Launch
  <2> QED
    BY <1>1, <1>2, <1>4, <2>1 DEF Launch
<1>5. ASSUME NEW g \in gens, BackOff(g) \/ RecordProbe(g) \/ Release(g)
      PROVE  AnsweredWait'
  <2>1. g \in Generations
    BY DEF TypeOK
  <2>2. /\ [g EXCEPT !.step = "backedOff"].step = "backedOff"
        /\ [g EXCEPT !.step = "recorded"].step = "recorded"
    BY <2>1, GenerationFields
  <2>3. \A x \in gens' : x.step = "answered" => x \in gens
    BY <1>5, <2>2 DEF BackOff, RecordProbe, Release, Becomes
  <2> QED
    BY <1>1, <1>2, <1>5, <2>3 DEF BackOff, RecordProbe, Release
<1>6. CASE Tick
  BY <1>1, <1>2, <1>6 DEF Tick
<1>7. ASSUME NEW b \in Backends, NEW m \in Models \cup {NoModel}, Scrape(b, m)
      PROVE  AnsweredWait'
  BY <1>1, <1>2, <1>7 DEF Scrape
<1>8. ASSUME NEW c \in Callers, Targets(c) \/ Stamp(c) \/ Gated(c)
      PROVE  AnsweredWait'
  BY <1>1, <1>2, <1>8 DEF Targets, Stamp, Gated
<1>9. CASE UNCHANGED vars
  BY <1>1, <1>2, <1>9 DEF vars
<1> QED
  BY <1>3, <1>4, <1>5, <1>6, <1>7, <1>8, <1>9 DEF Next, ProbeAll, Generation

\* With both, every step keeps the waits respected (probeBackoff, ProbeAll).
LEMMA BackoffStep ==
  AnsweredWait /\ AnsweredWait' /\ TypeOK /\ TypeOK' /\ OneGeneration /\ Noted /\ BackoffRespected /\ [Next]_vars
    => Noted' /\ BackoffRespected'
<1> SUFFICES ASSUME AnsweredWait, AnsweredWait', TypeOK, TypeOK', OneGeneration, Noted,
                    BackoffRespected, [Next]_vars
             PROVE  Noted' /\ BackoffRespected'
  OBVIOUS
<1>1. now \in Nat /\ lastProbeWave \in Int
  BY ProbeAssumption DEF TypeOK, Time, ProbeAssumption
<1>2. ASSUME UNCHANGED <<lastProbeWave, promised, probeBackoff, gens>>, now <= now'
      PROVE  Noted' /\ BackoffRespected'
  BY <1>1, <1>2, NotedMonotone, RespectedKept
<1>3. ASSUME NEW c \in Callers, Launch(c)
      PROVE  Noted' /\ BackoffRespected'
  <2> DEFINE at == calls[c].at
             live == {k \in calls[c].targets : MayProbe(k, at)}
             Fresh(k) == [key |-> k, at |-> at, step |-> "run", retry |-> 0]
             new == {Fresh(k) : k \in live}
  <2>1. gens' = gens \cup new /\ lastProbeWave' = at /\ now' = now /\ promised' = promised
    BY <1>3 DEF Launch
  <2>2. at \in Nat /\ at >= lastProbeWave
    BY <1>1, <1>3, ProbeAssumption DEF TypeOK, Time, Launch, TooSoon, ProbeAssumption
  <2>3. live \in SUBSET Keys /\ \A k \in live : k \notin probeInflight /\ at >= probeBackoff[k]
    BY DEF TypeOK, MayProbe
  <2>4. \A k \in Keys : promised[k] \in Nat /\ probeBackoff[k] \in Nat
    BY DEF TypeOK
  <2>5. \A k \in live : promised[k] <= at
    <3> SUFFICES ASSUME NEW k \in live
                 PROVE  promised[k] <= at
      OBVIOUS
    <3>1. k \in Keys /\ k \notin probeInflight /\ at >= probeBackoff[k]
      BY <2>3
    <3>2. \A g \in gens : g.key # k
      BY <3>1 DEF OneGeneration
    <3>3. promised[k] <= lastProbeWave \/ promised[k] <= probeBackoff[k]
      BY <3>1, <3>2 DEF Noted
    <3> QED
      BY <1>1, <2>2, <2>4, <3>1, <3>3
  <2>6. BackoffRespected'
    <3> SUFFICES ASSUME NEW g \in gens', g.step = "run"
                 PROVE  g.at >= promised'[g.key]
      BY DEF BackoffRespected
    <3>1. CASE g \in gens
      BY <2>1, <3>1 DEF BackoffRespected
    <3>2. ASSUME NEW k \in live, g = Fresh(k)
          PROVE  g.at >= promised'[g.key]
      <4>1. g.at = at /\ g.key = k
        BY <3>2
      <4>2. promised[k] <= at /\ promised[k] \in Nat
        BY <2>3, <2>4, <2>5
      <4> QED
        BY <2>1, <2>2, <4>1, <4>2
    <3> QED
      BY <2>1, <3>1, <3>2
  <2>7. \A k \in Keys : probeBackoff'[k] = IF k \in live THEN 0 ELSE probeBackoff[k]
    BY <1>3 DEF Launch
  <2> HIDE DEF live, new, at
  <2>8. Noted'
    <3> SUFFICES ASSUME NEW k \in Keys
                 PROVE  \/ promised[k] <= at
                        \/ promised[k] <= probeBackoff'[k]
                        \/ \E g \in gens' : /\ g.key = k
                                            /\ g.step = "answered"
                                            /\ g.retry > 0
      BY <2>1 DEF Noted
    <3>1. CASE k \in live
      BY <2>5, <3>1
    <3>2. CASE k \notin live
      <4>1. CASE promised[k] <= lastProbeWave
        BY <1>1, <2>2, <2>4, <4>1
      <4>2. CASE promised[k] <= probeBackoff[k]
        BY <2>7, <3>2, <4>2
      <4>3. ASSUME NEW g \in gens, g.key = k, g.step = "answered", g.retry > 0
            PROVE  g \in gens'
        BY <2>1
      <4> QED
        BY <4>1, <4>2, <4>3 DEF Noted
    <3> QED
      BY <3>1, <3>2
  <2> QED
    BY <2>6, <2>8
<1>4. ASSUME NEW g \in gens, NEW retry \in Retries \cup {0}, Answer(g, retry)
      PROVE  Noted' /\ BackoffRespected'
  <2> DEFINE h == [g EXCEPT !.step = "answered", !.retry = retry]
  <2>1. g \in Generations /\ retry \in Nat
    BY ProbeAssumption DEF TypeOK, ProbeAssumption
  <2>2. g.key \in Keys /\ h.key = g.key /\ h.step = "answered" /\ h.retry = retry
    BY <2>1, GenerationFields
  <2>3. gens' = (gens \ {g}) \cup {h} /\ g.step = "run"
        /\ UNCHANGED <<now, lastProbeWave, probeBackoff>>
    BY <1>4 DEF Answer, Becomes
  <2>4. \A k \in Keys : promised'[k] = IF retry > 0 /\ k = g.key THEN now + retry ELSE promised[k]
    BY <1>4, <2>1, <2>2 DEF Answer, TypeOK
  <2>5. \A x \in gens \ {g} : x.key # g.key /\ x.key \in Keys
    BY GenerationFields DEF OneGeneration, TypeOK
  <2> HIDE DEF h
  <2>6. BackoffRespected'
    <3> SUFFICES ASSUME NEW x \in gens', x.step = "run"
                 PROVE  x.at >= promised'[x.key]
      BY DEF BackoffRespected
    <3>1. x \in gens \ {g}
      BY <2>2, <2>3
    <3> QED
      BY <2>4, <2>5, <3>1 DEF BackoffRespected
  <2>7. Noted'
    <3> SUFFICES ASSUME NEW k \in Keys
                 PROVE  \/ promised'[k] <= lastProbeWave
                        \/ promised'[k] <= probeBackoff[k]
                        \/ \E x \in gens' : /\ x.key = k
                                            /\ x.step = "answered"
                                            /\ x.retry > 0
      BY <2>3 DEF Noted
    <3>1. CASE retry > 0 /\ k = g.key
      BY <1>1, <2>1, <2>2, <2>3, <2>4, <3>1
    <3>2. CASE ~(retry > 0 /\ k = g.key)
      <4>1. promised'[k] = promised[k]
        BY <2>4, <3>2
      <4>2. ASSUME NEW x \in gens, x.key = k, x.step = "answered"
            PROVE  x \in gens'
        BY <2>3, <4>2
      <4> QED
        BY <4>1, <4>2 DEF Noted
    <3> QED
      BY <3>1, <3>2
  <2> QED
    BY <2>6, <2>7
<1>5. ASSUME NEW g \in gens, BackOff(g)
      PROVE  Noted' /\ BackoffRespected'
  <2> DEFINE h == [g EXCEPT !.step = "backedOff"]
  <2>1. g \in Generations
    BY DEF TypeOK
  <2>2. g.key \in Keys /\ h.step = "backedOff" /\ g.retry \in Nat
    BY <2>1, GenerationFields
  <2>3. gens' = (gens \ {g}) \cup {h}
        /\ UNCHANGED <<now, lastProbeWave, promised>>
    BY <1>5 DEF BackOff, Becomes
  <2>4. \A k \in Keys : probeBackoff'[k] = IF k = g.key THEN now + g.retry ELSE probeBackoff[k]
    BY <1>5 DEF BackOff, TypeOK
  <2>5. \A x \in gens : x.key = g.key => x = g
    BY DEF OneGeneration
  <2> HIDE DEF h
  <2>6. BackoffRespected'
    BY <2>2, <2>3 DEF BackoffRespected
  <2>7. Noted'
    <3> SUFFICES ASSUME NEW k \in Keys
                 PROVE  \/ promised[k] <= lastProbeWave
                        \/ promised[k] <= probeBackoff'[k]
                        \/ \E x \in gens' : /\ x.key = k
                                            /\ x.step = "answered"
                                            /\ x.retry > 0
      BY <2>3 DEF Noted
    <3>1. CASE k = g.key
      <4>1. promised[k] \in Nat /\ probeBackoff[k] \in Nat
        BY DEF TypeOK
      <4>2. probeBackoff'[k] = now + g.retry
        BY <2>4, <3>1
      <4>3. promised[k] <= now + g.retry
        BY <1>5, <3>1 DEF BackOff, AnsweredWait
      <4> QED
        BY <4>2, <4>3
    <3>2. CASE k # g.key
      <4>1. probeBackoff'[k] = probeBackoff[k]
        BY <2>4, <3>2
      <4>2. ASSUME NEW x \in gens, x.key = k
            PROVE  x \in gens'
        BY <2>3, <3>2, <4>2
      <4> QED
        BY <4>1, <4>2 DEF Noted
    <3> QED
      BY <3>1, <3>2
  <2> QED
    BY <2>6, <2>7
<1>6. ASSUME NEW g \in gens, RecordProbe(g) \/ Release(g)
      PROVE  Noted' /\ BackoffRespected'
  <2>1. g \in Generations
    BY DEF TypeOK
  <2>2. [g EXCEPT !.step = "recorded"].step = "recorded"
    BY <2>1, GenerationFields
  <2>3. \A x \in gens' : x.step = "run" => x \in gens
    BY <1>6, <2>2 DEF RecordProbe, Release, Becomes
  <2>4. \A x \in gens : x.step = "answered" /\ x.retry > 0 => x \in gens'
    BY <1>6 DEF RecordProbe, Release, Becomes, Ended
  <2>5. UNCHANGED <<now, lastProbeWave, promised, probeBackoff>>
    BY <1>6 DEF RecordProbe, Release
  <2>6. Noted'
    BY <1>1, <2>4, <2>5, NotedMonotone
  <2>7. BackoffRespected'
    BY <2>3, <2>5, RespectedKept
  <2> QED
    BY <2>6, <2>7
<1>7. CASE Tick
  BY <1>1, <1>2, <1>7 DEF Tick
<1>8. ASSUME NEW b \in Backends, NEW m \in Models \cup {NoModel}, Scrape(b, m)
      PROVE  Noted' /\ BackoffRespected'
  BY <1>1, <1>2, <1>8 DEF Scrape
<1>9. ASSUME NEW c \in Callers, Targets(c) \/ Stamp(c) \/ Gated(c)
      PROVE  Noted' /\ BackoffRespected'
  BY <1>1, <1>2, <1>9 DEF Targets, Stamp, Gated
<1>10. CASE UNCHANGED vars
  BY <1>1, <1>2, <1>10 DEF vars
<1> QED
  BY <1>3, <1>4, <1>5, <1>6, <1>7, <1>8, <1>9, <1>10 DEF Next, ProbeAll, Generation

\* No generation is sent before the wait that the last 429 or 503 of its key asked
\* for is over: the wait is noted before the key is freed, and the wave gate refuses
\* the stamps taken before it (probeBackoff).
THEOREM WaitsOutRetryAfter == Spec => []BackoffRespected
<1>1. Init => TypeOK /\ OneGeneration /\ AnsweredWait /\ Noted /\ BackoffRespected
  BY ProbeAssumption DEF ProbeAssumption, Init, TypeOK, Time, Idle, Keys, OneGeneration,
     AnsweredWait, Noted, BackoffRespected
<1> QED
  BY <1>1, TypeStep, OneGenerationStep, AnsweredWaitStep, BackoffStep, PTL DEF Spec

(***************************************************************************)
(* Spacing                                                                 *)
(***************************************************************************)
\* Every sample, of the ring's past or of a generation still running.
AllSamples == recorded \cup {SampleOf(g) : g \in gens}

\* None is stamped after the last wave that was let through.
Bounded == \A s \in AllSamples : s[1] <= lastProbeWave

\* The gate keeps a new wave away from every stamp up to the last (probeWaveGap).
LEMMA SpacedStep ==
  TypeOK /\ TypeOK' /\ Bounded /\ Spaced /\ [Next]_vars => Bounded' /\ Spaced'
<1> SUFFICES ASSUME TypeOK, TypeOK', Bounded, Spaced, [Next]_vars
             PROVE  Bounded' /\ Spaced'
  OBVIOUS
<1>1. lastProbeWave \in Int /\ \A s \in AllSamples : s[1] \in Nat
  BY ProbeAssumption DEF ProbeAssumption, TypeOK, Time, AllSamples, Generations, SampleOf
<1>2. ASSUME AllSamples' \subseteq AllSamples, lastProbeWave' = lastProbeWave
      PROVE  Bounded' /\ Spaced'
  BY <1>2 DEF Bounded, Spaced, AllSamples
<1>3. ASSUME UNCHANGED <<gens, recorded, lastProbeWave>>
      PROVE  Bounded' /\ Spaced'
  BY <1>2, <1>3 DEF AllSamples
<1>4. ASSUME NEW c \in Callers, Launch(c)
      PROVE  Bounded' /\ Spaced'
  <2> DEFINE at == calls[c].at
             live == {k \in calls[c].targets : MayProbe(k, at)}
             new == {<<at, k[1], k[2]>> : k \in live}
  <2>1. AllSamples' = AllSamples \cup new
    <3> DEFINE Fresh(k) == [key |-> k, at |-> at, step |-> "run", retry |-> 0]
               fresh == {Fresh(k) : k \in live}
    <3>1. gens' = gens \cup fresh /\ recorded' = recorded
      BY <1>4 DEF Launch
    <3>2. {SampleOf(g) : g \in fresh} = new
      <4>1. \A k \in live : SampleOf(Fresh(k)) = <<at, k[1], k[2]>>
        BY DEF SampleOf
      <4> HIDE DEF live, at
      <4> QED
        BY <4>1
    <3> HIDE DEF fresh, new
    <3> QED
      BY <3>1, <3>2 DEF AllSamples, SampleOf
  <2>2. at \in Nat /\ at - lastProbeWave >= Gap /\ lastProbeWave' = at /\ Gap \in Nat \ {0}
    BY <1>1, <1>4, ProbeAssumption DEF TypeOK, Time, Launch, TooSoon, ProbeAssumption
  <2>3. \A s \in new : s[1] = at
    OBVIOUS
  <2>4. \A s, t \in new : s[2] = t[2] /\ s[3] = t[3] => s = t
    OBVIOUS
  <2>5. \A s \in AllSamples : s[1] \in Nat /\ at - s[1] >= Gap
    BY <1>1, <2>2 DEF Bounded
  <2> HIDE DEF new, at
  <2>6. Bounded'
    BY <2>1, <2>2, <2>3, <2>5 DEF Bounded
  <2>7. ASSUME NEW s \in AllSamples', NEW t \in AllSamples', s # t, s[2] = t[2], s[3] = t[3]
        PROVE  s[1] - t[1] >= Gap \/ t[1] - s[1] >= Gap
    <3>1. CASE s \in AllSamples /\ t \in AllSamples
      BY <2>7, <3>1 DEF Spaced, AllSamples
    <3>2. CASE s \in new /\ t \in AllSamples
      BY <2>3, <2>5, <3>2
    <3>3. CASE s \in AllSamples /\ t \in new
      BY <2>3, <2>5, <3>3
    <3>4. CASE s \in new /\ t \in new
      BY <2>4, <2>7, <3>4
    <3> QED
      BY <2>1, <3>1, <3>2, <3>3, <3>4
  <2>8. Spaced'
    BY <2>7 DEF Spaced, AllSamples
  <2> QED
    BY <2>6, <2>8
<1>5. ASSUME NEW g \in gens, NEW h, Becomes(g, h), SampleOf(h) = SampleOf(g),
             UNCHANGED <<recorded, lastProbeWave>>
      PROVE  Bounded' /\ Spaced'
  <2>1. AllSamples' \subseteq AllSamples
    BY <1>5 DEF AllSamples, Becomes, SampleOf
  <2> QED
    BY <1>2, <1>5, <2>1
<1>6. ASSUME NEW g \in gens, NEW retry \in Retries \cup {0}, Answer(g, retry)
      PROVE  Bounded' /\ Spaced'
  <2>1. SampleOf([g EXCEPT !.step = "answered", !.retry = retry]) = SampleOf(g)
    BY GenerationFields DEF TypeOK, SampleOf
  <2> QED
    BY <1>5, <1>6, <2>1 DEF Answer
<1>7. ASSUME NEW g \in gens, BackOff(g)
      PROVE  Bounded' /\ Spaced'
  <2>1. SampleOf([g EXCEPT !.step = "backedOff"]) = SampleOf(g)
    BY GenerationFields DEF TypeOK, SampleOf
  <2> QED
    BY <1>5, <1>7, <2>1 DEF BackOff
<1>8. ASSUME NEW g \in gens, RecordProbe(g)
      PROVE  Bounded' /\ Spaced'
  <2>1. SampleOf([g EXCEPT !.step = "recorded"]) = SampleOf(g)
    BY GenerationFields DEF TypeOK, SampleOf
  <2>2. AllSamples' \subseteq AllSamples
    BY <1>8, <2>1 DEF RecordProbe, AllSamples, Becomes, SampleOf
  <2> QED
    BY <1>2, <1>8, <2>2 DEF RecordProbe
<1>9. ASSUME NEW g \in gens, Release(g)
      PROVE  Bounded' /\ Spaced'
  <2>1. AllSamples' \subseteq AllSamples
    BY <1>9 DEF Release, AllSamples, SampleOf
  <2> QED
    BY <1>2, <1>9, <2>1 DEF Release
<1>10. CASE Tick
  BY <1>3, <1>10 DEF Tick
<1>11. ASSUME NEW b \in Backends, NEW m \in Models \cup {NoModel}, Scrape(b, m)
       PROVE  Bounded' /\ Spaced'
  BY <1>3, <1>11 DEF Scrape
<1>12. ASSUME NEW c \in Callers, Targets(c) \/ Stamp(c) \/ Gated(c)
       PROVE  Bounded' /\ Spaced'
  BY <1>3, <1>12 DEF Targets, Stamp, Gated
<1>13. CASE UNCHANGED vars
  BY <1>3, <1>13 DEF vars
<1> QED
  BY <1>4, <1>6, <1>7, <1>8, <1>9, <1>10, <1>11, <1>12, <1>13 DEF Next, ProbeAll, Generation

\* No two generations of a key are stamped within a wave gap, however many callers
\* there are and however they overtake each other (lastProbeWave).
THEOREM WavesApart == Spec => []Spaced
<1>1. Init => TypeOK /\ Bounded /\ Spaced
  BY ProbeAssumption DEF ProbeAssumption, Init, TypeOK, Time, Idle, Keys, Bounded, Spaced,
     AllSamples
<1> QED
  BY <1>1, TypeStep, SpacedStep, PTL DEF Spec

(***************************************************************************)
(* What the ring holds                                                     *)
(***************************************************************************)
Sorted(ring) == \A i, j \in 1..Len(ring) : i < j => Before(ring[i], ring[j])

\* RetainsNewest is not inductive: its count of the samples is one of sets, and nothing in
\* it says that a sample to be recorded is a new one.
Ring ==
  /\ Sorted(probes)
  /\ Range(probes) \subseteq recorded
  /\ Len(probes) = ProbeHistoryLen \/ recorded = Range(probes)
  /\ \A s \in recorded \ Range(probes) : \A t \in Range(probes) : Before(s, t)

Unrecorded == \A g \in gens : g.step # "recorded" => SampleOf(g) \notin recorded

\* probeCmp is a strict total order.
LEMMA BeforeOrder ==
  ASSUME NEW a \in Samples, NEW b \in Samples, NEW c \in Samples
  PROVE  /\ ~Before(a, a)
         /\ Before(a, b) => ~Before(b, a)
         /\ Before(a, b) /\ Before(b, c) => Before(a, c)
         /\ a # b => Before(a, b) \/ Before(b, a)
<1>1. \A x \in Samples : /\ x[1] \in Int /\ x[2] \in Int /\ x[3] \in Int
                         /\ x = <<x[1], x[2], x[3]>>
  <2> SUFFICES ASSUME NEW x \in Samples
               PROVE  /\ x[1] \in Int /\ x[2] \in Int /\ x[3] \in Int
                      /\ x = <<x[1], x[2], x[3]>>
    OBVIOUS
  <2>1. x[1] \in Time /\ x[2] \in Backends /\ x[3] \in Models /\ x = <<x[1], x[2], x[3]>>
    BY DEF Samples
  <2>2. Time \subseteq Int /\ Backends \subseteq Int /\ Models \subseteq Int
    BY ProbeAssumption DEF ProbeAssumption, Time
  <2> QED
    BY <2>1, <2>2
<1> QED
  BY <1>1 DEF Before

\* The entries of a sorted ring that are not later than a sample are its first.
LEMMA NotLaterFirst ==
  ASSUME NEW ring \in Seq(Samples), NEW s \in Samples, Sorted(ring)
  PROVE  /\ NotLater(ring, s) \in 0..Len(ring)
         /\ \A i \in 1..Len(ring) : ~Before(s, ring[i]) <=> i <= NotLater(ring, s)
<1> DEFINE P == {i \in 1..Len(ring) : ~Before(s, ring[i])}
           A == {i \in 1..Len(ring) : Before(s, ring[i])}
<1>1. Len(ring) \in Nat
  BY LenProperties
<1>2. \A i \in 1..Len(ring) : ring[i] \in Samples
  BY ElementOfSeq
<1>3. PICK m \in 0..Len(ring) : \A i \in 1..Len(ring) : i \in P <=> i <= m
  <2>1. CASE A = {}
    <3>1. \A i \in 1..Len(ring) : i \in P <=> i <= Len(ring)
      BY <1>1, <2>1
    <3>2. Len(ring) \in 0..Len(ring)
      BY <1>1
    <3> HIDE DEF P, A
    <3> QED
      BY <3>1, <3>2, Zenon
  <2>2. CASE A # {}
    <3>1. A \subseteq Nat
      BY <1>1
    <3>2. PICK a \in A : \A i \in A : ~(<<i, a>> \in OpToRel(<, Nat))
      BY <2>2, <3>1, NatLessThanWellFounded, WFMin
    <3>3. \A i \in A : ~(i < a)
      BY <3>1, <3>2 DEF OpToRel
    <3>4. ASSUME NEW i \in 1..Len(ring)
          PROVE  i \in P <=> i <= a - 1
      <4>1. CASE i < a
        <5>1. i \notin A
          BY <3>3, <4>1
        <5> QED
          BY <1>1, <4>1, <5>1
      <4>2. CASE i = a
        BY <1>1, <4>2
      <4>3. CASE a < i
        <5>1. Before(s, ring[a]) /\ Before(ring[a], ring[i])
          BY <1>1, <4>3 DEF Sorted
        <5>2. Before(s, ring[i])
          BY <1>2, <5>1, BeforeOrder
        <5> QED
          BY <1>1, <4>3, <5>2
      <4> QED
        BY <1>1, <4>1, <4>2, <4>3
    <3>5. a - 1 \in 0..Len(ring)
      BY <1>1
    <3> QED
      BY <3>4, <3>5
  <2> QED
    BY <2>1, <2>2
<1>4. P = 1..m
  BY <1>1, <1>3
<1>5. Cardinality(1..m) = m
  <2>1. Cardinality(1..m) = IF 1 > m THEN 0 ELSE m - 1 + 1
    BY FS_Interval
  <2> QED
    BY <2>1
<1>6. NotLater(ring, s) = m
  BY <1>4, <1>5 DEF NotLater
<1> QED
  BY <1>3, <1>6

\* A new sample goes into its place, and nothing else moves.
LEMMA InsertedSorted ==
  ASSUME NEW ring \in Seq(Samples), NEW s \in Samples, Sorted(ring), s \notin Range(ring)
  PROVE  LET q == insertSorted(ring, s)
         IN  Sorted(q) /\ Range(q) = Range(ring) \cup {s}
<1> DEFINE q == insertSorted(ring, s)
           n == NotLater(ring, s)
           L == Len(ring)
<1>1. /\ q \in Seq(Samples) /\ Len(q) = L + 1
      /\ \A i \in 1..n : q[i] = ring[i]
      /\ q[n + 1] = s
      /\ \A i \in n + 1..L : q[i + 1] = ring[i]
  BY InsertedIsRing
<1>2. n \in 0..L /\ \A i \in 1..L : ~Before(s, ring[i]) <=> i <= n
  BY NotLaterFirst
<1>3. L \in Nat /\ (\A i \in 1..L : ring[i] \in Samples)
  BY LenProperties, ElementOfSeq
<1>4. Range(ring) = {ring[i] : i \in 1..L} /\ Range(q) = {q[i] : i \in 1..L + 1}
  BY <1>1, LenProperties DEF Range
<1> HIDE DEF q, n, L
<1>5. \A i \in 1..L : ring[i] # s
  BY <1>4
<1>6. ASSUME NEW i \in 1..L
      PROVE  (i <= n => Before(ring[i], s)) /\ (n < i => Before(s, ring[i]))
  <2>1. i <= n => Before(ring[i], s)
    BY <1>2, <1>3, <1>5, BeforeOrder
  <2>2. n < i => Before(s, ring[i])
    BY <1>2, <1>3
  <2> QED
    BY <2>1, <2>2
<1>7. ASSUME NEW i \in 1..L + 1
      PROVE  \/ i \in 1..n /\ i \in 1..L /\ q[i] = ring[i]
             \/ i = n + 1 /\ q[i] = s
             \/ i - 1 \in n + 1..L /\ i - 1 \in 1..L /\ q[i] = ring[i - 1]
  <2>1. CASE i <= n
    BY <1>1, <1>2, <1>3, <2>1
  <2>2. CASE i = n + 1
    BY <1>1, <2>2
  <2>3. CASE n + 1 < i
    <3>1. i - 1 \in n + 1..L /\ i - 1 \in 1..L /\ (i - 1) + 1 = i
      BY <1>2, <1>3, <2>3
    <3>2. q[(i - 1) + 1] = ring[i - 1]
      BY <1>1, <3>1
    <3> QED
      BY <3>1, <3>2
  <2> QED
    BY <1>2, <1>3, <2>1, <2>2, <2>3
<1>8. ASSUME NEW i \in 1..L + 1, NEW j \in 1..L + 1, i < j
      PROVE  Before(q[i], q[j])
  <2> DEFINE ordered == \A k, l \in 1..L : k < l => Before(ring[k], ring[l])
  <2>1. ordered
    BY DEF Sorted, L
  <2>2. n \in Int /\ L \in Int
    BY <1>2, <1>3
  <2>3. CASE i \in 1..n /\ i \in 1..L /\ q[i] = ring[i]
    <3>1. CASE j \in 1..n /\ j \in 1..L /\ q[j] = ring[j]
      BY <1>8, <2>1, <2>3, <3>1
    <3>2. CASE j = n + 1 /\ q[j] = s
      BY <1>6, <2>2, <2>3, <3>2
    <3>3. CASE j - 1 \in n + 1..L /\ j - 1 \in 1..L /\ q[j] = ring[j - 1]
      <4>1. i < j - 1
        BY <2>2, <2>3, <3>3
      <4> QED
        BY <2>1, <2>3, <3>3, <4>1
    <3> QED
      BY <1>7, <3>1, <3>2, <3>3
  <2>4. CASE i = n + 1 /\ q[i] = s
    <3>1. j - 1 \in n + 1..L /\ j - 1 \in 1..L /\ q[j] = ring[j - 1]
      BY <1>7, <1>8, <2>2, <2>4
    <3>2. n < j - 1
      BY <2>2, <3>1
    <3> QED
      BY <1>6, <2>4, <3>1, <3>2
  <2>5. CASE i - 1 \in n + 1..L /\ i - 1 \in 1..L /\ q[i] = ring[i - 1]
    <3>1. j - 1 \in n + 1..L /\ j - 1 \in 1..L /\ q[j] = ring[j - 1]
      BY <1>7, <1>8, <2>2, <2>5
    <3>2. i - 1 < j - 1
      BY <1>8
    <3> QED
      BY <2>1, <2>5, <3>1, <3>2
  <2> QED
    BY <1>7, <2>3, <2>4, <2>5
<1>9. Sorted(q)
  BY <1>1, <1>8 DEF Sorted
<1>10. ASSUME NEW i \in 1..L + 1
       PROVE  q[i] \in Range(ring) \cup {s}
  BY <1>4, <1>7
<1>11. n + 1 \in 1..L + 1
  BY <1>2, <1>3
<1>12. ASSUME NEW i \in 1..L
       PROVE  ring[i] \in Range(q)
  <2>1. CASE i <= n
    <3>1. i \in 1..n /\ i \in 1..L + 1
      BY <1>2, <1>3, <2>1
    <3> QED
      BY <1>1, <1>4, <3>1
  <2>2. CASE n < i
    <3>1. i \in n + 1..L /\ i + 1 \in 1..L + 1
      BY <1>2, <1>3, <2>2
    <3>2. q[i + 1] = ring[i]
      BY <1>1, <3>1
    <3> QED
      BY <1>4, <3>1, <3>2
  <2> QED
    BY <1>2, <1>3, <2>1, <2>2
<1>13. s \in Range(q)
  BY <1>1, <1>4, <1>11
<1>14. Range(q) = Range(ring) \cup {s}
  BY <1>4, <1>10, <1>12, <1>13
<1> QED
  BY <1>9, <1>14 DEF q

\* A full ring gives up the oldest it holds.
LEMMA RingKeeps ==
  ASSUME TypeOK, Ring, NEW s \in Samples, s \notin recorded,
         probes' = Retained(insertSorted(probes, s)), recorded' = recorded \cup {s}
  PROVE  Ring'
<1> DEFINE q == insertSorted(probes, s)
           H == ProbeHistoryLen
<1>1. /\ probes \in Seq(Samples) /\ Len(probes) \in Nat /\ Len(probes) <= H
      /\ H \in Nat \ {0} /\ recorded \subseteq Samples
  BY LenProperties, ProbeAssumption DEF ProbeAssumption, TypeOK, Samples
<1>2. Sorted(probes) /\ Range(probes) \subseteq recorded
  BY DEF Ring
<1>3. /\ q \in Seq(Samples) /\ Len(q) = Len(probes) + 1
      /\ Sorted(q) /\ Range(q) = Range(probes) \cup {s}
  BY <1>1, <1>2, InsertedIsRing, InsertedSorted
<1> HIDE DEF q
<1>4. probes' = Retained(q) /\ Len(q) <= H + 1
  BY <1>1, <1>3 DEF q
<1>5. CASE Len(q) <= H
  <2>1. probes' = q
    BY <1>3, <1>4, <1>5, RetainedIsRing
  <2>2. recorded = Range(probes)
    <3>1. Len(probes) # H
      BY <1>1, <1>3, <1>5
    <3> QED
      BY <3>1 DEF Ring
  <2>3. recorded' = Range(q)
    BY <1>3, <2>2
  <2>4. Sorted(probes)' /\ Range(probes)' = Range(q)
    BY <1>3, <2>1 DEF Sorted
  <2> QED
    BY <2>3, <2>4 DEF Ring
<1>6. CASE Len(q) = H + 1
  <2>1. /\ probes' \in Seq(Samples) /\ Len(probes') = H
        /\ \A i \in 1..H : probes'[i] = q[i + 1]
    BY <1>3, <1>4, <1>6, RetainedIsRing
  <2>2. DOMAIN q = 1..H + 1 /\ DOMAIN probes' = 1..H
    BY <1>3, <1>6, <2>1, LenProperties
  <2>3. \A i \in 1..H + 1 : q[i] \in Samples
    BY <1>3, <1>6, ElementOfSeq
  <2>4. \A i, j \in 1..H + 1 : i < j => Before(q[i], q[j])
    BY <1>3, <1>6 DEF Sorted
  <2>5. Sorted(probes)'
    <3>1. ASSUME NEW i \in 1..H, NEW j \in 1..H, i < j
          PROVE  Before(probes'[i], probes'[j])
      <4>1. i + 1 \in 1..H + 1 /\ j + 1 \in 1..H + 1 /\ i + 1 < j + 1
        BY <1>1, <3>1
      <4> QED
        BY <2>1, <2>4, <4>1
    <3> QED
      BY <2>1, <3>1 DEF Sorted
  <2>6. ASSUME NEW t \in Range(probes')
        PROVE  \E i \in 2..H + 1 : t = q[i]
    <3>1. PICK i \in 1..H : t = probes'[i]
      BY <2>2 DEF Range
    <3>2. i + 1 \in 2..H + 1 /\ t = q[i + 1]
      BY <1>1, <2>1, <3>1
    <3> QED
      BY <3>2
  <2>7. ASSUME NEW i \in 2..H + 1
        PROVE  q[i] \in Range(probes')
    <3>1. i - 1 \in 1..H /\ (i - 1) + 1 = i
      BY <1>1
    <3>2. probes'[i - 1] = q[i]
      BY <2>1, <3>1
    <3> QED
      BY <2>2, <3>1, <3>2 DEF Range
  <2>8. Range(probes') \subseteq recorded'
    <3>1. \A i \in 2..H + 1 : q[i] \in Range(q)
      <4>1. 2..H + 1 \subseteq 1..H + 1
        BY <1>1
      <4> QED
        BY <2>2, <4>1 DEF Range
    <3> QED
      BY <1>2, <1>3, <2>6, <3>1
  <2>9. Range(q) \subseteq Range(probes') \cup {q[1]}
    <3>1. \A i \in 1..H + 1 : i = 1 \/ i \in 2..H + 1
      BY <1>1
    <3> QED
      BY <2>2, <2>7, <3>1 DEF Range
  <2>10. 1 \in 1..H + 1
    BY <1>1
  <2>11. ASSUME NEW t \in Range(probes')
         PROVE  Before(q[1], t)
    <3>1. PICK i \in 2..H + 1 : t = q[i]
      BY <2>6
    <3>2. i \in 1..H + 1 /\ 1 < i
      BY <1>1
    <3> QED
      BY <2>4, <2>10, <3>1, <3>2
  <2>12. ASSUME NEW x \in recorded' \ Range(probes'), NEW t \in Range(probes')
         PROVE  Before(x, t)
    <3>1. CASE x = q[1]
      BY <2>11, <3>1
    <3>2. CASE x # q[1]
      <4>1. x \notin Range(q)
        BY <2>9, <3>2
      <4>2. x \in recorded /\ x \notin Range(probes) /\ x \in Samples
        BY <1>1, <1>3, <4>1
      <4>3. \A u \in Range(probes) : Before(x, u)
        BY <4>2 DEF Ring
      <4>4. q[1] \in Range(q) /\ q[1] \in Samples
        BY <2>2, <2>3, <2>10 DEF Range
      <4>5. PICK i \in 2..H + 1 : t = q[i]
        BY <2>6
      <4>6. i \in 1..H + 1 /\ 1 < i
        BY <1>1
      <4>7. t \in Range(q) /\ t \in Samples
        BY <2>2, <2>3, <4>5, <4>6 DEF Range
      <4>8. CASE t \in Range(probes)
        BY <4>3, <4>8
      <4>9. CASE t \notin Range(probes)
        <5>1. t = s
          BY <1>3, <4>7, <4>9
        <5>2. Before(q[1], t)
          BY <2>11
        <5>3. q[1] # t
          BY <4>4, <4>7, <5>2, BeforeOrder
        <5>4. q[1] \in Range(probes)
          BY <1>3, <4>4, <5>1, <5>3
        <5> QED
          BY <4>2, <4>3, <4>4, <4>7, <5>2, <5>4, BeforeOrder
      <4> QED
        BY <4>8, <4>9
    <3> QED
      BY <3>1, <3>2
  <2>13. \A x \in recorded' \ Range(probes') : \A t \in Range(probes') : Before(x, t)
    BY <2>12
  <2> QED
    BY <2>1, <2>5, <2>8, <2>13 DEF Ring
<1>7. Len(q) <= H \/ Len(q) = H + 1
  BY <1>1, <1>3, <1>4
<1> QED
  BY <1>5, <1>6, <1>7

\* A generation is recorded once, and no other has its stamp and its key.
LEMMA RingStep ==
  TypeOK /\ TypeOK' /\ OneGeneration /\ Bounded /\ Ring /\ Unrecorded /\ [Next]_vars
    => Ring' /\ Unrecorded'
<1> SUFFICES ASSUME TypeOK, TypeOK', OneGeneration, Bounded, Ring, Unrecorded, [Next]_vars
             PROVE  Ring' /\ Unrecorded'
  OBVIOUS
<1>1. ASSUME UNCHANGED <<probes, recorded>>
      PROVE  Ring'
  BY <1>1 DEF Ring, Sorted
<1>2. ASSUME UNCHANGED <<probes, recorded, gens>>
      PROVE  Ring' /\ Unrecorded'
  BY <1>1, <1>2 DEF Unrecorded
<1>3. \A s \in recorded : s[1] \in Nat
  BY ProbeAssumption DEF ProbeAssumption, TypeOK, Time
<1>4. ASSUME NEW c \in Callers, Launch(c)
      PROVE  Ring' /\ Unrecorded'
  <2> DEFINE at == calls[c].at
             live == {k \in calls[c].targets : MayProbe(k, at)}
             Fresh(k) == [key |-> k, at |-> at, step |-> "run", retry |-> 0]
             new == {Fresh(k) : k \in live}
  <2>1. gens' = gens \cup new /\ UNCHANGED <<probes, recorded>>
    BY <1>4 DEF Launch
  <2>2. at \in Nat /\ at - lastProbeWave >= Gap /\ Gap \in Nat \ {0} /\ lastProbeWave \in Int
    BY <1>4, ProbeAssumption DEF TypeOK, Time, Launch, TooSoon, ProbeAssumption
  <2>3. ASSUME NEW k \in live
        PROVE  SampleOf(Fresh(k)) \notin recorded
    <3>1. SampleOf(Fresh(k)) = <<at, k[1], k[2]>>
      BY DEF SampleOf
    <3>2. \A s \in recorded : s[1] \in Nat /\ s[1] <= lastProbeWave
      BY <1>3 DEF Bounded, AllSamples
    <3> HIDE DEF at
    <3>3. \A s \in recorded : s[1] # at
      BY <2>2, <3>2
    <3> QED
      BY <3>1, <3>3
  <2>4. ASSUME NEW g \in gens', g.step # "recorded"
        PROVE  SampleOf(g) \notin recorded'
    <3>1. CASE g \in gens
      BY <2>1, <2>4, <3>1 DEF Unrecorded
    <3>2. CASE g \in new
      BY <2>1, <2>3, <3>2
    <3> QED
      BY <2>1, <3>1, <3>2
  <2> QED
    BY <1>1, <2>1, <2>4 DEF Unrecorded
<1>5. ASSUME NEW g \in gens, NEW h, Becomes(g, h), SampleOf(h) = SampleOf(g), g.step # "recorded",
             UNCHANGED <<probes, recorded>>
      PROVE  Ring' /\ Unrecorded'
  <2>1. ASSUME NEW x \in gens', x.step # "recorded"
        PROVE  SampleOf(x) \notin recorded'
    BY <1>5, <2>1 DEF Unrecorded, Becomes
  <2> QED
    BY <1>1, <1>5, <2>1 DEF Unrecorded
<1>6. ASSUME NEW g \in gens, NEW retry \in Retries \cup {0}, Answer(g, retry)
      PROVE  Ring' /\ Unrecorded'
  <2>1. SampleOf([g EXCEPT !.step = "answered", !.retry = retry]) = SampleOf(g)
    BY GenerationFields DEF TypeOK, SampleOf
  <2> QED
    BY <1>5, <1>6, <2>1 DEF Answer
<1>7. ASSUME NEW g \in gens, BackOff(g)
      PROVE  Ring' /\ Unrecorded'
  <2>1. SampleOf([g EXCEPT !.step = "backedOff"]) = SampleOf(g)
    BY GenerationFields DEF TypeOK, SampleOf
  <2> QED
    BY <1>5, <1>7, <2>1 DEF BackOff
<1>8. ASSUME NEW g \in gens, RecordProbe(g)
      PROVE  Ring' /\ Unrecorded'
  <2> DEFINE h == [g EXCEPT !.step = "recorded"]
             s == SampleOf(g)
  <2>1. g \in Generations
    BY DEF TypeOK
  <2>2. h.step = "recorded"
    BY <2>1, GenerationFields
  <2>3. /\ gens' = (gens \ {g}) \cup {h} /\ g.step # "recorded"
        /\ probes' = Retained(insertSorted(probes, s)) /\ recorded' = recorded \cup {s}
    BY <1>8 DEF RecordProbe, Becomes
  <2>4. s \in Samples /\ s \notin recorded
    BY <2>1, <2>3 DEF Unrecorded, Generations, Keys, SampleOf, Samples
  <2>5. \A x \in gens \ {g} : SampleOf(x) # s
    <3> SUFFICES ASSUME NEW x \in gens \ {g}, SampleOf(x) = s
                 PROVE  FALSE
      OBVIOUS
    <3>1. x.key \in Backends \X Models /\ g.key \in Backends \X Models
      BY <2>1 DEF TypeOK, Generations, Keys
    <3>2. x.key[1] = g.key[1] /\ x.key[2] = g.key[2]
      BY DEF SampleOf
    <3>3. x.key = g.key
      BY <3>1, <3>2
    <3> QED
      BY <3>3 DEF OneGeneration
  <2> HIDE DEF h, s
  <2>6. Ring'
    BY <2>3, <2>4, RingKeeps
  <2>7. ASSUME NEW x \in gens', x.step # "recorded"
        PROVE  SampleOf(x) \notin recorded'
    <3>1. x \in gens \ {g}
      BY <2>2, <2>3, <2>7
    <3> QED
      BY <2>3, <2>5, <2>7, <3>1 DEF Unrecorded
  <2> QED
    BY <2>6, <2>7 DEF Unrecorded
<1>9. ASSUME NEW g \in gens, Release(g)
      PROVE  Ring' /\ Unrecorded'
  BY <1>1, <1>9 DEF Release, Unrecorded
<1>10. CASE Tick
  BY <1>2, <1>10 DEF Tick
<1>11. ASSUME NEW b \in Backends, NEW m \in Models \cup {NoModel}, Scrape(b, m)
       PROVE  Ring' /\ Unrecorded'
  BY <1>2, <1>11 DEF Scrape
<1>12. ASSUME NEW c \in Callers, Targets(c) \/ Stamp(c) \/ Gated(c)
       PROVE  Ring' /\ Unrecorded'
  BY <1>2, <1>12 DEF Targets, Stamp, Gated
<1>13. CASE UNCHANGED vars
  BY <1>2, <1>13 DEF vars
<1> QED
  BY <1>4, <1>6, <1>7, <1>8, <1>9, <1>10, <1>11, <1>12, <1>13 DEF Next, ProbeAll, Generation

\* A sorted ring holds as many samples as it has places.
LEMMA RingSize ==
  ASSUME NEW ring \in Seq(Samples), Sorted(ring)
  PROVE  Cardinality(Range(ring)) = Len(ring)
<1> DEFINE I == 1..Len(ring)
<1>1. Len(ring) \in Nat
  BY LenProperties
<1>2. ring \in [I -> Range(ring)] /\ \A t \in Range(ring) : \E i \in I : ring[i] = t
  <2>1. ring \in [I -> Samples] /\ DOMAIN ring = I
    BY LenProperties
  <2> QED
    BY <2>1 DEF Range
<1>3. ASSUME NEW i \in I, NEW j \in I, ring[i] = ring[j]
      PROVE  i = j
  <2>1. ring[i] \in Samples /\ ring[j] \in Samples
    BY ElementOfSeq
  <2>2. i < j => Before(ring[i], ring[j])
    BY DEF Sorted
  <2>3. j < i => Before(ring[j], ring[i])
    BY DEF Sorted
  <2>4. ~(i < j) /\ ~(j < i)
    BY <1>3, <2>1, <2>2, <2>3, BeforeOrder
  <2> QED
    BY <1>1, <2>4
<1>4. IsFiniteSet(I) /\ Cardinality(I) = Len(ring)
  <2>1. IsFiniteSet(I) /\ Cardinality(I) = IF 1 > Len(ring) THEN 0 ELSE Len(ring) - 1 + 1
    BY <1>1, FS_Interval
  <2> QED
    BY <1>1, <2>1
<1> HIDE DEF I
<1>5. \A a, b \in I : ring[a] = ring[b] => a = b
  BY <1>3
<1>6. ring \in Bijection(I, Range(ring))
  BY <1>2, <1>5, Fun_IsBij
<1>7. ExistsBijection(I, Range(ring))
  BY <1>6 DEF ExistsBijection
<1> QED
  BY <1>4, <1>7, FS_Bijection

\* The ring holds the newest samples in order, in whatever order the generations of a wave
\* end, and gives up none while there is room (RecordProbe, insertSorted).
THEOREM KeepsNewest == Spec => []RetainsNewest
<1>1. Init => TypeOK /\ OneGeneration /\ Bounded /\ Spaced /\ Ring /\ Unrecorded
  <2> SUFFICES ASSUME Init
               PROVE  TypeOK /\ OneGeneration /\ Bounded /\ Spaced /\ Ring /\ Unrecorded
    OBVIOUS
  <2>1. TypeOK /\ OneGeneration /\ Bounded /\ Spaced /\ Unrecorded
    BY ProbeAssumption DEF ProbeAssumption, Init, TypeOK, Time, Idle, Keys, OneGeneration,
       Bounded, Spaced, AllSamples, Unrecorded
  <2>2. probes = <<>> /\ recorded = {} /\ Len(probes) = 0 /\ DOMAIN probes = {}
    BY DEF Init
  <2>3. Range(probes) = {}
    BY <2>2 DEF Range
  <2>4. Ring
    BY <2>2, <2>3 DEF Ring, Sorted
  <2> QED
    BY <2>1, <2>4
<1>2. TypeOK /\ Ring => RetainsNewest
  <2> SUFFICES ASSUME TypeOK, Ring
               PROVE  RetainsNewest
    OBVIOUS
  <2>1. probes \in Seq(Samples)
    BY DEF TypeOK, Samples
  <2>2. Cardinality(Range(probes)) = Len(probes)
    BY <2>1, RingSize DEF Ring
  <2> QED
    BY <2>2 DEF Ring, Sorted, RetainsNewest
<1> QED
  BY <1>1, <1>2, TypeStep, OneGenerationStep, SpacedStep, RingStep, PTL DEF Spec

=============================================================================

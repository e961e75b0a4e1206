---------------------------- MODULE ProbeWaves ----------------------------
(***************************************************************************)
(* The probe fan-out of the collector (internal/collector/collector.go).   *)
(* A wave sends one small generation to the model last seen loaded on each *)
(* backend.  Waves are started by key presses and by the --probe ticker,   *)
(* each in a goroutine of its own, and the generations of a wave run on    *)
(* after ProbeAll returned: callers and generations interleave at the two  *)
(* locks, c.mu and probeMu, and one action is what happens under one lock. *)
(***************************************************************************)
EXTENDS Integers, Sequences, FiniteSets, SequencesExt

CONSTANTS
  Backends,         \* base addresses; numbers, which compare as the strings do
  Models,           \* the names of models; numbers likewise
  NoModel,          \* no model is loaded: not a model
  Callers,          \* goroutines that call ProbeAll
  Gap,              \* probeWaveGap
  Retries,          \* the values of Retry-After, clamped
  ProbeHistoryLen,
  MaxTime           \* bound: how far the clock runs

ASSUME ProbeAssumption ==
  /\ Backends \subseteq Nat
  /\ Models \subseteq Nat
  /\ NoModel \notin Models
  /\ Gap \in Nat \ {0}
  /\ Retries \subseteq Nat \ {0}
  /\ ProbeHistoryLen \in Nat \ {0}
  /\ MaxTime \in Nat

VARIABLES
  now,             \* c.instant()
  lastModel,       \* backend -> the model to probe
  lastProbeWave, probeInflight,
  probeBackoff,    \* key -> earliest next probe; 0: none
  probes,          \* the ring of samples, newest last
  calls,           \* caller -> how far its ProbeAll is
  gens,            \* the generations whose goroutine is running
  \* History, read by the properties only.
  promised,        \* key -> the end of the wait its last 429 asked for
  recorded         \* every sample ever recorded

vars == <<now, lastModel, lastProbeWave, probeInflight, probeBackoff, probes, calls,
          gens, promised, recorded>>

Keys == Backends \X Models
Time == 0..MaxTime

\* A sample as probeCmp sees it: its time, its address, its model.
SampleOf(g) == <<g.at, g.key[1], g.key[2]>>

\* probeCmp.
Before(s, t) ==
  \/ s[1] < t[1]
  \/ s[1] = t[1] /\ s[2] < t[2]
  \/ s[1] = t[1] /\ s[2] = t[2] /\ s[3] < t[3]

\* The sample's place in the ring is after every one that is not later than it.
insertSorted(ring, s) ==
  InsertAt(ring, 1 + Cardinality({i \in 1..Len(ring) : ~Before(s, ring[i])}), s)

\* A plausible bug: the ring is never trimmed.
Untrimmed(ring) == ring

\* A plausible bug: a full ring keeps its front.
RetainedOldest(ring) ==
  IF Len(ring) > ProbeHistoryLen THEN SubSeq(ring, 1, ProbeHistoryLen) ELSE ring

\* A full ring loses its front, the oldest sample.
Retained(ring) ==
  IF Len(ring) > ProbeHistoryLen
  THEN SubSeq(ring, Len(ring) - ProbeHistoryLen + 1, Len(ring)) ELSE ring

(***************************************************************************)
(* ProbeAll                                                                *)
(***************************************************************************)
Idle == [step |-> "idle", targets |-> {}, at |-> 0]

Tick ==
  /\ now < MaxTime
  /\ now' = now + 1
  /\ UNCHANGED <<lastModel, lastProbeWave, probeInflight, probeBackoff, probes, calls,
                 gens, promised, recorded>>

\* emit: a poll of the backend succeeded and names the model to probe, or none.
\* The polls of the other backends may have failed, which leaves their models.
Scrape(b, m) ==
  /\ lastModel' = [lastModel EXCEPT ![b] = m]
  /\ UNCHANGED <<now, lastProbeWave, probeInflight, probeBackoff, probes, calls, gens,
                 promised, recorded>>

\* Under c.mu: the requests of the wave.
Targets(c) ==
  /\ calls[c].step = "idle"
  /\ calls' = [calls EXCEPT ![c] =
       [step |-> "targeted",
        targets |-> {<<b, lastModel[b]>> : b \in {x \in Backends : lastModel[x] # NoModel}},
        at |-> 0]]
  /\ UNCHANGED <<now, lastModel, lastProbeWave, probeInflight, probeBackoff, probes,
                 gens, promised, recorded>>

\* No lock is held: the stamp of the wave.
Stamp(c) ==
  /\ calls[c].step = "targeted"
  /\ calls' = [calls EXCEPT ![c].step = "stamped", ![c].at = now]
  /\ UNCHANGED <<now, lastModel, lastProbeWave, probeInflight, probeBackoff, probes,
                 gens, promised, recorded>>

\* A plausible bug: the gate only stops waves of the same instant.
TooSoonExactly(at) == at = lastProbeWave

\* The gate.  A caller overtaken since it took its stamp is refused as well.
TooSoon(at) == at - lastProbeWave < Gap

\* A plausible bug: running generations are not looked at.
MayProbeAgain(k, at) == at >= probeBackoff[k]

\* One generation at a time, and none before Retry-After is over.
MayProbe(k, at) == k \notin probeInflight /\ at >= probeBackoff[k]

Gated(c) ==
  /\ calls[c].step = "stamped"
  /\ TooSoon(calls[c].at)
  /\ calls' = [calls EXCEPT ![c] = Idle]
  /\ UNCHANGED <<now, lastModel, lastProbeWave, probeInflight, probeBackoff, probes,
                 gens, promised, recorded>>

\* Under probeMu: the wave claims its keys, and its goroutines start.
Launch(c) ==
  LET at   == calls[c].at
      live == {k \in calls[c].targets : MayProbe(k, at)}
  IN
  /\ calls[c].step = "stamped"
  /\ ~TooSoon(at)
  /\ lastProbeWave' = at
  /\ probeBackoff' = [k \in Keys |-> IF k \in live THEN 0 ELSE probeBackoff[k]]
  /\ probeInflight' = probeInflight \cup live
  /\ gens' = gens \cup {[key |-> k, at |-> at, step |-> "run", retry |-> 0] : k \in live}
  /\ calls' = [calls EXCEPT ![c] = Idle]
  /\ UNCHANGED <<now, lastModel, probes, promised, recorded>>

(***************************************************************************)
(* The goroutine of one generation                                         *)
(***************************************************************************)
Becomes(g, h) == gens' = (gens \ {g}) \cup {h}

\* probe.Run returns: the answer, an error, or a 429/503 with its Retry-After.
Answer(g, retry) ==
  /\ g.step = "run"
  /\ Becomes(g, [g EXCEPT !.step = "answered", !.retry = retry])
  /\ promised' = IF retry > 0 THEN [promised EXCEPT ![g.key] = now + retry] ELSE promised
  /\ UNCHANGED <<now, lastModel, lastProbeWave, probeInflight, probeBackoff, probes,
                 calls, recorded>>

\* Under probeMu.
BackOff(g) ==
  /\ g.step = "answered"
  /\ g.retry > 0
  /\ probeBackoff' = [probeBackoff EXCEPT ![g.key] = now + g.retry]
  /\ Becomes(g, [g EXCEPT !.step = "backedOff"])
  /\ UNCHANGED <<now, lastModel, lastProbeWave, probeInflight, probes, calls, promised,
                 recorded>>

\* Under c.mu.
RecordProbe(g) ==
  /\ \/ g.step = "answered" /\ g.retry = 0
     \/ g.step = "backedOff"
  /\ probes' = Retained(insertSorted(probes, SampleOf(g)))
  /\ Becomes(g, [g EXCEPT !.step = "recorded"])
  /\ recorded' = recorded \cup {SampleOf(g)}
  /\ UNCHANGED <<now, lastModel, lastProbeWave, probeInflight, probeBackoff, calls,
                 promised>>

\* A plausible bug: the key is freed before the wait is noted.
FreedFirst(g) == g.step # "run"

\* A plausible bug: a generation that was told to wait does not free its key.
FreedOnSuccess(g) == g.step = "recorded" /\ g.retry = 0

Ended(g) == g.step = "recorded"

\* The deferred call, under probeMu.
Release(g) ==
  /\ Ended(g)
  /\ probeInflight' = probeInflight \ {g.key}
  /\ gens' = gens \ {g}
  /\ UNCHANGED <<now, lastModel, lastProbeWave, probeBackoff, probes, calls, promised,
                 recorded>>

(***************************************************************************)
(* The specification                                                       *)
(***************************************************************************)
Init ==
  /\ now = 0
  /\ lastModel = [b \in Backends |-> NoModel]
  /\ lastProbeWave = -Gap    \* the zero time: the first wave is never too soon
  /\ probeInflight = {}
  /\ probeBackoff = [k \in Keys |-> 0]
  /\ probes = <<>>
  /\ calls = [c \in Callers |-> Idle]
  /\ gens = {}
  /\ promised = [k \in Keys |-> 0]
  /\ recorded = {}

ProbeAll(c) == Targets(c) \/ Stamp(c) \/ Gated(c) \/ Launch(c)

Generation(g) ==
  \/ \E retry \in Retries \cup {0} : Answer(g, retry)
  \/ BackOff(g)
  \/ RecordProbe(g)
  \/ Release(g)

Next ==
  \/ Tick
  \/ \E b \in Backends : \E m \in Models \cup {NoModel} : Scrape(b, m)
  \/ \E c \in Callers : ProbeAll(c)
  \/ \E g \in gens : Generation(g)

Spec == Init /\ [][Next]_vars

\* The HTTP client gives up after its timeout, so probe.Run returns, and the rest
\* of a goroutine never blocks for good.
Generations == [key : Keys, at : Time, step : {"run", "answered", "backedOff", "recorded"},
                retry : Retries \cup {0}]

FairSpec == Spec /\ \A g \in Generations : WF_vars(g \in gens /\ Generation(g))

(***************************************************************************)
(* Properties                                                              *)
(***************************************************************************)
TypeOK ==
  /\ now \in Time
  /\ lastModel \in [Backends -> Models \cup {NoModel}]
  /\ lastProbeWave \in Time \cup {-Gap}
  /\ probeInflight \subseteq Keys
  /\ probeBackoff \in [Keys -> Nat]
  /\ probes \in Seq(Time \X Backends \X Models)
  /\ Len(probes) <= ProbeHistoryLen
  /\ calls \in [Callers -> [step : {"idle", "targeted", "stamped"},
                            targets : SUBSET Keys, at : Time]]
  /\ gens \subseteq Generations
  /\ promised \in [Keys -> Nat]
  /\ recorded \subseteq Time \X Backends \X Models

\* Whatever the callers do, a model of a backend is never sent a second generation
\* while one is running, and no key stays claimed without one (probeInflight).
OneGeneration ==
  /\ probeInflight = {g.key : g \in gens}
  /\ \A g, h \in gens : g.key = h.key => g = h

\* A generation that is running was started at or after the end of the wait that
\* the key's last 429 or 503 asked for: the wait is noted before the key is freed,
\* and a wave stamped before it does not slip past (probeBackoff).
BackoffRespected ==
  \A g \in gens : g.step = "run" => g.at >= promised[g.key]

\* No two generations of a key, over the whole run, are stamped within a wave gap,
\* however the callers overtake each other between stamp and gate.
Spaced ==
  \A s, t \in recorded \cup {SampleOf(g) : g \in gens} :
    s # t /\ s[2] = t[2] /\ s[3] = t[3] => s[1] - t[1] >= Gap \/ t[1] - s[1] >= Gap

\* The ring holds the newest samples, in order, although generations end in any
\* order: nothing it gave up is newer than anything it holds (RecordProbe).
RetainsNewest ==
  /\ \A i, j \in 1..Len(probes) : i < j => Before(probes[i], probes[j])
  /\ Range(probes) \subseteq recorded
  /\ Len(probes) = ProbeHistoryLen \/ Cardinality(recorded) = Len(probes)
  /\ \A s \in recorded \ Range(probes) : \A t \in Range(probes) : Before(s, t)

\* A claimed key is freed in the end, and can be probed again.
EventuallyFree ==
  \A k \in Keys : k \in probeInflight ~> k \notin probeInflight

\* What the comments promise (collector.go:548): "waves also never overlap per
\* backend", whatever model each of them found loaded.  (Does not hold: README, Disagreements.)
OnePerBackend ==
  \A g, h \in gens : g.key[1] = h.key[1] => g = h

=============================================================================

---------------------------- MODULE EngineRates ----------------------------
(***************************************************************************)
(* The snapshot loop of the collector (internal/collector/collector.go,    *)
(* Run, emit, rates, timedRing, the pollers of host vitals) with the polls *)
(* of internal/provider/openai.go under it.  Engines generate and restart; *)
(* the loop scrapes them side by side, derives rates and histories under   *)
(* c.mu and hands the frame to a consumer that may stop reading, while the *)
(* ingest server wants the same mutex and the context may end.             *)
(*                                                                         *)
(* The moving average is linear in the increments it is fed, so the model  *)
(* sums those (credit, a rate times the time it stands for) and leaves the *)
(* weights out.  One unit of clock is one interval; an emit whose stamp    *)
(* did not move since the last one is what the code calls dt <= 0.         *)
(***************************************************************************)
EXTENDS Integers, Sequences

CONSTANTS
  Kind,           \* engine -> core.KindVLLM, KindLMStudio, KindLemonade or another kind
  Gauge,          \* engine -> the tok/s its own gauge may show (DirectOutPS), 0 is no gauge
  HistoryLen,     \* core.HistoryLen
  Buffer,         \* capacity of the snapshot channel
  MaxClock, MaxTokens, MaxRestarts, MaxPosts   \* bounds

ASSUME RatesAssumption ==
  /\ Gauge \in [DOMAIN Kind -> (SUBSET Nat) \ {{}}]
  /\ HistoryLen \in Nat \ {0} /\ Buffer \in Nat
  /\ MaxClock \in Nat /\ MaxTokens \in Nat /\ MaxRestarts \in Nat /\ MaxPosts \in Nat

Engines == DOMAIN Kind

VARIABLES
  clock, tick,    \* now in intervals; the ticker's channel holds a tick
  ctx,            \* the Run context ended
  engine,         \* engine -> its counter, its restarts, what it generated since the start
  loop,           \* warming, idle, polling, building, built, sending, stopped
  vitals,         \* the cache of host vitals, and who samples: the loop, the poller, nobody
  results,        \* engine -> what this emit's poll of it returned
  mu,             \* c.mu: free, or held by emit
  stamp,          \* what emit read off the clock when its polls were done
  prev,           \* engine -> c.prev
  ring,           \* engine -> c.histOut: its values are the times they were pushed at
  queued,         \* how many frames wait in the channel
  posts,          \* how many events wait in RecordAgent
  credit,         \* history: engine -> the increments its rate was fed
  due,            \* history: engine -> least and most it may have been fed
  pushed          \* history: engine -> times of its successful polls, the last HistoryLen

world == <<clock, tick, ctx>>
output == <<queued, posts>>
state == <<prev, ring, credit, due, pushed>>
vars == <<world, engine, loop, vitals, results, mu, stamp, output, state>>

None == [none |-> TRUE]
Failed == [failed |-> TRUE]

Init ==
  /\ clock = 0 /\ tick = FALSE /\ ctx = FALSE
  /\ engine \in [Engines -> [count : 0..MaxTokens, epoch : {0}, life : {0}]]
  /\ loop = "warming"
  /\ vitals = [cached |-> FALSE, sampling |-> "nobody"]
  /\ results = [e \in Engines |-> None]
  /\ mu = "free" /\ stamp = 0
  /\ prev = [e \in Engines |-> None]
  /\ ring = [e \in Engines |-> [buf |-> <<>>, head |-> 0, t0 |-> 0]]
  /\ queued = 0 /\ posts = 0
  /\ credit = [e \in Engines |-> 0]
  /\ due = [e \in Engines |-> None]
  /\ pushed = [e \in Engines |-> <<>>]

(***************************************************************************)
(* The world                                                               *)
(***************************************************************************)
Tick ==
  /\ clock < MaxClock
  /\ clock' = clock + 1 /\ tick' = TRUE
  /\ UNCHANGED <<ctx, engine, loop, vitals, results, mu, stamp, output, state>>

Cancel ==
  /\ ~ctx /\ ctx' = TRUE
  /\ UNCHANGED <<clock, tick, engine, loop, vitals, results, mu, stamp, output, state>>

Generate(e) ==
  /\ engine[e].life < MaxTokens
  /\ engine' = [engine EXCEPT ![e].count = @ + 1, ![e].life = @ + 1]
  /\ UNCHANGED <<world, loop, vitals, results, mu, stamp, output, state>>

\* The engine process restarts and its counters start from nothing.
Restart(e) ==
  /\ engine[e].epoch < MaxRestarts
  /\ engine' = [engine EXCEPT ![e].count = 0, ![e].epoch = @ + 1]
  /\ UNCHANGED <<world, loop, vitals, results, mu, stamp, output, state>>

\* The consumer takes a frame; nothing says it ever does.
Consume ==
  /\ queued > 0 /\ queued' = queued - 1
  /\ UNCHANGED <<world, engine, loop, vitals, results, mu, stamp, posts, state>>

Post ==
  /\ posts < MaxPosts
  /\ posts' = posts + 1
  /\ UNCHANGED <<world, engine, loop, vitals, results, mu, stamp, queued, state>>

\* RecordAgent and RecordProbe want c.mu and keep it for one insertion.
RecordAgent ==
  /\ posts > 0 /\ mu = "free"
  /\ posts' = posts - 1
  /\ UNCHANGED <<world, engine, loop, vitals, results, mu, stamp, queued, state>>

(***************************************************************************)
(* Host vitals: sampleSys under sysSampling, sysSnapshot, the poller        *)
(***************************************************************************)
SampleBegins(who) ==
  /\ vitals.sampling = "nobody"
  /\ vitals' = [vitals EXCEPT !.sampling = who]

SampleEnds(who) ==
  /\ vitals.sampling = who
  /\ vitals' = [cached |-> TRUE, sampling |-> "nobody"]

\* Run warms the cache before the first emit.
Warm ==
  /\ loop = "warming"
  /\ \/ ~vitals.cached /\ SampleBegins("loop") /\ UNCHANGED loop
     \/ SampleEnds("loop") /\ loop' = "polling"
  /\ UNCHANGED <<world, engine, results, mu, stamp, output, state>>

\* startSysPoller: a vendor CLI may take as long as it likes.
Refresh ==
  /\ loop # "warming"
  /\ \/ ~ctx /\ SampleBegins("poller")
     \/ SampleEnds("poller")
  /\ UNCHANGED <<world, engine, loop, results, mu, stamp, output, state>>

\* A plausible bug: every frame takes its own sample, behind the poller's.
SnapshotFresh == vitals.sampling = "nobody"

\* sysSnapshot: a warm cache is read without waiting for any sampler.
SysSnapshot == vitals.cached \/ vitals.sampling = "nobody"

(***************************************************************************)
(* emit                                                                    *)
(***************************************************************************)
\* OpenAICompat.Poll: vLLM is nothing without /metrics, any other kind is up when one of
\* its endpoints answers, the native one included where it is asked (enrichLMStudio,
\* enrichLemonade), and then has what it parsed of /metrics, or zeroes.
Answered(e, metrics, models, native) ==
  \/ metrics
  \/ Kind[e] # "vllm" /\ models
  \/ Kind[e] \in {"lmstudio", "lemonade"} /\ native

Reading(e, metrics, gauge) ==
  [out |-> IF metrics THEN engine[e].count ELSE 0, gauge |-> IF metrics THEN gauge ELSE 0,
   epoch |-> engine[e].epoch, life |-> engine[e].life]

Poll(e) ==
  /\ loop = "polling" /\ results[e] = None
  /\ \E metrics, models, native \in BOOLEAN, gauge \in Gauge[e] :
       /\ ctx => ~(metrics \/ models \/ native)
       /\ results' = [results EXCEPT ![e] =
            IF Answered(e, metrics, models, native) THEN Reading(e, metrics, gauge)
            ELSE Failed]
  /\ UNCHANGED <<world, engine, loop, vitals, mu, stamp, output, state>>

PollsDone ==
  /\ loop = "polling" /\ \A e \in Engines : results[e] # None
  /\ SysSnapshot
  /\ loop' = "building" /\ mu' = "emit" /\ stamp' = clock
  /\ UNCHANGED <<world, engine, vitals, results, output, state>>

\* The growth of the counter, clamped at a reset.
Grown(e) ==
  IF results[e].out < prev[e].out THEN 0 ELSE results[e].out - prev[e].out

\* A plausible bug: an emit without elapsed time moves the baseline.
BaselineMoved(e) == [at |-> stamp, out |-> results[e].out]

\* rates: the first reading and every later one that took time are the next
\* baseline, a counter that fell included.
Baseline(e) ==
  IF prev[e] = None \/ stamp > prev[e].at
  THEN [at |-> stamp, out |-> results[e].out] ELSE prev[e]

\* What the engine's gauge stands for over the time since a reading at t.
Shown(e, t) == results[e].gauge * (stamp - t)

\* The increment a rate is fed: what the engine's own gauge says when it shows one, else
\* the growth of the counter.
Increment(e) ==
  IF prev[e] = None \/ stamp <= prev[e].at THEN 0
  ELSE IF results[e].gauge > 0 THEN Shown(e, prev[e].at) ELSE Grown(e)

\* A plausible bug: the head wraps one slot early.
NextHeadEarly(h) == IF h + 1 >= HistoryLen - 1 THEN 0 ELSE h + 1

NextHead(h) == IF h + 1 = HistoryLen THEN 0 ELSE h + 1

\* timedRing.push: filling, then over the oldest; t0 is anchored to this push.
Push(r) ==
  LET full == Len(r.buf) = HistoryLen
      buf == IF full THEN [r.buf EXCEPT ![r.head + 1] = stamp] ELSE Append(r.buf, stamp)
  IN [buf |-> buf, head |-> IF full THEN NextHead(r.head) ELSE r.head,
      t0 |-> stamp - (Len(buf) - 1)]

\* timedRing.copy: the samples oldest first.
Copy(r) == SubSeq(r.buf, r.head + 1, Len(r.buf)) \o SubSeq(r.buf, 1, r.head)

Newest(s) == IF Len(s) > HistoryLen THEN SubSeq(s, Len(s) - HistoryLen + 1, Len(s)) ELSE s

\* History: over an interval whose end shows a gauge an engine is owed what that says;
\* over any other its growth when it did not restart, else at most what it generated.
Owed(e) ==
  LET r == results[e]  d == due[e]
      grown == r.life - d.life
      made(least) == IF r.gauge > 0 THEN Shown(e, d.at) ELSE least
  IN CASE d = None -> [at |-> stamp, epoch |-> r.epoch, life |-> r.life, least |-> 0, most |-> 0]
       [] d # None /\ stamp <= d.at -> d
       [] OTHER -> [at |-> stamp, epoch |-> r.epoch, life |-> r.life,
                    least |-> d.least + made(IF r.epoch = d.epoch THEN grown ELSE 0),
                    most |-> d.most + made(grown)]

\* The critical section of emit; results and stamp are its locals.
Build ==
  /\ loop = "building" /\ loop' = "built"
  /\ LET ok == {e \in Engines : results[e] # Failed}
         Upd(f, g(_)) == [e \in Engines |-> IF e \in ok THEN g(e) ELSE f[e]]
     IN /\ prev' = Upd(prev, Baseline)
        /\ credit' = Upd(credit, LAMBDA e : credit[e] + Increment(e))
        /\ ring' = Upd(ring, LAMBDA e : Push(ring[e]))
        /\ due' = Upd(due, Owed)
        /\ pushed' = Upd(pushed, LAMBDA e : Newest(Append(pushed[e], stamp)))
  /\ results' = [e \in Engines |-> None] /\ stamp' = 0
  /\ UNCHANGED <<world, engine, vitals, mu, output>>

Unlock ==
  /\ loop = "built" /\ loop' = "sending" /\ mu' = "free"
  /\ UNCHANGED <<world, engine, vitals, results, stamp, output, state>>

\* The channel takes the frame, or the context has ended.
Send ==
  /\ loop = "sending"
  /\ \/ queued < Buffer /\ queued' = queued + 1
     \/ ctx /\ UNCHANGED queued
  /\ loop' = "idle"
  /\ UNCHANGED <<world, engine, vitals, results, mu, stamp, posts, state>>

\* Run: the ticker starts an emit, the end of the context ends the loop.
Emit ==
  /\ loop = "idle" /\ tick
  /\ loop' = "polling" /\ tick' = FALSE
  /\ UNCHANGED <<clock, ctx, engine, vitals, results, mu, stamp, output, state>>

Stop ==
  /\ loop = "idle" /\ ctx /\ loop' = "stopped"
  /\ UNCHANGED <<world, engine, vitals, results, mu, stamp, output, state>>

Next ==
  \/ Tick \/ Cancel \/ Consume \/ Post \/ RecordAgent
  \/ \E e \in Engines : Generate(e) \/ Restart(e) \/ Poll(e)
  \/ Warm \/ Refresh
  \/ PollsDone \/ Build \/ Unlock \/ Send \/ Emit \/ Stop

\* The goroutine of Run takes its next step: a scrape ends within PollTimeout, the first
\* sample of the vitals returns and a mutex that is free is granted.  Neither
\* the consumer, the engines nor a later vitals sample owe anything.
Run == \/ Warm \/ PollsDone \/ Build \/ Unlock \/ Send \/ Emit
       \/ \E e \in Engines : Poll(e)

Fairness == WF_vars(Run) /\ WF_vars(Stop) /\ WF_vars(RecordAgent)

Spec == Init /\ [][Next]_vars /\ Fairness

(***************************************************************************)
(* Properties                                                              *)
(***************************************************************************)
TypeOK ==
  /\ clock \in 0..MaxClock /\ tick \in BOOLEAN /\ ctx \in BOOLEAN
  /\ loop \in {"warming", "idle", "polling", "building", "built", "sending", "stopped"}
  /\ mu \in {"free", "emit"} /\ stamp \in 0..clock
  /\ queued \in 0..Buffer
  /\ \A e \in Engines :
       /\ results[e] = None \/ results[e] = Failed \/ results[e].out \in Nat
       /\ prev[e] = None \/ (prev[e].at \in 0..clock /\ prev[e].out \in Nat)
       /\ Len(ring[e].buf) <= HistoryLen /\ ring[e].head \in 0..HistoryLen - 1

\* A rate is fed what was made since the reading before, in full and once, also across
\* emits without elapsed time and polls that failed: the growth of the counter between two
\* readings without a restart and never more than was generated across one; and where the
\* engine shows a gauge of its own, what that says of the time, and not the growth of that
\* time as well when a later poll finds no gauge (rates).
CreditExact ==
  \A e \in Engines : due[e] # None => credit[e] \in due[e].least..due[e].most

\* rates "derives smoothed tok/s deltas since the previous sample" of what Metrics calls a
\* "monotonic counter": without a gauge never more than was generated.
RatesAreDeltas ==
  \A e \in Engines : due[e] # None => credit[e] <= due[e].most

\* A history reads as its last HistoryLen samples, oldest first, and its axis
\* ends at the newest of them, however uneven the pushes were.
RingInOrder ==
  /\ TypeOK
  /\ \A e \in Engines : LET h == Copy(ring[e]) IN
       /\ h = pushed[e]
       /\ h # <<>> => ring[e].t0 + Len(h) - 1 = h[Len(h)]

\* An event is recorded though nobody ever reads a frame.
AlwaysRecords == (posts > 0) ~> (posts = 0)

\* A frame that was begun is offered to the channel although a vitals sampler
\* hangs, and the end of the context ends the loop although nobody reads.
AlwaysEmits == (loop = "polling") ~> (loop \in {"sending", "stopped"})
CancelEnds == ctx ~> (loop = "stopped")

\* Neither a reader that is gone nor a vitals sampler that hangs stops the rest.
NeverStalls == AlwaysRecords /\ AlwaysEmits /\ CancelEnds
=============================================================================

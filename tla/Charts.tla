------------------------------- MODULE Charts -------------------------------
(***************************************************************************)
(* How a snapshot becomes the columns of a chart, and the rates of the     *)
(* header (internal/ui: aggHist, compressSeries and probeSeries in ui.go,  *)
(* agents.go, spark.go).  Time is in half seconds, so that samples can lie *)
(* half way between two columns; a rate in a compressed chart is in        *)
(* twelfths, so that the mean of up to four samples is exact.              *)
(***************************************************************************)
EXTENDS Integers, Sequences, FiniteSets, FiniteSetsExt

CONSTANTS
  Width,          \* columns of a chart
  Block,          \* columns of the compressed chart with one span (compressBlock)
  HistoryLen,     \* samples of a history
  DurationBits,   \* bits of a time.Duration without its sign
  RateWindow      \* core.AgentRateWindow

Second == 2
Parts == 12
Columns == 1..Width

(***************************************************************************)
(* Snapshots                                                               *)
(***************************************************************************)
Histories(len, rates) == UNION {[1..n -> rates] : n \in 0..len}
Engines == [t0 : 4..5, vals : Histories(3, {0, 3})]
Events == [agent : {"a", "b"}, at : {1, 5, 8}, tokens : {0, 4}, via : BOOLEAN]
Snapshots == [engines : Histories(2, Engines), agents : Histories(1, Events), cadence : {2, 4}]

ProbeHistories == {p \in Histories(3, [at : 1..8, rate : 1..2]) :
  p # <<>> /\ \A i \in 2..Len(p) : p[i - 1].at <= p[i].at}

Sum(f(_), S) == MapThenSumSet(f, S)
Own(events) == {i \in DOMAIN events : ~events[i].via}
Times(e, cadence) == {e.t0 + (i - 1) * cadence : i \in DOMAIN e.vals}

(***************************************************************************)
(* The uniform chart                                                       *)
(***************************************************************************)
\* A plausible bug: Go's division, which rounds toward zero.
IndexTruncated(d, cadence) ==
  LET shifted == d + cadence \div 2
  IN IF shifted < 0 THEN -((-shifted) \div cadence) ELSE shifted \div cadence

nearestCadenceIndex(d, cadence) == (d + cadence \div 2) \div cadence

agentHistEnd(events) == Max({0} \cup {events[i].at : i \in Own(events)})

agentDenseHist(events, end, n, cadence) == [j \in 1..n |->
  LET start == end - (n - 1) * cadence
      here == {i \in Own(events) :
                 nearestCadenceIndex(events[i].at - start, cadence) = j - 1}
  IN (Sum(LAMBDA i : events[i].tokens, here) * Second) \div cadence]

EndOf(s) == Max({agentHistEnd(s.agents)} \cup
                UNION {Times(s.engines[k], s.cadence) : k \in DOMAIN s.engines})
Start(s) == EndOf(s) - (Width - 1) * s.cadence

\* The sample of an engine near ts, if it was not silent then.
Nearest(e, ts, cadence) ==
  LET i == nearestCadenceIndex(ts - e.t0, cadence) + 1
      apart == e.t0 + (i - 1) * cadence - ts
  IN IF i \in DOMAIN e.vals /\ apart <= cadence \div 2 /\ -apart <= cadence \div 2
     THEN e.vals[i] ELSE 0

aggHist(s) == [j \in Columns |->
  Sum(LAMBDA k : Nearest(s.engines[k], Start(s) + (j - 1) * s.cadence, s.cadence), DOMAIN s.engines)
  + agentDenseHist(s.agents, EndOf(s), Width, s.cadence)[j]]

(***************************************************************************)
(* The compressed chart                                                    *)
(***************************************************************************)
\* Every sample with its time and engine; the agents are one more engine.
timedSeries(s) ==
  LET end == EndOf(s)
      dense == agentDenseHist(s.agents, end, HistoryLen, s.cadence)
      first == end - (HistoryLen - 1) * s.cadence
  IN UNION {{[at |-> s.engines[k].t0 + (i - 1) * s.cadence, rate |-> s.engines[k].vals[i], engine |-> k] :
               i \in DOMAIN s.engines[k].vals} : k \in DOMAIN s.engines}
     \cup {[at |-> first + (j - 1) * s.cadence, rate |-> dense[j], engine |-> 0] :
             j \in {j \in 1..HistoryLen : \E i \in 1..HistoryLen : dense[i] > 0}}

\* A plausible bug: the shift is only capped to the bits of the type.
CapOfType(w) == DurationBits - 2

\* The largest shift that keeps the sum of w spans in the type.
spanCap(w) == DurationBits - (CHOOSE b \in 0..DurationBits : w * Second < 2^b
                                 /\ \A c \in 0..b - 1 : w * Second >= 2^c)

Level(w, j) == IF (w - j) \div Block < spanCap(w) THEN (w - j) \div Block ELSE spanCap(w)
Span(w, j) == Second * 2^Level(w, j)

\* From column j to the newest.
Rest(w, j) == Sum(LAMBDA i : Span(w, i), j..w)

\* A plausible bug: a sample at the edge of a column goes to the newer one.
ColumnEdge(offset) ==
  LET f[j \in Columns] == IF j < Width /\ offset <= Rest(Width, j + 1) THEN f[j + 1] ELSE j IN f[1]

\* The walk from the oldest column to the one that holds an offset from the end.
ColumnOf(offset) ==
  LET f[j \in Columns] == IF j < Width /\ offset < Rest(Width, j + 1) THEN f[j + 1] ELSE j IN f[1]

\* A plausible bug: one mean over the samples of all engines.
MeanOfAll(bucket) == IF bucket = {} THEN 0
  ELSE (Sum(LAMBDA t : t.rate, bucket) * Parts) \div Cardinality(bucket)

\* The engines of a bucket add up; within one engine it is the mean.
PerEngine(bucket) ==
  Sum(LAMBDA e : LET own == {t \in bucket : t.engine = e} IN
                 (Sum(LAMBDA t : t.rate, own) * Parts) \div Cardinality(own),
      {t.engine : t \in bucket})

compressSeries(tv) ==
  LET end == Max({0} \cup {t.at : t \in tv}) IN
  [j \in Columns |-> PerEngine({t \in tv : end - t.at < Rest(Width, 1)
                                         /\ ColumnOf(end - t.at) = j})]

(***************************************************************************)
(* Rates of the agents                                                     *)
(***************************************************************************)
\* Events of one name in the window, in their order; empty ones do not count.
InWindow(events, now, name) ==
  SelectSeq(events, LAMBDA ev : /\ ev.agent = name /\ ev.at >= now - RateWindow
                                /\ (ev.tokens > 0 \/ ev.via))

\* One row per name: what it spent, over what time, through an engine or not.
agentRates(events, now) ==
  {[agent |-> name,
    tokens |-> LET mine == InWindow(events, now, name)
               IN Sum(LAMBDA i : mine[i].tokens, DOMAIN mine),
    span |-> LET mine == InWindow(events, now, name) IN mine[Len(mine)].at - mine[1].at,
    via |-> LET mine == InWindow(events, now, name) IN mine[Len(mine)].via] :
     name \in {n \in {"a", "b"} : InWindow(events, now, n) # <<>>}}

\* A plausible bug: an agent counts for itself by what it does last.
OwnByLast(events, now) == {r \in agentRates(events, now) : ~r.via}

\* agentOwnTokPS: per event, so that who joins an engine keeps what came before.
OwnRates(events, now) == agentRates(SelectSeq(events, LAMBDA ev : ~ev.via), now)

(***************************************************************************)
(* Probes, dots and gauges                                                 *)
(***************************************************************************)
\* A plausible bug: a result counts from the edge of its column on.
SeriesFromEdge(probes, cadence) ==
  LET start == probes[Len(probes)].at - (Width - 1) * cadence
      Taken(j) == Cardinality({i \in DOMAIN probes :
                    \A k \in 1..i : probes[k].at <= start + j * cadence})
  IN [j \in Columns |-> IF Taken(j) = 0 THEN 0 ELSE probes[Taken(j)].rate]

\* The step chart, by the walk of the code over probes in the order of their times.
probeSeries(probes, cadence) ==
  LET start == probes[Len(probes)].at - (Width - 1) * cadence
      Taken(j) == Cardinality({i \in DOMAIN probes :
                    \A k \in 1..i : probes[k].at < start + j * cadence})
  IN [j \in Columns |-> IF Taken(j) = 0 THEN 0 ELSE probes[Taken(j)].rate]

tailCols(vals, w) == [j \in 1..w |->
  IF j + Len(vals) > w THEN vals[j + Len(vals) - w] ELSE 0]
Peak(cols) == LET top == Max({cols[j] : j \in DOMAIN cols}) IN IF top <= 0 THEN 1 ELSE top

\* Dots of one column of a chart of h rows, each of four dots; a guide only where
\* there are none.
BrailleChart(v, peak, h) == Cardinality({dy \in 0..4 * h - 1 : (4 * h - dy) * peak <= v * 4 * h})
Guide(v, peak, h, grid) == grid /\ ~\E dy \in 4 * (h - 1)..4 * h - 1 : (4 * h - dy) * peak <= v * 4 * h

GaugeBar(pct, w) == LET cells == IF w < 3 THEN 3 ELSE w
                        shown == IF pct < 0 THEN 0 ELSE IF pct > 100 THEN 100 ELSE pct
                    IN (shown * cells) \div 100

(***************************************************************************)
(* What a chart promises                                                   *)
(***************************************************************************)
\* Every sample of the window is in exactly one column of the uniform chart, and
\* no sample from before it is (aggHist, nearestCadenceIndex).
Conserved(s) ==
  LET half == s.cadence \div 2
      Seen(e) == {i \in DOMAIN e.vals : e.t0 + (i - 1) * s.cadence > Start(s) - half}
  IN Sum(LAMBDA j : aggHist(s)[j], Columns)
     = Sum(LAMBDA k : Sum(LAMBDA i : s.engines[k].vals[i], Seen(s.engines[k])), DOMAIN s.engines)
       + Sum(LAMBDA i : IF s.agents[i].at >= Start(s) - half
                        THEN (s.agents[i].tokens * Second) \div s.cadence ELSE 0, Own(s.agents))

\* The columns of the compressed chart tile the window: none overlaps, none is missed.
Tiled == \A offset \in 0..Rest(Width, 1) - 1 :
  LET j == ColumnOf(offset) IN Rest(Width, j + 1) <= offset /\ offset < Rest(Width, j)

\* Engines that hold their rates read the same on both timescales: the sum of the
\* engines, at the end that is common ("make the two timescale modes disagree").
Agree(s) ==
  (/\ s.agents = <<>> /\ s.engines # <<>>
   /\ \A k \in DOMAIN s.engines : /\ Len(s.engines[k].vals) = 3 /\ s.engines[k].t0 = s.engines[1].t0
                                  /\ \A i \in 1..3 : s.engines[k].vals[i] = s.engines[k].vals[1])
  => LET compressed == compressSeries(timedSeries(s)) IN
     /\ compressed[Width] = aggHist(s)[Width] * Parts
     /\ \A j \in Columns : compressed[j] \in {0, compressed[Width]}

\* The window never leaves the type, however wide the pane (spanCap).
NoWrap(w) == Rest(w, 1) < 2^DurationBits

\* Tokens in the rows of the agents are those of the window, and those that count
\* beside the engines are the ones no engine has counted (agentOwnTokPS).
RatesAddUp(events, now) ==
  LET live == {i \in DOMAIN events : events[i].at >= now - RateWindow}
      Total(rows) == Sum(LAMBDA r : r.tokens, rows)
  IN /\ Total(agentRates(events, now)) = Sum(LAMBDA i : events[i].tokens, live)
     /\ Total(OwnRates(events, now)) = Sum(LAMBDA i : events[i].tokens, live \cap Own(events))

\* Each column of the probes carries the newest result that had landed by then.
Held(probes, cadence) == LET grid == probeSeries(probes, cadence) IN
  \A j \in Columns :
    LET landed == {i \in DOMAIN probes :
                     probes[i].at < probes[Len(probes)].at - (Width - 1 - j) * cadence}
    IN grid[j] = IF landed = {} THEN 0 ELSE probes[Max(landed)].rate

\* The peak fills its column, more is never drawn lower, and a guide is no data.
Drawn(vals, h) ==
  LET cols == tailCols(vals, Width)
      Dots(j) == BrailleChart(cols[j], Peak(cols), h)
  IN /\ \A j \in Columns : cols[j] = Peak(cols) => Dots(j) = 4 * h
     /\ \A i, j \in Columns : cols[i] >= cols[j] => Dots(i) >= Dots(j)
     /\ \A j \in Columns : Guide(cols[j], Peak(cols), h, TRUE) => Dots(j) = 0
     /\ vals # <<>> => cols[Width] = vals[Len(vals)]
=============================================================================

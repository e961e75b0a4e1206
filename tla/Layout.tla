------------------------------- MODULE Layout -------------------------------
(***************************************************************************)
(* How a frame is laid out in a pane (internal/ui: View and the renderers  *)
(* of ui.go and agents.go).  A text is its width in cells, a block its     *)
(* number of rows; what a panel says is left out, that it has room for it  *)
(* is not.                                                                 *)
(***************************************************************************)
EXTENDS Integers, Sequences, FiniteSets, FiniteSetsExt

Least(a, b) == IF a < b THEN a ELSE b
Most(a, b) == IF a > b THEN a ELSE b
clampi(v, lo, hi) == IF v < lo THEN lo ELSE IF v > hi THEN hi ELSE v

minDashW == 62
minDashH == 30
minIdentH == 31

\* What a frame depends on.  sys: no host vitals, vitals of GPUs only, or a host with
\* a name or a sensor (or the remark that it has none).
Hosts == {"none", "bare", "named"}
Models == [w : {61, 62}, h : 1..70, help : BOOLEAN, paused : BOOLEAN, sys : Hosts,
           engines : {0, 1, 4}, agents : {0, 2}, prober : BOOLEAN, watching : BOOLEAN,
           ingest : {"off", "on"}]

View(m) ==
  CASE m.help -> "help"
    [] ~m.help /\ (m.w < minDashW \/ m.h < minDashH) -> "minimal"
    [] ~m.help /\ m.w >= minDashW /\ m.h >= minDashH ->
         IF m.engines > 0 THEN "full" ELSE IF m.agents > 0 THEN "agents" ELSE "empty"

Panels(m) ==
  CASE View(m) = "full" -> {"charts", "system", "engines", "state", "probes", "feed"}
    [] View(m) = "agents" -> {"charts", "system", "agents", "feed"}
    [] OTHER -> {}

(***************************************************************************)
(* Rows                                                                    *)
(***************************************************************************)
\* A plausible bug: the gate of the second row forgets the height.
IdentAlways(m) == m.sys # "none"

stripTwoRows(m) == m.sys # "none" /\ m.h >= minIdentH
systemStripRows(m) == IF stripTwoRows(m) THEN 4 ELSE 3

\* A plausible bug: the chrome is counted without the blank spacer.
HeightsWithoutSpacer(m) ==
  LET f == Most(m.h - 15 - systemStripRows(m), 10)
      out == clampi((f * 42) \div 100, 3, 99)
      feed == clampi((f * 22) \div 100, 2, 12)
  IN [out |-> out, mid |-> f - out - feed, feed |-> feed]

\* Inner heights of the chart, the panels in the middle and the feed.
sectionHeights(m) ==
  LET f == Most(m.h - 17 - systemStripRows(m), 10)
      out == clampi((f * 42) \div 100, 3, 99)
      feed == clampi((f * 22) \div 100, 2, 12)
      lack == Most(5 - (f - out - feed), 0)
      short == Most(3 - (out - lack), 0)
  IN [out |-> Most(out - lack, 3), mid |-> f - out - feed + lack, feed |-> feed - short]

\* A title, a border above and one below.
Panel(inner) == inner + 3

\* The strip draws its second row only when there is something to say.
renderSystem(m) == IF stripTwoRows(m) /\ m.sys = "named" THEN 4 ELSE 3

renderCharts(m) == Panel(sectionHeights(m).out) + Panel(1)

\* Header, spacer, and the blocks of each view; agents stand where the engines were.
Body(m) ==
  1 + 1 + renderCharts(m) + renderSystem(m) + Panel(sectionHeights(m).mid)
  + Panel(sectionHeights(m).feed)

\* The body is padded so that the footer keeps its row.
composeFrame(body, h) == body + Most(h - body - 2, 0) + 1

\* Logo and news, then what can be done now, then what can be done after a restart.
CardRows(m) ==
  4 + (IF m.paused THEN 2 ELSE 0) + (IF m.watching THEN 2 ELSE 0)
    + (IF m.ingest = "on" THEN (IF m.watching THEN 2 ELSE 3) ELSE 0)
    + 4 + (IF m.watching THEN 0 ELSE 2) + 2
renderEmpty(m) == composeFrame(Most(CardRows(m) + 4, Most(m.h - 2, 1)), m.h)

helpRows(m) == IF m.w < minDashW \/ m.h < minDashH THEN 4 ELSE 15
renderHelp(m) == IF helpRows(m) + 4 > m.h THEN m.h ELSE Most(m.h, helpRows(m) + 4)

\* Hint, pause, then engines and agents, cut to what the pane has.
renderMinimal(m) ==
  LET lines == 1 + (IF m.paused THEN 1 ELSE 0) + m.engines
               + (IF m.engines = 0 /\ m.agents = 0 THEN 2 ELSE m.agents)
      room == Most(m.h - 2, 0)
  IN IF room = 0 THEN 1 ELSE composeFrame(Least(lines, room), m.h)

Rows(m) ==
  CASE View(m) = "help" -> renderHelp(m)
    [] View(m) = "minimal" -> renderMinimal(m)
    [] View(m) = "empty" -> renderEmpty(m)
    [] OTHER -> composeFrame(Body(m), m.h)

(***************************************************************************)
(* What the panels have room for                                           *)
(***************************************************************************)
\* Rows of the probes panel: its chart, then two results or two lines of advice.
probesBody(m) == clampi(sectionHeights(m).mid - 3 - m.engines, 2, 8) + 2

\* A plausible bug: the rows of the agents take all there is.
StatsFirst(rows, feedIn) == Least(rows, feedIn)

\* Rows of agents above the events of the feed.
statsN(rows, feedIn) ==
  IF rows = 0 \/ feedIn <= 0 THEN 0
  ELSE LET n == Least(rows, Most(feedIn \div 2, 1))
       IN IF n >= feedIn /\ feedIn > 1 THEN feedIn - 1 ELSE n

feedLines(events, n) == IF n <= 0 THEN 0 ELSE Least(n, events)

\* Sensors: those of the GPUs are shown with the GPUs.
Sensors == [cpu : 0..6, gpu : 0..2, gpus : BOOLEAN]
sysCPUTemps(s) == IF s.gpus THEN s.cpu ELSE s.cpu + s.gpu

\* A plausible bug: the rest is counted on the list that was not filtered.
MoreOfAll(s) == Most(s.cpu + s.gpu - Least(sysCPUTemps(s), 4), 0)
MoreTemps(s) == Most(sysCPUTemps(s) - 4, 0)

(***************************************************************************)
(* Keys                                                                    *)
(***************************************************************************)
\* A plausible bug: p is offered wherever there is a prober.
FooterKeysOfProber(m) ==
  (IF m.prober THEN {"p"} ELSE {}) \cup (IF m.engines > 0 \/ m.agents > 0 THEN {"t"} ELSE {})

renderFooter(m) ==
  (IF m.prober /\ m.engines > 0 THEN {"p"} ELSE {})
  \cup (IF m.engines > 0 \/ m.agents > 0 THEN {"t"} ELSE {})

Advertised(m) ==
  CASE View(m) \in {"full", "agents", "empty"} -> renderFooter(m)
    [] View(m) = "help" -> IF helpRows(m) = 4 THEN {} ELSE {"p", "t"}
    [] OTHER -> {}

\* A key has an effect where the panel it changes is drawn.
Effective(m) == (IF "probes" \in Panels(m) /\ m.prober THEN {"p"} ELSE {})
                \cup (IF "charts" \in Panels(m) THEN {"t"} ELSE {})

(***************************************************************************)
(* Columns                                                                 *)
(***************************************************************************)
\* The header: texts with what they yield, pinned ones with 0.
Headers == [w : 62..100, engines : BOOLEAN, agents : BOOLEAN, ssh : {0, 12, 40}, paused : BOOLEAN]
Segment(width, shed) == <<[width |-> width, shed |-> shed]>>
renderHeader(x) ==
  Segment(6, 0) \o Segment(6, 40)
  \o (IF x.engines THEN Segment(13, 0) \o (IF x.agents THEN Segment(8, 45) ELSE <<>>)
      ELSE Segment(8, 0))
  \o Segment(15, 10) \o Segment(9, 20)
  \o (IF x.engines THEN Segment(11, 50) ELSE <<>>)
  \o (IF x.ssh > 0 THEN Segment(8 + x.ssh, 0) ELSE <<>>)
HeaderRight(x) == 8 + (IF x.paused THEN 11 ELSE 0)

Pipe == 3
RowWidth(segs, kept) == MapThenSumSet(LAMBDA i : segs[i].width, kept)
                        + Pipe * Most(Cardinality(kept) - 1, 0)

\* A plausible bug: the lowest number goes first.
WorstLowest(segs, kept) ==
  {i \in kept : segs[i].shed > 0 /\ \A j \in kept : segs[j].shed = 0 \/ segs[j].shed >= segs[i].shed}

\* The next to go: the highest number, the rightmost of those.
Worst(segs, kept) ==
  {i \in kept : segs[i].shed > 0 /\ \A j \in kept : \/ segs[j].shed < segs[i].shed
                                                    \/ segs[j].shed = segs[i].shed /\ j <= i}

Shed(segs, avail) ==
  LET kept[n \in 0..Len(segs)] ==
        IF n = 0 THEN DOMAIN segs
        ELSE IF Cardinality(kept[n - 1]) > 1 /\ RowWidth(segs, kept[n - 1]) > avail
             THEN kept[n - 1] \ Worst(segs, kept[n - 1]) ELSE kept[n - 1]
  IN kept[Len(segs)]

fitSegments(segs, avail) == IF avail <= 0 THEN 0 ELSE Least(RowWidth(segs, Shed(segs, avail)), avail)
joinSpread(left, right, width) == left + Most(width - left - right, 1) + right

\* The three panels in the middle share the pane.
MidRow(w) == LET pw == (w * 38) \div 100  gw == (w * 31) \div 100 IN <<pw, gw, w - pw - gw>>

\* The heading of the probes is as wide as it is: the newest result, its time of ms cells
\* and its rate of rate cells, and the remark that one is on its way.
ProbeTitles == [w : 62..145, last : {"none", "failed", "ok"}, ms : 1..8, rate : 3..5,
                probing : BOOLEAN]
LastProbe(x) == CASE x.last = "none" -> 0 [] x.last = "failed" -> 12 [] OTHER -> 13 + x.ms + x.rate
probesTitle(x) == 6 + LastProbe(x) + (IF x.probing THEN 12 ELSE 0)

\* The first line of the middle row; a line that is too wide ends in an ellipsis.
MidRowWidth(x) == MidRow(x.w)[1] + MidRow(x.w)[2] + Most(MidRow(x.w)[3], probesTitle(x))
clipFrame(width, w) == [width |-> Least(width, w), text |-> IF width <= w THEN width ELSE w - 1]
TitleShown(x) ==
  Least(probesTitle(x), clipFrame(MidRowWidth(x), x.w).text - MidRow(x.w)[1] - MidRow(x.w)[2])

\* A heading grows by the parts that still fit, most useful first.
Titles == [w : 10..60, parts : [1..3 -> {9, 10, 15, 45}]]
feedTitle(x) ==
  LET f[n \in 0..3] == IF n = 0 THEN 10
                       ELSE IF f[n - 1] + x.parts[n] <= x.w THEN f[n - 1] + x.parts[n] ELSE f[n - 1]
  IN f[3]

(***************************************************************************)
(* What a frame promises                                                   *)
(***************************************************************************)
\* Nothing is pushed out of the pane: a composed frame has the same number of rows
\* whatever it shows, so that the header stays and the footer keeps its row, which is the
\* last but one (sectionHeights: "must sum to exactly f or the frame overflows the pane").
FrameFits(m) ==
  /\ Rows(m) <= m.h
  /\ View(m) \in {"full", "agents", "empty"} => Rows(m) = m.h - 1
  /\ sectionHeights(m).out >= 3 /\ sectionHeights(m).mid >= 5 /\ sectionHeights(m).feed >= 2

\* No run lists it: the footer sits on the last row of the pane (composeFrame and
\* renderEmpty say so).
FooterLast(m) == View(m) \in {"full", "agents", "empty"} => Rows(m) = m.h

\* In a dashboard the newest results are not cut off, and the feed shows the newest
\* event however many agents there are (probesBody, renderFeed).
NewestShown(m) == View(m) = "full" =>
  LET feedIn == sectionHeights(m).feed IN
  /\ probesBody(m) <= sectionHeights(m).mid
  /\ \A rows \in 0..14, events \in 0..3 :
       LET n == statsN(rows, feedIn)
           lines == feedLines(events, feedIn - n)
       IN /\ n + lines <= feedIn
          /\ (events > 0 => lines > 0) /\ (rows > 0 => n > 0)

\* Shown and counted sensors are all there are, and none twice (renderSystem).
SensorsCounted(s) == Least(sysCPUTemps(s), 4) + MoreTemps(s) + (IF s.gpus THEN s.gpu ELSE 0)
                     = s.cpu + s.gpu

\* The footer offers the keys that have an effect, and no other (renderFooter: "a key
\* that appears to do nothing").
KeysHonest(m) == View(m) \in {"full", "agents", "empty"} => Advertised(m) = Effective(m)

\* A header never exceeds its pane; it sheds in the order of the numbers, the right
\* one first, and no more than it must (fitSegments).
HeaderFits(x) ==
  LET segs == renderHeader(x)
      avail == x.w - HeaderRight(x) - 1
      kept == Shed(segs, avail)
      gone == DOMAIN segs \ kept
  IN /\ joinSpread(fitSegments(segs, avail), HeaderRight(x), x.w) <= x.w
     /\ \A i \in DOMAIN segs : segs[i].shed = 0 => i \in kept
     /\ \A j \in gone, i \in kept : segs[i].shed < segs[j].shed
                                    \/ (segs[i].shed = segs[j].shed /\ i < j)
     /\ gone # {} => \E j \in gone : RowWidth(segs, kept \cup {j}) > avail

\* The panels fill the pane exactly, with room for a gauge in each, and the heading of the
\* feed stays in its panel (feedTitle: "silently stretches the whole frame past the pane").
PanelsTile(w) == MidRow(w)[1] + MidRow(w)[2] + MidRow(w)[3] = w /\ \A i \in 1..3 : MidRow(w)[i] > 4 + 14
TitleFits(x) == x.w >= 10 => feedTitle(x) <= x.w

\* The heading of the probes may be wider than its panel.  It is cut at the edge of the
\* pane and pushes no other panel; a failure is still named, and so is the first request,
\* when there is no result yet (probesTitle).
ProbeTitleCut(x) ==
  /\ clipFrame(MidRowWidth(x), x.w).width = x.w
  /\ x.last = "failed" => TitleShown(x) >= 6 + LastProbe(x)
  /\ x.last = "none" => TitleShown(x) = probesTitle(x)
  /\ probesTitle(x) <= MidRow(x.w)[3] => TitleShown(x) = probesTitle(x)

\* No run lists it: a key that was pressed is acknowledged at once (probesTitle:
\* "acknowledge the keypress immediately or it reads as dead").
ProbingSeen(x) == x.probing => TitleShown(x) = probesTitle(x)
=============================================================================

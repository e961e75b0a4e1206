------------------------------ MODULE Surface ------------------------------
(***************************************************************************)
(* The conversions between what toktop is told and what it shows: lines of *)
(* the ingest endpoint, charts, the layout of a frame, the command line,   *)
(* names of hosts, engines and releases.  They keep no state: a behaviour  *)
(* asks one question out of their bounded inputs, and the invariants judge *)
(* the answer the code gives.                                              *)
(***************************************************************************)
EXTENDS Integers, Sequences

CONSTANTS
  TextLength, AgentRoom, KindRoom, FieldRoom, MaxEventTokens, MaxInt,   \* EventWire
  Width, Block, HistoryLen, DurationBits, RateWindow,       \* Charts
  MaxFlags, MaxEnv,                                         \* CommandLine
  NameLength                                                \* Listings

Wire == INSTANCE EventWire
Chart == INSTANCE Charts
Pane == INSTANCE Layout
Command == INSTANCE CommandLine
Endpoint == INSTANCE Endpoints
Listing == INSTANCE Listings

ASSUME SurfaceAssumption ==
  /\ Width \in Nat \ {0}
  /\ AgentRoom \in Nat \ {0} /\ KindRoom \in Nat \ {0} /\ FieldRoom \in Nat
  /\ MaxEventTokens \in Nat /\ MaxInt \in Nat

VARIABLE asked     \* the question: what it is about, and the input

Topics == {"request", "epoch", "text", "line", "chart", "pane", "rates", "probes", "dots",
           "model", "sensors", "header", "middle", "heading", "probed",
           "knobs", "words", "size",
           "target", "contacts", "challenges", "keys", "urls", "catalog",
           "repository", "hops", "body", "listing"}

SurfaceInit == \E about \in Topics : asked = [about |-> about]

Ask(about, inputs) ==
  /\ asked = [about |-> about]
  /\ \E x \in inputs : asked' = [about |-> about, in |-> x]

SurfaceNext ==
  \/ Ask("request", Wire!Requests)
  \/ Ask("epoch", 9..10)
  \/ Ask("text", Wire!Texts)
  \/ Ask("line", Wire!Wires)
  \/ Ask("chart", Chart!Snapshots)
  \/ Ask("pane", 1..25)
  \/ Ask("rates", [events : Chart!Histories(2, Chart!Events), now : {9}])
  \/ Ask("probes", Chart!ProbeHistories)
  \/ Ask("dots", Chart!Histories(Width + 1, 0..3))
  \/ Ask("model", Pane!Models)
  \/ Ask("sensors", Pane!Sensors)
  \/ Ask("header", Pane!Headers)
  \/ Ask("middle", 62..200)
  \/ Ask("heading", Pane!Titles)
  \/ Ask("probed", Pane!ProbeTitles)
  \/ Ask("knobs", Command!Lines)
  \/ Ask("words", Command!Invocations)
  \/ Ask("size", [tty : Command!Terminals, override : {0, 40, 41, 80, 1024, 1025}])
  \/ Ask("target", Endpoint!Targets)
  \/ Ask("contacts", Endpoint!Contacts)
  \/ Ask("challenges", Endpoint!Challenges \X Endpoint!Sources)
  \/ Ask("keys", Endpoint!KeySources)
  \/ Ask("urls", Endpoint!Urls \X Endpoint!Urls)
  \/ Ask("catalog", Endpoint!Catalogs)
  \/ Ask("repository", Listing!Repos)
  \/ Ask("hops", Listing!Hops)
  \/ Ask("body", (0..6) \X (0..4))
  \/ Ask("listing", Listing!Listed)

SurfaceSpec == SurfaceInit /\ [][SurfaceNext]_asked

If(about, Holds(_)) == (asked.about = about /\ "in" \in DOMAIN asked) => Holds(asked.in)

\* What comes in over the wire: one log line for each refusal and each POST, one
\* instant for a time in any unit, no escape sequence or control character left of any
\* text and nothing else taken from it, and no event without a name and a kind, with a
\* name of two alphabets or a count out of range (server.go, event.go, sanitize.go).
WireSound ==
  /\ If("request", Wire!LoggedOnce)
  /\ If("epoch", Wire!UnitsAgree)
  /\ If("text", Wire!SafeText)
  /\ If("line", Wire!SoundLine)

\* What a chart shows is what was measured: each sample once, the same on both
\* timescales, the tokens of agents beside those of engines, and nothing wraps in a
\* wide pane (ui.go, agents.go).
ChartsFaithful ==
  /\ If("chart", LAMBDA s : Chart!Conserved(s) /\ Chart!Agree(s))
  /\ If("pane", LAMBDA w : Chart!NoWrap(w) /\ Chart!Tiled)
  /\ If("rates", LAMBDA q : Chart!RatesAddUp(q.events, q.now))

\* A column of probes holds the newest result that had landed by then, and a column of
\* dots is as high as its value, beside the values around it (ui.go, spark.go).
DrawnAsMeasured ==
  /\ If("probes", LAMBDA p : Chart!Held(p, 2))
  /\ If("dots", LAMBDA v : v # <<>> => Chart!Drawn(v, 2))

\* A frame fits its pane whatever it shows: rows and columns are shared out without
\* overflow, and the heading of the probes, which may be wider than its panel, is cut at
\* the edge; the newest result and event stay in view, no sensor is lost or counted
\* twice, and the footer offers just the keys that act (ui.go, agents.go).
FramesFit ==
  /\ If("model", LAMBDA m : Pane!FrameFits(m) /\ Pane!NewestShown(m) /\ Pane!KeysHonest(m))
  /\ If("sensors", Pane!SensorsCounted)
  /\ If("header", Pane!HeaderFits)
  /\ If("middle", Pane!PanelsTile)
  /\ If("heading", Pane!TitleFits)
  /\ If("probed", Pane!ProbeTitleCut)

\* Nothing on the command line or in the environment is dropped in silence but the sizes
\* of a frame that is printed as text, and what cannot be used is refused
\* (cmd/toktop/main.go).
NothingIgnored ==
  /\ If("knobs", Command!KnobsCount)
  /\ If("words", LAMBDA c : Command!KnobsCount(c) /\ Command!WordsCount(c))
  /\ If("size", Command!FrameSized)

\* A connection, a secret, a probe and a download go where they were meant to go
\* (target.go, knownhosts.go, auth.go, bearer.go, collector.go, selfupdate.go).
MeantForIt ==
  /\ If("target", Endpoint!TargetSound)
  /\ If("contacts", Endpoint!KeysRemembered)
  /\ If("challenges", LAMBDA q : Endpoint!SecretKept(q[1], q[2]))
  /\ If("keys", Endpoint!KeyFirst)
  /\ If("urls", LAMBDA q : Endpoint!TokenStays(q[1], q[2]) /\ Endpoint!PortsAgree(q[1]))
  /\ If("catalog", Endpoint!ProbeSuits)
  /\ If("repository", Listing!RepoSound)
  /\ If("hops", Listing!HopsSound)
  /\ If("body", LAMBDA q : Listing!WholeBody(q[1], q[2]))
  /\ If("listing", Listing!SumSound)
=============================================================================

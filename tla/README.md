# A TLA+ model of toktop

toktop is a terminal dashboard for LLM engines and for the coding agents that
use them.  It scrapes engines over HTTP, samples the host, reads the token
counts that agents write to their own session files and databases, accepts
events pushed by harnesses, attaches to remote hosts over ssh, probes engines
with small generations, and updates and reloads itself.  This directory models
the parts of it in which several things happen at once or in an order nobody
chose, and the algorithms on whose corner cases the numbers on the screen
depend; it checks them with TLC on small instances, and proves almost all of the
safety properties with TLAPS for every value of the constants.

Paths are relative to the root of the repository.

## The system

| component | state | operations | hard because |
|---|---|---|---|
| transcript watcher, `agentusage/watch.go` | per file: offset, stamp, owner, baseline, contribution; the listing; the sample | `Watch`, `Run`/`poll`, `Poll`, `readNew`, `owns`, `forgetIdle` | files grow, rotate, age and fail between any two system calls |
| frame reader, `agentusage/dsh.go` | none of its own | `consumeZstd`, `ownsZstd` | frames are torn, the window is capped, an offset can be inside a frame |
| parsers, `agentusage/{claude,codex,qwen,json}.go` | none | `parse*`, `*SessionCwd` | per-message and cumulative counters, cwd per record or per session |
| database sources, `agentusage/{source,crush_sqlite,opencode_sqlite,sqlite}.go` | counters at attach, whether they were read | `read`, `sessions` | the snapshot fails and is retried, databases appear, sessions go, stamps are in seconds |
| discovery, `agentusage/{discover*,peers*,definitions}.go` | none | process and connection tables | platform I/O |
| agent follower, `internal/agentwatch` | tracker per PID, last reported sample, engine | `discover`, `report`, `stopOne`, `stopAll` | PID reuse, attach and stop order, a final poll against a ticker |
| collector, `internal/collector` | feed, probe ring, rates, history rings, caches, probe gate | `Run`, `emit`, `RecordAgent`, `RecordProbe`, `ProbeAll` | two locks, goroutines that outlive their call, a reader that lags, counters that fall |
| prober, `internal/probe` | none | `Run` | answers, errors, 429/503 with Retry-After |
| ingest, `internal/ingest` | none | `POST /v1/events` | events are recorded while the stream is decoded; senders retry, resume and trickle |
| remote client, `internal/remote/client.go` | connection, listeners, close channel, reason | `Connect`, `Run`, `Forward`, `Close`, `watchClose`, `keepalive` | shutdown against loss, peers that fall silent |
| targets, host keys, auth, `internal/remote/{target,knownhosts,auth}.go` | known-hosts file | `ParseTarget`, `tofu`, prompts | three sources of one setting, a file rewritten whole |
| self-update, `internal/selfupdate`; self-reload, `internal/selfreload` | files beside the binary | `Apply`, `install`; `Watch`, `Restart` | failure or kill between two renames, two updaters |
| screen, `internal/ui` | the frame shown, clock, pause, help, the probing marker | `Update`, `View` | messages in any order; rounded heights and widths that must sum |
| command line, `cmd/toktop` | none | `main`, `warnIgnoredFlags`, `validate*`, `waitForFrames` | many knobs, few of which act in each mode |
| providers, sysmon, gpu, procs, demo | caches at most | scraping, parsing | I/O |

How they interact: `agentwatch` builds one watcher per agent process and runs
each in a goroutine; its callbacks and the handlers of `ingest` call
`Collector.RecordAgent`.  The UI's `p` key and the `--probe` ticker call
`Collector.ProbeAll`, each from a goroutine of its own; the generations it
starts call `RecordProbe` when they end.  `emit` polls the providers side by
side, some of them through ports that the remote client forwards, copies
everything under one lock into a snapshot and sends it on a channel to the UI or
to `waitForFrames`.  `Discover` and `Stats` of `remote` run commands through the
client.  The reload watch ends the program that an update replaced.

What makes each part correct:

- watcher: a record of its directory written after the attach is counted, once;
  nothing else is; the sample never goes back;
- database sources: what is shown is a meter of what was spent since the attach;
- follower: growth is reported once, under the identity of the process that
  caused it, and none is lost when a process exits;
- collector: the feed and the rings hold the newest entries in order, a replayed
  event is not counted twice, a counter that falls yields no negative rate and one
  that was not read yields none, and a reader that stalls stalls nobody else;
- probes: one generation per key at a time, waits are respected, waves are
  spaced, keys are freed;
- ingest: what is acknowledged was recorded, no request outlives its deadline;
- remote client: a loss has its reason, no listener or goroutine outlives the
  client, a silent peer is found out;
- self-update: at every point there is a whole binary to start, and a session
  restarts into what was put there;
- screen: frames are shown in order, once, in a frame that fits; what a chart
  shows is what was measured;
- command line: a knob acts or is said not to.

## Modules

| module | models | composes |
|---|---|---|
| `TranscriptWatcher` | `watch.go` for file adapters, `dsh.go`, what parsers tell it | agents, the file system and the poller |
| `UsageSources` | the branch of `watch.go` for databases, `crush_sqlite.go`, `opencode_sqlite.go` | agents, databases and the poller |
| `UsageMeter` | abstract: the promise of a watcher | implemented by `TranscriptWatcher` and `UsageSources` |
| `AgentWatch` | `agentwatch.go` and `Watcher.Run`, over watchers that count | agents, the discovery loop and the goroutines of the trackers |
| `ProbeWaves` | `ProbeAll`, its goroutines, `RecordProbe`, the model left by `emit` | callers and generations at the collector's two locks |
| `EventFeed` | `RecordAgent`, the POST handler of `ingest/server.go` | senders, handlers and the follower at one feed |
| `EventLog` | abstract: a bounded log of the newest events, each once | implemented by `EventFeed` |
| `EngineRates` | `Run`, `emit`, `rates`, `timedRing`, the vitals cache, `OpenAICompat.Poll` | engines, the loop, the vitals sampler, `RecordAgent` and the reader |
| `RemoteClient` | `client.go`, `Stats.Run`, `attachRemote` | the client's goroutines, main's and the peer |
| `SelfUpdate` | `update.go`, `selfupdate.go`, `selfreload.go`, `runTUI` | updaters and a dashboard at one path |
| `Screen` | `Model.Update` and its commands, `waitForFrames` | the collector's frames, the keys, the runtime of the UI |
| `EventWire`, `Charts`, `Layout`, `CommandLine`, `Endpoints`, `Listings` | algorithms without state | |
| `Surface` | asks each of those for all bounded inputs | the six above |
| `*Proofs` | theorems about the module of their name; `RemoteAndUpdateProofs` about `RemoteClient` and `SelfUpdate`, `DashboardProofs` about `Screen` and `Surface` | |
| `MC*` | instances for TLC | |

### TranscriptWatcher

A line on disk is three units long: half of its body, the rest of its body, its
newline.  Sizes and offsets count units, so a write can be torn, a record can
be whole without its newline, and an offset can point inside a record.  What a
line says is its kind: `mine` and `other` for adapters whose records repeat the
working directory (claude, qwen, clanker), `headMine`, `headOther` and `use` for
those that read it from a session header (codex, copilot, dsh), and `junk`.  An adapter is
three booleans, `headerCwd`, `cumulative` and `zstd`; the runs take the five
combinations that the adapter table and `RegisterSpec` can build.

| code | model |
|---|---|
| `w.offsets`, `w.preexisting`, `w.stamps`, `w.owner`, `w.base`, `w.seen`, `w.total` | variables of the same names; a missing key is the value the code reads for it, or `Absent` where it tells the difference |
| `w.cached`, `w.scanned` | `cached`; `scanned` is FALSE for the zero time |
| a file's mtime | `gen`: only equality of stamps matters, and writes also change the size |
| `Watch` | `AttachStat` and `seedBaseline` per file of the walk, `AttachDone` |
| `Watcher.Poll` | `Poll` (forces the next listing), then a poll |
| `candidates`, `listTranscripts`, `forgetIdle` | `PollCached`, `PollRescan` |
| `readNew` | per file: `StatFails`, `Untouched`, `Undetermined`, `SkipForeign`, `LeaveUnread`, or `OpenFile` then `ReadFile` |
| `applyRecord` | `applyRecords` |
| the end of `poll` | `EndPoll` |
| agents writing, rotating, falling silent | `BeginLine`, `ExtendLine`, `Rewrite`, `Age` |

Writers interleave with every step of a poll, in particular between the stat
and the read of a file.  The stat and the owner check are one step, the read is
another: the owner check opens the file by itself and its verdict does not depend on
bytes appended since, only on the opening lines.  `mark`, `tracked`, `credit` and `used` are history:
the end of the file at attach, the files the watcher could know that end of,
how often each line's record was applied, and how much the agent has completed
since.

Assumptions about the world, each a guard:

- `StaysShort`: a transcript that was replaced is stat'ed while it is still
  shorter than what was read of its predecessor.  Polls come every 250 ms
  (`pollEvery`); if the assumption fails, the watcher goes on in the middle of
  the new session under the old verdict (a known limit, listed as a hazard).
- `Age`: `recencyWindow` is two minutes, so a file is looked at after a write
  before it ages out, and does not age between the stat and the read of one poll.
  A file that cannot be read for two minutes loses what was written meanwhile.
- `MayFollow`: usage follows the one header of a session; dsh writes the header
  frame first.
- A shared listing (another watcher of the root walked it within `rescanEvery`)
  may lack files written since the last look at them (`unpolled`); a forced one
  may not.

Properties: `CreditSound` (nothing twice, nothing foreign, nothing from before
the attach), `NeverInvents` (no more than the agent spent, per-message or
cumulative), `SkipHidesNothing` (a matching stamp hides no record),
`SampleCurrent`, `ImplementsMeter`, `EventuallyCounted`.  `tracked` leaves out files
whose end at attach the watcher did not learn: those that were older than
`recencyWindow` (see Disagreements), those whose stat failed, and those forgotten before their
owner was known.

`ImplementsMeter` is a refinement of `UsageMeter` over the output of all transcripts:
`Spent` (what their agents have completed since the attach) is due, the sample is
shown, every step of the watcher and of the writers raises one of the two or
neither, and neither counter of the sample goes back (`SampleMonotone`).  A transcript
that is not in `tracked` is taken at its word there: what was counted of it is due.

### UsageSources

A row is a session of crush or a message of opencode, in one of the databases on
the walk up from the project.  The clock counts half seconds, since crush's
trigger stamps whole ones and the cutoff of the query is in milliseconds.
`Write`, `Delete` and `Hide` are the agent and the file system; `Attach` takes
the snapshot of `Watch`, `LateBase` is the first poll that succeeds after one
that failed, `Poll` is `readSource` or `readSessionSource` with the comparison
in `poll`.  Counters are two, so that one can fall while the other grows.

`ImplementsMeter` is a refinement: with `due` the sum of what was written since
the attach (and what the snapshot could not see, `missed`), and `shown` the
sample, every step is one of `UsageMeter` or none.  `ReadingComplete` is its
other half: a reading that found all databases has all that is owed, with the
exceptions in its comment.

### AgentWatch

The transcripts of one tool in one directory are a counter, `spent`, and a watcher
is the promise that `TranscriptWatcher` is checked for: it counts what was added
since its attach (`base`), with a lag if it polled from a cached listing
(`Poll`, `End`), and with none if the listing was forced (`LastPoll`).  A final
poll that cannot read a file loses its growth; that case stays in `TranscriptWatcher`.
The four counters of a sample grow together here, as one number.

| code | model |
|---|---|
| `Run` | `Look` or, once canceled, `stopAll` and `RunReturns` |
| `discover` | `Look` (the process list), `Classify` (the first critical section), stops of `replaced`, `AttachNext`, `Attach` per process, `Launch`, stops of `exited`, `MatchingEndpoints`, `Label` (the last critical section) |
| `stopOne` | `StopNext` (cancel), the wait for the goroutine, `LastPoll`, `report` |
| a tracker's goroutine | `Poll`, `End` (the context is canceled), `report` |
| `report` | `report`: the growth since `last`, under `w.mu` |
| processes, their PIDs, their connections | `Start`, `Spend`, `Exit`, `Connect`, at any moment |

`stamped` is whether the platform reports start times; without them a process
that takes over the PID, tool and directory of another is followed as the same one.
`moved`, and `owed` and `bound` of a tracker, are history: the connections that
changed after the table was read, what the agent had spent when it exited, and
whether it was connected to an engine from the attach on.

### ProbeWaves

A caller of `ProbeAll` reads the targets under `c.mu`, takes its stamp with no
lock, and passes or fails the gate under `probeMu`: three steps, so callers
overtake each other.  A generation is a record in `gens` that goes through
`Answer` (`probe.Run` returned), `BackOff` (a 429 or 503, under `probeMu`), `RecordProbe`
(under `c.mu`) and `Release` (the deferred delete).  `Scrape` is what `emit`
does to `lastModel`; polls that fail leave it alone.  Samples are ordered by
time, address and model as `probeCmp` orders them.  The cancellation of the Run
context is one of the moments at which a generation may answer.  `promised` and
`recorded` are history.

### EventFeed

A sender has `Lines` events; a POST sends them from the first or, for senders
that resume, from the first it was not told is recorded.  The handler is three
steps per line at most: a read that brings bytes but no line (`Drip`, which
moves the deadline), `DecodeAndRecord`, and the answer, which may be lost.  An id is
the event's own (`Own`), or is derived from the `Idempotency-Key` and the position in
the stream (`Key`, `derivedEventID`), or absent.  `HasAgentID` compares ids and nothing
else, so ids are one space for all senders: in the run one line of each sender
has the same id, the first replays under a key, and the second resumes.

`RetriedOnce` says of which lines a retry leaves one (`Safe`): those with an id, those
replayed whole under a key, and those of a sender that resumes and has had all its answers.
A sender that resumes after an answer was lost sends again what it was not
told of, and one that resumes under the key of an earlier POST gives its first line the
id of another; neither is safe, and the code does not promise it.  `ToldIsRecorded` says
that a line is in the feed or an event that has its id is (`Stands`): the second is what
the code does where two lines share an id, see Disagreements.

Ids are compared as pairs of numbers and not as text, names of agents are
numbers and differ between senders, the last tie-break of `agentCmp` (the note) is left out,
and a key is as long as it is.  `ImplementsLog` is a refinement of
`EventLog`: of all events recorded the feed holds the newest `Cap`, and an id
that it holds is not recorded again.

### EngineRates

| code | model |
|---|---|
| `Run` | `Warm`, then `Emit` per tick, `Stop` |
| `emit` | `Emit` (starts the polls), `Poll` per engine, `PollsDone` (the clock and `c.mu`), `Build`, `Unlock`, `Send` |
| `rates` | `Increment`, `Grown`, `Shown`, `Baseline` |
| `timedRing` | `Push`, `NextHead`, `Copy` |
| `sampleSys`, `startSysPoller`, `sysSnapshot` | `SampleBegins`, `SampleEnds`, `Refresh`, `SysSnapshot` |
| `RecordAgent` | `RecordAgent`, which needs `c.mu` |
| engines, the reader of the channel | `Generate`, `Restart`, `Consume` |

The moving average is linear in the increments it is fed, so the model sums the
increments, each a rate times the time it stands for (`credit`), and leaves the weights
out.  The increment is the growth of the counter, unless the engine shows a gauge of
its own rate (`DirectOutPS`): then it is what the gauge says of the interval
(`Increment`, `Shown`).  `CreditExact` asks for just that of each interval, so that a gauge
that comes and goes neither adds to the growth of the counter nor loses an interval.
A polled engine answers, fails, or, if it is not vLLM, answers in part:
`/v1/models` or, for LM Studio and Lemonade, the native endpoint alone (`Answered`).
`emit` reads the clock once, after the polls (`stamp`).  An engine may have generated
before the start.  Input tokens, which have a counter of their own and no gauge, are left out.

### RemoteClient

One host.  `attachRemote` goes through `connect`, `list`, `probe`, `scan`,
`forward` and `identify`; `Stats.Run` polls beside it; the client's goroutines
are `keepalive`, `watchClose`, and a relay per port.  `stray` are the sessions
that `Run` and `probe` have abandoned at their timers and whose goroutines still
wait for the peer.  The peer falls silent, recovers, or drops the connection at
any moment.  `Close` is four steps, each of which the others may overtake.

### SelfUpdate

A file is an inode with an image.  On Windows a file that a process runs can be
renamed and not removed; on unix it can be both.  `Check`, `Sums`,
`CurrentAlready`, `download`, `verify`, `install`, `InstallMoved` and `Restore`
are the steps of `runUpdate` and `applyTo`; `Kill` may come between any two.
`Watch`, `Restart`, `Run` and `Quit` are a dashboard on the same path.

### Screen

A command (`waitSnap`, `tickClock`, `waitFeedErr`) is a goroutine that produces one
message; messages wait in `mail`, a set, so that they reach `Update` in any order,
and `Update` returns the command that runs next (`Reissued`).

### Surface and its modules

`EventWire` lets one count stand for the three of an event and one text for id, model,
engine and note; letter case and the composition of characters (NFC) are left out.  A
count of 2^63 becomes either end of the range, since its conversion from a float is
not defined.

`Surface` has one step: it asks one of the modules about one input of a bounded
set, and the invariants say what the answer must be.  Nothing is concurrent in
that code; what is hard is the corner.  `SurfaceAssumption` is that a chart has a
column: where there is no room for one, nothing is drawn (`spark.go:99`, `ui.go:1396`).

| module | inputs | expected |
|---|---|---|
| `EventWire` | requests by method and path, times in every unit and form, texts of 4 characters of 10 classes, lines with missing and wrong fields, names of two alphabets, counts around every bound | one log line per refused request and per POST; one instant whatever the unit; of an escape sequence nothing is left, up to its end or, without one, to the end of the text, and nothing ordinary is lost; every event has a name of one alphabet, a kind, texts that fit and counts within range |
| `Charts` | two engines with uneven histories, agent events, two cadences; panes; probe histories | each sample in exactly one column, both timescales agree on a sum, no span overflows the type, the rows of agents add up (`ChartsFaithful`); a column of probes holds the newest result of its time, and dots are as high as their values (`DrawnAsMeasured`) |
| `Layout` | panes of 61 and 62 columns and 1 to 70 rows, with every view, strip and card | a composed frame has its rows whatever it shows, header and panels fit, the heading of the probes is cut at the edge of the pane and not before a failure is named, the newest event and probe are visible, sensors are counted once, the footer offers the keys that act |
| `CommandLine` | 3 of 15 flags with 2 of 6 variables and a target or none, one of them unusable; pairs of words beside the flags for help and version | each knob and the targets act or are named as ignored, but for two sizes with `--once --plain`; no word is dropped, nothing unusable is run with |
| `Endpoints` | ssh_config of 4 lines, targets, contacts, password prompts, keys, URLs, model catalogs | the block of another host is not read, a key is remembered for its host, the first value wins, the password is asked for once and goes to every challenge that asks one hidden question and to no other, the token goes to its origin only |
| `Listings` | names of 5 characters, redirects, bodies, checksum lines | a name is an owner and a repository, a redirect stays with the hosts of downloads, a body over its limit is refused and not cut, a checksum is that of the asset |

## Runs

| run | bounds | distinct states | shows |
|---|---|---|---|
| `Transcript` | five adapters, 1 file, 2 lines, both in all and at attach, 1 rewrite, 1 fault | 855,537 | `CreditSound`, `NeverInvents`, `SkipHidesNothing`, `SampleCurrent`, `ImplementsMeter`, `EventuallyCounted` |
| `UsageSources` | 2 nested databases, 1 session each, 3 writes, a second of clock, both adapters | 1,790,334 | `ReadingComplete`, `ImplementsMeter` |
| `AgentWatch` | 2 pids, a readable key and another, 2 processes, 2 units each, both platforms | 6,003,050 | `NoOrphan`, `ReuseCountsOnce`, `NothingLost`, `LabelsSettled` |
| `AgentProgress` | 2 pids, 1 key, 2 processes, 1 unit, no engine | 71,646 | `EventuallyReported`, `EventuallyFollowed` |
| `ProbeWaves` | 1 backend, 2 models, 2 callers, gap 2, waits 1 and 2, ring of 1, time to 2 | 567,360 | `OneGeneration`, `BackoffRespected`, `Spaced`, `RetainsNewest`, `EventuallyFree` |
| `EventFeed` | 2 senders of 2 lines, one keyed, one resuming, with an id in common, 3 POSTs, 1 report, feed of 3 | 293,168 | `FeedSound`, `RetriedOnce`, `ToldIsRecorded`, `AlwaysEnds`, `ImplementsLog` |
| `EngineRates` | 1 vLLM engine with a gauge of 0 or 3, 1 token before the start and 1 after, 1 restart, 3 intervals, history of 2, channel of 1 | 354,496 | `CreditExact`, `RingInOrder`, `NeverStalls` |
| `EngineGaps` | the same with an engine of another kind, 2 tokens and no gauge | violation | `RatesAreDeltas` |
| `RemoteClient` | 1 port, 1 outage | 149,070 | `LossIsExplained`, `CloseComplete`, `NothingHangs` |
| `SelfUpdate` | 2 updaters, 2 releases, 4 starts, unix and Windows | 105,460 | `NeverBare`, `LandsInSession` |
| `Screen` | 3 frames, channel of 1, 2 seconds, marker of 1 | 84,222 | `ShownInOrder`, `NeverStale` |
| `Surface` | the inputs above | 616,888 | `WireSound`, `ChartsFaithful`, `DrawnAsMeasured`, `FramesFit`, `NothingIgnored`, `MeantForIt` |

The type invariant of a module is a conjunct of one of its properties where it
has no theorem of its own.

Why these bounds are enough.  Files meet only in the listing and in the sums, so
one file with every order of writes, faults and polls is where the per-file
properties can break; two lines are one before the offset and one across or
after it, and with `OwnerScanLines` 2 the header can be early, last or too late.
`TailFrames` 1 makes the cap bite as soon as two frames arrive together.  One
fault suffices, since each failure path restores the state it found.  With
`Files = {f1, f2}`, `MaxHistory` and `MaxLines` 1 and `MaxRewrites` 0 TLC also
goes through 2,922,668 states of the refinement for two transcripts; for any number it
is proved.  For the
databases, two nested paths are all that a walk can confuse, and three writes
put a row before, in and after the second of the attach.  For the probes, two
models of one backend give two keys, two callers give every overtaking, and a
ring of one is full at once; the run also passes with a ring of two, where
its order shows, and `KeepsNewest` holds for any length.  For the follower, two processes are one that is
followed and its successor, under the same PID or beside it; a third would only
repeat the pair, since a pass attaches and stops them one by one.  Two units let
a poll see growth in two parts.  For the feed, four events and a report overflow
a ring of three, and three POSTs are a failure, a replay and the other sender;
one id in common is a collision, with a keyed sender and with one that resumes.
Three intervals wrap a history of two and are an interval with a gauge between two
without; engines meet only in the frame, so one is enough.
Ports meet only in `listeners`.  Two updaters are a race.  A
channel of one is full after a frame, and a third frame can overtake a second.

Deadlock is not checked where the system may really stop: agents and senders
stop for good at their bounds, programs end, updates are over.  It is checked in
the probe run.

Fairness.
- `Transcript`: `Run`'s ticker polls for ever and each system call returns, so the
  reader's steps are weakly fair; `rescanEvery` passes again and again, so a walk
  of the store, complete at least sometimes, is strongly fair.  Agents are not
  fair: they may stop in the middle of a line.
- `ProbeWaves`: the HTTP client of a probe gives up after 30 s, so a generation
  always goes on; callers and the clock are not fair.
- `AgentProgress`: the discovery ticker and that of each tracker fire for ever,
  and a `select` with both a tick and a canceled context ready takes the latter
  in the end: `stopAll` and `End` are strongly fair.
- `EventFeed`: reads and writes have deadlines, so a handler goes on; senders owe
  nothing.
- `EngineRates`: the loop is scheduled, a scrape ends within `PollTimeout`, the
  first vitals sample returns, a free mutex is granted; the reader, the engines
  and a later vitals sample owe nothing.
- `RemoteClient`: goroutines that can run do, timers fire, requests to engines
  end; the peer, the network and who types a password owe nothing.  A `select`
  that finds `Done` ready again and again takes it (strong).
- `SelfUpdate`: the ticker of `Watch` and the restart; updaters owe nothing.
- `Screen`: time passes, commands run, and `Update` takes every kind of message
  in turn: the runtime's channel serves those who wait in the order they came
  (strong).  The collector and the user owe nothing.

## Findings

`EngineGaps`.  For every kind of engine but vLLM, `OpenAICompat.Poll` succeeds
when `/metrics` fails and `/v1/models` answers
(`internal/provider/openai.go:83`), and its totals are then 0.  `rates` takes the
0 for the engine's counter, keeps it as its baseline
(`internal/collector/collector.go:364`), and the next complete poll credits all
the engine generated in its life to one interval: a spike in the rate and in the
history, out of one request that timed out.  The comments promise "deltas since
the previous sample" (`collector.go:342`) of a "monotonic counter"
(`provider.go:34`).  For vLLM, which fails the poll instead, `CreditExact` holds.

## Disagreements

These properties are in the modules and no run lists them; each says what a
comment, a document or a test promises and fails if it is put into a
configuration.

| property | put it into | what happens |
|---|---|---|
| `TranscriptWatcher!OnlySinceAttach` | `Transcript.cfg` (invariant) | `Watch` records where transcripts end only for those written in the last two minutes (`candidates` passes the cutoff to the walk, `agentusage/watch.go:837`).  A session idle for longer and resumed after the attach is counted from byte 0, against `watch.go:21-25` and `:400-401` |
| `TranscriptWatcher!FramesEventuallyCounted` | `Transcript.cfg`, `Adapters <- FrameAdapters`, no rewrite and no fault (property) | an attach inside a half-written frame of a dsh log leaves the offset inside it, no later read finds a frame there, and the session is never counted, against `agentusage/dsh.go:123-127` |
| `ProbeWaves!OnePerBackend` | `ProbeWaves.cfg` (invariant) | in-flight keys and backoff name base and model; when the loaded model changes, a second wave sends that backend a generation while the first runs, against `internal/collector/collector.go:548` and `:578` |
| `AgentWatch!CountedOnce` | `AgentProgress.cfg` (invariant) | two agents of one tool in one directory, or one restarted there under a new PID (its predecessor is stopped after the attach), have a watcher each on the same transcripts and each report what either spends, against `internal/agentwatch/agentwatch.go:13-14` and `:210-211` |
| `AgentWatch!EveryEventMarked` | `AgentProgress.cfg` with `Linkable = {p1}` (property) | a new tracker polls at once and may report before connections are matched; that growth carries no engine and is added to the engine's, against `README.md:160` and `agentwatch_test.go:415` |
| `UsageSources!NeverInherits` | `UsageSources.cfg` (invariant) | a database that cannot be found or opened at the attach is not in the snapshot, which succeeds without it; when it comes back, all that its sessions ever spent is growth, against "A failed snapshot must not become an empty baseline" (`watch.go:409-412`) |
| `UsageSources!AllGrowthRead` | `UsageSources.cfg` (invariant) | a session last written by crush's trigger within the second of the attach is stamped before it and is not read, and a message that opencode began before the attach is not counted when it ends, against `agentusage/source.go:39` |
| `Layout!FooterLast` | `FramesFit` in `Surface`, for "model" | the frame that `composeFrame` returns is a row shorter than the pane, against "the footer sits on the last row" (`internal/ui/ui.go:1260`, `:1145`); `FramesFit` checks the row it does sit on |
| `Layout!ProbingSeen` | `FramesFit`, for "probed" | `probesTitle` is not limited to its panel, as `feedTitle` is, and `panel` clips no title: in a narrow pane the middle row is too wide, and `clipFrame` cuts at the edge of the pane what says that a probe is on its way, against "acknowledge the keypress immediately or it reads as dead" (`ui.go:902`) |
| `CommandLine!NoneSilent` | `NothingIgnored`, for "knobs" | `TOKTOP_COLUMNS` and `TOKTOP_LINES` have no effect with `--once --plain` and no warning says so, against `cmd/toktop/main.go:707-708` and `:748-751`; `KnobsCount` names this exception (`Sizes`) and no other |
| `Endpoints!ToldOnce` | `MeantForIt`, for "challenges" | a server that asks one hidden question after the other gets the password as the answer to each, a second factor among them, against "answering all of them with the same secret would send the password to every prompt" (`internal/remote/auth.go:136-139`), which is refused only within one challenge |

Smaller ones, read in the code and not stated as properties:

- `HasAgentID` (`internal/core/core.go:111`) compares ids across senders: the second
  of two that use one id or one `Idempotency-Key` is answered 202, "once every event in
  the stream is recorded" (`README.md:209`), while its line is dropped as a repeat,
  as `README.md:200` says of "a repeat of a key".  `ToldIsRecorded` holds with that
  second sentence in it (`Stands`) and fails without.
- A float that rounds to 2^63 passes the bound of `parseTokenJSON`
  (`internal/ingest/event.go:232`), and the conversion to an integer is then not
  defined; whatever it gives is clamped, so `WireSound` holds.
- Help names `p` in the view of agents alone, where it does nothing; a frame with
  more engines than half the panel has rows for cuts the rest without a count.
- A paused screen still changes with `feedDownMsg` and `t`; a second update
  between the exec and the first stat of `Watch` is never noticed by the session.
- The request time of a probe is the clock of the screen, which steps by seconds.
- An `--add` URL given twice is polled twice under one `providerKey`.
- ssh_config lines before the first `Host` are ignored; comments in known_hosts
  are dropped when a key is added, and its lock is of the process.
- Epoch times of 1970 to 1973 in milliseconds are read as seconds, and so on for
  smaller units.
- `Client.Run` waits in `NewSession` with neither timer nor context; only the
  loss of the connection ends it.

## Proofs

Of what the runs check, these hold for every value of the constants.

| module | theorem | states |
|---|---|---|
| `TranscriptWatcherProofs` | `CountsOnce`, `Invents`, `SkipsNothing`, `SamplesAll`, `SampleGrows`, `WatcherIsMeter` | `CreditSound`, `NeverInvents`, `SkipHidesNothing`, `SampleCurrent`, the refinement `ImplementsMeter` with its part `SampleMonotone` |
| `UsageSourcesProofs` | `ReadingsComplete`, `SourceIsMeter` | `ReadingComplete`, the refinement `ImplementsMeter` |
| `AgentWatchProofs` | `NoneLeftBehind`, `AllReported`, `LabelsAreRight`, `ReuseCounted` | `NoOrphan`, `NothingLost`, `LabelsSettled`, `ReuseCountsOnce` |
| `ProbeWavesProofs` | `SingleFlight`, `WaitsOutRetryAfter`, `WavesApart`, `KeepsNewest` | `OneGeneration`, `BackoffRespected`, `Spaced`, `RetainsNewest` |
| `EventFeedProofs` | `FeedIsSound`, `RetriesCountOnce`, `ToldOnlyRecorded`, `FeedIsLog` | `FeedSound`, `RetriedOnce`, `ToldIsRecorded`, the refinement `ImplementsLog` |
| `EngineRatesProofs` | `HistoriesRead`, `AllCredited` | `RingInOrder`, `CreditExact` |
| `RemoteAndUpdateProofs` | `ClosedForGood`, `LossHasItsReason`, `AlwaysRunnable`, `AlwaysInstalled` | `CloseComplete`, `LossIsExplained`, and `NeverBare` with its part `Runnable` |
| `DashboardProofs` | `FramesInOrder`, `WireIsSound`, `ColumnsAsMeasured`, `EveryFrameFits`, `NothingDropped`, `GoesWhereMeant` | `ShownInOrder`, `WireSound`, `DrawnAsMeasured`, `FramesFit`, `NothingIgnored`, `MeantForIt` |
| `EngineRatesProofs`, per engine | `CounterCredit` | the same for a vLLM engine among engines of any kind |
| `DashboardProofs`, per conversion | `TextSafe`, `PaneFrameFits`, `KnobsCount`, `HostsRemembered`, `SecretsKept`, `ProbesHeld`, `DotsDrawn` | what `Surface` asks of single conversions, for inputs of every size |

How each is proved, and why the property alone is not inductive:

- `TranscriptWatcher`.  `TypeCorrect` rests on `CommittedBounds` (a read never
  commits past the end of the file).  `WatchInvariant` is the invariant behind the
  rest.  `CreditSound` speaks of counts alone, and whether the next read counts a
  line again depends on where it begins.  `Position` therefore says that what is
  counted lies before the offset and that everything before it that was to be counted
  is; `Claimed` and `Refused` say what an owner verdict proves about the
  header; `Settled` says what a matching stamp vouches for; `Replaced`, that a rewritten
  file the watcher has not looked at yet gives itself away; and `Reading`,
  what the stat still means when the read comes, writers having gone on between the two.
  `CountsOnce` and `SkipsNothing` follow from it.  `Invents` compares numbers, of
  lines counted and of lines spent: `TallyInv` adds that what a file was credited and
  what is `Pending` in it together do not exceed what was spent, and for cumulative
  counters that the baseline is not below the lines `Old` at the attach.
  `SamplesAll` and `SampleGrows` add up over the transcripts: a sum is a fold, that
  is a function defined by recursion on sets, so that it exists, does not depend on the
  order, and grows with each term are lemmas here, proved by a smallest
  counterexample.  `WatcherIsMeter` puts them together: file by file what was counted
  was spent (`CountedIsSpent`), no step lowers what was spent (`SpentGrows`), and the
  end of a poll that grew is `Show`.
- `UsageSources`.  `SourceInvariant` is the balance of every row: what it holds was
  written since the attach, is in the baseline, or was missed by the snapshot, and all
  that was missed is at most `missed` (`Accounts`); a row that opencode created
  since the attach holds what was written since; and until a row is deleted all
  that was written since is still there (`Intact`).  From the first two
  a reading is at most what was spent and missed (`ReadingBound`), whichever databases are
  hidden at that moment; from the last it is at least what is owed for the rows it
  covers (`ReadingCovers`).  `SourceIsMeter` maps a poll that grew to `Show`, writes and
  baselines to `Due`, and everything else to a stutter.
- `AgentWatch`.  `NoOrphan` alone is not inductive: an attach overwrites the
  table's entry for a PID, so nothing may be there (`Free`, from `OnePerPid`), and a
  pass overwrites its queues, so they must be empty then (`Queues`).  `Placed`
  says that a tracker is in the table, in a queue or in `stopOne`, and in one of
  them only; an exit can therefore raise what a tracker owes (`Paid`) only while its
  goroutine still runs, and the forced poll pays it.  `PutKeeps` covers all steps that
  leave a tracker where it is.  `LabelsAreRight` needs what the connection table said
  while it is in use (`TableRead`), and `ReuseCounted` that the holders of a PID
  attach one after the other is stopped (`Succession`, `Handover`).
- `ProbeWaves`.  `OneGeneration` is inductive with the types: a wave claims the
  keys of the generations it starts, and a release frees a key whose only generation
  has ended.  `BackoffRespected` needs `Noted` (a key that is free has its promise
  in `probeBackoff`, or behind the last wave) and `AnsweredWait` (the promise of a
  generation that has answered but not backed off is at most its wait from now);
  `Spaced` needs `Bounded` (no stamp is later than the last wave let through).
  `KeepsNewest` needs that a sample is recorded once (`Unrecorded`, from single
  flight and the spacing of waves), and that inserting into a sorted ring and dropping its
  first leaves the newest (`InsertedIsRing`, `RetainedIsRing`).
- `EventFeed`.  Everything holds for any keys and ids of any senders, colliding
  ones included.  `Later` orders events strictly once the order of arrival breaks ties,
  so the feed is a strictly ordered sequence and insertion has one place.
  `Through` follows a request: lines before its position are recorded, which is what makes a
  resumed stream and an answer of 202 mean anything.  `FeedIsLog` maps `RecordAgent`,
  search, insertion and trim together, to one step of `EventLog`: the trimmed
  feed is the newest of what was there and the new event.
- `EngineRates`.  A reading is related to its engine by `Before`: within one epoch the
  count grew as the engine's life did, after a restart it is no more than that.  `Before`
  survives whatever the engine does next and composes from baseline to reading, which gives the
  credit (`CounterCredit`, for one vLLM engine among any).  Where the end of an interval
  shows a gauge both sides are what it says, and the baseline moves all the same.  `Ring` reads the
  ring from its head and finds the last samples pushed.
- `RemoteClient`.  `Close` looks at each thing
  once, so it is complete only because nothing is added behind it: it is called
  after `Forward` has returned (`Over`), each of its steps leaves what it achieved
  (`Achieved`), and `keepalive` never begins again.  A loss has its reason because what
  closed the client before the first `Close` was `watchClose` (`Explained`), which
  writes `err` with `closed`.
- `SelfUpdate`.  A download has an inode that nothing else has
  (`Fresh`, `Apart`), so replacing one name never changes the other.  On Windows the
  displaced file is removed before it is known that the image can be moved; that
  loses nothing because a running updater is itself run from one of the two files
  (`Held`), and when nothing is at the installed name that is the displaced one,
  which is then locked.  Without `Held`, `NeverBare` is not inductive.

- `Screen`.  `ShownInOrder` needs to know where every frame is.  `OneOut` says what
  `OneOfEach` counts: a command is a goroutine or its one message.  With it `Order` says that the channel
  holds the last frames made, in order, and that a frame that was handed over is older than
  those in the channel and no older than the one on the screen.  A second command of
  a kind would break that: the mutant of `ShownInOrder` adds it.
- `Surface`.  A state of it is a question, so that its invariants say something about
  every input of a bounded set.  Each is proved from lemmas about inputs of every
  size (`Seq`, `Nat`), of which the bounded ones are some (`Sensible`).
  The algorithms are walks and folds; three tools stand in for an induction over
  data.  A set of numbers that holds 0 and each successor is `Nat`
  (`AllNumbers`), and the invariant of a walk makes such a set.  A function that is
  defined by recursion over 0..N exists and satisfies its equation (`WalkExists`; `CleanExists`
  for the scan of a text from its end).  The sum over a set exists
  (`SumExists`).  The invariants behind the results: what is left of a text from any place
  on depends on what follows alone, and a second pass meets visible characters
  only (`Cleaning`, `OrdinaryStays`); the scan of two texts with the same end is the same
  there (`SkipsAlike`, `EndCleaned`), so that a text that begins with an OSC sequence is
  cleaned to what is left of its end (`PayloadDropped`); what was cleaned and cut is still clean, a
  default is taken after that and not before (`NamesSound`, `KindsSound`), and a count is in
  range after the clamp whatever the conversion gave (`CountsSound`); after each connection the known-hosts
  file holds exactly one line for each host met, with the key it had first (`TofuStep`);
  a password once asked for is known or not from then on, and was told to just the challenges that
  are not refused (`RefusedOnes`, `SecretsKept`); the first value of a key is not changed by what is
  appended (`FirstWins`); what each step of
  shedding leaves of a header (`ShedWell`); the heading of the probes, whose panel is the
  last, can only be cut at the edge of the pane (`PaneProbeTitleCut`); each flag, variable and
  target is in one of the sets of `KnobsCount` (`FlagsAccounted`, `EnvironmentAccounted`,
  `TargetsAccounted`); the results that a walk has passed at
  the end of a column are those that had landed by then, since their times are in order
  (`InOrder`, `ProbesHeld`).

All rest on the constants' assumptions (`WatcherAssumption`, `SourceAssumption`,
`AgentAssumption`, `ProbeAssumption`, `FeedAssumption`, `RatesAssumption`,
`ClientAssumption`, `UpdateAssumption`, `ScreenAssumption`, `SurfaceAssumption`), which TLC
evaluates on every run: bounds are numbers, sets of files, databases and ids are finite,
kinds are those of the code.

Only model-checked:

- liveness, since the prover has neither fairness nor ENABLED: `EventuallyCounted`,
  `EventuallyReported`, `EventuallyFollowed`, `EventuallyFree`, `AlwaysEnds`,
  `NeverStalls`, `NothingHangs`, `LandsInSession`, `NeverStale`.
  `NeverStalls` and `NothingHangs` also cover deadlock in the collector and the client;
- `Surface!ChartsFaithful`: the spans of the compressed chart are powers of two, for
  which the provers have no theory (`NoWrap`, `Tiled`), and that each sample is in one
  column exchanges two sums, one of them over a sequence filtered by `SelectSeq`, whose
  definition by recursion they cannot unfold (`Conserved`, `RatesAddUp`);
- that the questions of `Surface` are the ones worth asking: its theorems are about
  the inputs listed above, those in `DashboardProofs` that are about inputs of every size
  abstract characters, keys and names to the classes of their modules as well.

## Plan

1. `AgentWatch` composed with `UsageMeter` in place of its counter of a directory.
2. `RatesAreDeltas` restated for engines of other kinds: what a credit can be at
   most when a poll answers in part.  A half-written image in `SelfUpdate`, so that
   what a build writes in place can be started too early.
3. The parts of `ChartsFaithful`, over lemmas about powers of two and about sums of sums.

## Not modelled

- The parsing of JSON, of `/proc`, of vendor tools and of HTTP answers, the SQL of
  the database sources, colours and wording, the plain report, the ssh handshake
  itself, the demo generator, the website.  They are sequential, and the
  repository's unit and fuzz tests reach them.
- `GET /v1/events`, the shutdown of the ingest server, and the exact moment at
  which a context bounds a generation (`collector.go:564`): a generation may
  answer at any time.
- A rewrite that outgrows the old offset before the next stat, and a dsh frame
  larger than the window (`dsh.go:232`): the watcher stays in front of it.
- Saturation of counters (`satAdd`), path spellings (`dirVariants`) and symlink
  refusal (`openUnder`) are abstracted to their outcome: the file opens or it does
  not, the directory matches or it does not.
- On the command line: what a URL of `--add` must look like, `--` as the end of the
  flags, targets that cannot be parsed (`Endpoints` has them), an ingest address that is in
  use, unknown `TOKTOP_` variables, and the log of the configuration.
- Of a release: how the listing of checksums is read from its archive and its first MiB
  (`selfupdate.go:406-430`); `Listings` begins with its lines.
- What a database reports when it reports less than before, counter by counter
  (`watch.go:717`), and an image that is read while a build writes it
  (`selfreload.go:36`): `UsageMeter` and `SelfUpdate` are too coarse for them, as
  their hazards say.

----------------------------- MODULE AgentWatch -----------------------------
(***************************************************************************)
(* The follower of agent processes (internal/agentwatch/agentwatch.go).    *)
(* A discovery pass lists the agents that run, stops the trackers of those *)
(* that are gone, attaches a watcher to each new one, and notes which of   *)
(* them work through an engine that is monitored anyway.  Each tracker     *)
(* polls its watcher in a goroutine of its own and reports what grew; a    *)
(* stop cancels it, waits for it, and polls once more.                     *)
(*                                                                         *)
(* The transcripts of one tool in one directory are one counter here, and  *)
(* a watcher is what TranscriptWatcher shows it to be: a count of what was *)
(* added since its attach, which may lag unless the listing was forced.    *)
(***************************************************************************)
EXTENDS Integers, Sequences

CONSTANTS
  Pids,
  NoProcess,
  Keys,           \* a tool working in a directory
  Readable,       \* those whose usage can be watched
  Stamping,       \* whether the platform gives a start time: Linux does, macOS not
  Linkable,       \* pids of agents that use a monitored engine at times
  MaxStarts,      \* bound: agent processes ever started
  MaxSpend        \* bound: what the agents of one key spend

\* start 0 is the zero time.
Processes == [pid : Pids, key : Keys, start : 0..MaxStarts]

ASSUME AgentAssumption ==
  /\ NoProcess \notin Processes
  /\ Readable \subseteq Keys
  /\ Linkable \subseteq Pids
  /\ Stamping \subseteq BOOLEAN
  /\ MaxStarts \in Nat
  /\ MaxSpend \in Nat

VARIABLES
  \* The machine.
  stamped,       \* whether this platform gives a start time
  alive,         \* pid -> its agent process
  starts,        \* agent processes started so far
  spent,         \* key -> what its transcripts hold
  linked,        \* pids connected to a monitored engine
  \* The follower.
  tracked,       \* pid -> its tracker; 0: none
  trackers,      \* every tracker made so far
  stopping,      \* the tracker in stopOne; 0: none
  step,          \* where discover, or Run, is
  found, fresh,  \* processes listed, and those to attach to
  replaced, exited,   \* trackers to be stopped
  matched,       \* pids found connected to an engine
  done,          \* the context of Run is canceled
  \* History, read by the properties only.
  moved          \* pids whose connection changed since the table was read

machine == <<stamped, alive, starts, spent, linked, moved>>
pass == <<step, found, fresh, replaced, exited, matched>>
vars == <<machine, tracked, trackers, stopping, pass, done>>

NoTracker == 0
Made == DOMAIN trackers

\* proc, sample, last, via and canceled are the code's; base is what the watcher
\* does not count, run where its goroutine is.  owed (what its agent had spent when
\* it exited) and bound (the agent was linked at attach and ever since) are history.
Tracker(p) ==
  [proc |-> p, base |-> spent[p.key], sample |-> 0, last |-> 0, via |-> FALSE,
   canceled |-> FALSE, run |-> "attached",
   owed |-> spent[p.key], bound |-> alive[p.pid] # NoProcess /\ p.pid \in linked]

(***************************************************************************)
(* The machine                                                             *)
(***************************************************************************)
\* What the process list says of a process.
Listed(p) == IF stamped THEN p ELSE [p EXCEPT !.start = 0]

\* With no start time, the tool and the directory stand in.
sameProcess(old, new) ==
  /\ old.pid = new.pid
  /\ IF old.start # 0 /\ new.start # 0 THEN old.start = new.start ELSE old.key = new.key

TracksAgentOf(t, pid) == tracked[pid] = t /\ sameProcess(trackers[t].proc, Listed(alive[pid]))

Start(pid, key) ==
  /\ alive[pid] = NoProcess
  /\ starts < MaxStarts
  /\ starts' = starts + 1
  /\ alive' = [alive EXCEPT ![pid] = [pid |-> pid, key |-> key, start |-> starts + 1]]
  /\ UNCHANGED <<stamped, spent, linked, moved, tracked, trackers, stopping, pass, done>>

\* The agent has written a usage record to its transcript.
Spend(pid) ==
  /\ alive[pid] # NoProcess
  /\ spent[alive[pid].key] < MaxSpend
  /\ spent' = [spent EXCEPT ![alive[pid].key] = @ + 1]
  /\ UNCHANGED <<stamped, alive, starts, linked, moved, tracked, trackers, stopping, pass,
                 done>>

\* Reading the table forgets what moved, so it is noted only from there to the next pass.
MovedBy(pid) == IF step \in {"match", "idle"} THEN moved \cup {pid} ELSE moved

Exit(pid) ==
  /\ alive[pid] # NoProcess
  /\ alive' = [alive EXCEPT ![pid] = NoProcess]
  /\ linked' = linked \ {pid}
  /\ moved' = MovedBy(pid)
  /\ trackers' = [t \in Made |->
       IF TracksAgentOf(t, pid)
       THEN [trackers[t] EXCEPT !.owed = spent[trackers[t].proc.key], !.bound = FALSE]
       ELSE trackers[t]]
  /\ UNCHANGED <<stamped, starts, spent, tracked, stopping, pass, done>>

\* An agent connects to an engine after it started, and may leave it again.
Connect(pid) ==
  /\ pid \in Linkable
  /\ alive[pid] # NoProcess
  /\ linked' = IF pid \in linked THEN linked \ {pid} ELSE linked \cup {pid}
  /\ moved' = MovedBy(pid)
  /\ trackers' = [t \in Made |->
       IF tracked[pid] = t THEN [trackers[t] EXCEPT !.bound = FALSE] ELSE trackers[t]]
  /\ UNCHANGED <<stamped, alive, starts, spent, tracked, stopping, pass, done>>

Cancel ==
  /\ ~done
  /\ done' = TRUE
  /\ UNCHANGED <<machine, tracked, trackers, stopping, pass>>

(***************************************************************************)
(* One discovery pass                                                      *)
(***************************************************************************)
Look ==
  /\ step = "idle"
  /\ found' = {Listed(alive[pid]) : pid \in {p \in Pids : alive[p] # NoProcess}}
  /\ step' = "listed"
  /\ moved' = {}
  /\ UNCHANGED <<stamped, alive, starts, spent, linked, tracked, trackers, stopping, fresh, replaced, exited, matched, done>>

Seen(p) == tracked[p.pid] # NoTracker

\* The PID is that of another process now.
Reused(p) == Seen(p) /\ ~sameProcess(trackers[tracked[p.pid]].proc, p)

\* A plausible bug: the tracker of a reused PID is dropped and never stopped.
Forgotten == {}

Replaced == {tracked[p.pid] : p \in {q \in found : Reused(q)}}

\* A plausible bug: a PID is taken for gone that was never followed.
NotListed == {tracked[pid] : pid \in {p \in Pids : \A q \in found : q.pid # p}}

Gone == {tracked[pid] : pid \in {p \in Pids :
           tracked[p] # NoTracker /\ \A q \in found : q.pid # p}}

\* Under w.mu.
Classify ==
  /\ step = "listed"
  /\ fresh' = {p \in found : ~Seen(p) \/ Reused(p)}
  /\ replaced' = Replaced
  /\ exited' = Gone
  /\ tracked' = [pid \in Pids |->
       IF \E p \in found : p.pid = pid /\ ~Reused(p) THEN tracked[pid] ELSE NoTracker]
  /\ found' = {}
  /\ step' = "replace"
  /\ UNCHANGED <<machine, trackers, stopping, matched, done>>

\* A plausible bug: new agents are attached to while old trackers still run.
AttachAtOnce == stopping = NoTracker

\* The trackers of reused PIDs are stopped before their successors attach.
Stopped == replaced = {} /\ stopping = NoTracker

AttachNext ==
  /\ step = "replace"
  /\ Stopped
  /\ step' = "attach"
  /\ UNCHANGED <<machine, tracked, trackers, stopping, found, fresh, replaced, exited,
                 matched, done>>

\* Process.Watch, then the insert under w.mu.  An agent with nothing to read gets
\* no tracker.  Only this goroutine inserts, so the PID is free.
Attach(p) ==
  /\ step = "attach"
  /\ p \in fresh
  /\ fresh' = fresh \ {p}
  /\ IF p.key \in Readable
     THEN /\ tracked' = [tracked EXCEPT ![p.pid] = Len(trackers) + 1]
          /\ trackers' = Append(trackers, Tracker(p))
     ELSE UNCHANGED <<tracked, trackers>>
  /\ UNCHANGED <<machine, stopping, step, found, replaced, exited, matched, done>>

\* The goroutines of the new trackers.
Launch ==
  /\ step = "attach"
  /\ fresh = {}
  /\ trackers' = [t \in Made |-> IF trackers[t].run = "attached"
                                 THEN [trackers[t] EXCEPT !.run = "polling"] ELSE trackers[t]]
  /\ step' = "exit"
  /\ UNCHANGED <<machine, tracked, stopping, found, fresh, replaced, exited, matched, done>>

\* The connection table is read, with no lock held.
MatchingEndpoints ==
  /\ step = "exit"
  /\ exited = {}
  /\ stopping = NoTracker
  /\ matched' = {pid \in linked : tracked[pid] # NoTracker}
  /\ step' = "match"
  /\ UNCHANGED <<machine, tracked, trackers, stopping, found, fresh, replaced, exited, done>>

\* A plausible bug: a label, once given, is kept.
KeptLabel(pid) == trackers[tracked[pid]].via \/ pid \in matched

Labelled(pid) == pid \in matched

\* Under w.mu.
Label ==
  /\ step = "match"
  /\ trackers' = [t \in Made |->
       IF tracked[trackers[t].proc.pid] = t
       THEN [trackers[t] EXCEPT !.via = Labelled(trackers[t].proc.pid)] ELSE trackers[t]]
  /\ matched' = {}
  /\ step' = "idle"
  /\ UNCHANGED <<machine, tracked, stopping, found, fresh, replaced, exited, done>>

\* Under w.mu, once the context is canceled.
stopAll ==
  /\ step = "idle"
  /\ done
  /\ exited' = {tracked[pid] : pid \in Pids} \ {NoTracker}
  /\ tracked' = [pid \in Pids |-> NoTracker]
  /\ step' = "closing"
  /\ UNCHANGED <<machine, trackers, stopping, found, fresh, replaced, matched, done>>

RunReturns ==
  /\ step = "closing"
  /\ exited = {}
  /\ stopping = NoTracker
  /\ step' = "off"
  /\ UNCHANGED <<machine, tracked, trackers, stopping, found, fresh, replaced, exited,
                 matched, done>>

(***************************************************************************)
(* stopOne                                                                 *)
(***************************************************************************)
StopNext(t) ==
  /\ stopping = NoTracker
  /\ \/ step = "replace" /\ t \in replaced
     \/ step \in {"exit", "closing"} /\ t \in exited
  /\ stopping' = t
  /\ trackers' = [trackers EXCEPT ![t].canceled = TRUE]
  /\ replaced' = replaced \ {t}
  /\ exited' = exited \ {t}
  /\ UNCHANGED <<machine, tracked, step, found, fresh, matched, done>>

Growth(t) == spent[trackers[t].proc.key] - trackers[t].base

\* A plausible bug: the last poll works from the cached listing, and may see nothing.
CachedPoll(t) == trackers[t].sample..Growth(t)

ForcedPoll(t) == {Growth(t)}

\* The goroutine has ended; Poll walks the store again.
LastPoll(t) ==
  /\ stopping = t
  /\ trackers[t].run = "finished"
  /\ \E s \in ForcedPoll(t) :
       trackers' = [trackers EXCEPT ![t].sample = s, ![t].run = "final"]
  /\ UNCHANGED <<machine, tracked, stopping, pass, done>>

(***************************************************************************)
(* The goroutine of a tracker                                              *)
(***************************************************************************)
Poll(t) ==
  /\ trackers[t].run = "polling"
  /\ \E s \in (trackers[t].sample + 1)..Growth(t) :
       trackers' = [trackers EXCEPT ![t].sample = s, ![t].run = "report"]
  /\ UNCHANGED <<machine, tracked, stopping, pass, done>>

\* A plausible bug: stopOne waits for a goroutine that only Run's context ends.
RunCanceled(t) == done

Canceled(t) == trackers[t].canceled \/ done

\* One last read, so the tail of a run is not lost.
End(t) ==
  /\ trackers[t].run = "polling"
  /\ Canceled(t)
  /\ \E s \in trackers[t].sample..Growth(t) :
       trackers' = [trackers EXCEPT ![t].sample = s,
                      ![t].run = IF s > trackers[t].sample THEN "lastReport" ELSE "finished"]
  /\ UNCHANGED <<machine, tracked, stopping, pass, done>>

Grown(t) == trackers[t].sample > trackers[t].last

\* What the recorder is given: the growth since the last report, with the engine or
\* without one.  Under w.mu.
Reported(t) ==
  LET k == trackers[t] IN
  IF ~Grown(t) THEN k
  ELSE [k EXCEPT !.last = k.sample]

AfterReport == [report |-> "polling", lastReport |-> "finished", final |-> "stopped"]

report(t) ==
  /\ trackers[t].run \in DOMAIN AfterReport
  /\ trackers' = [trackers EXCEPT ![t] =
       [Reported(t) EXCEPT !.run = AfterReport[trackers[t].run]]]
  /\ stopping' = IF trackers[t].run = "final" THEN NoTracker ELSE stopping
  /\ UNCHANGED <<machine, tracked, pass, done>>

-----------------------------------------------------------------------------
Init ==
  /\ stamped \in Stamping
  /\ alive = [pid \in Pids |-> NoProcess]
  /\ starts = 0
  /\ spent = [key \in Keys |-> 0]
  /\ linked = {}
  /\ tracked = [pid \in Pids |-> NoTracker]
  /\ trackers = <<>>
  /\ stopping = NoTracker
  /\ step = "idle"
  /\ found = {}
  /\ fresh = {}
  /\ replaced = {}
  /\ exited = {}
  /\ matched = {}
  /\ done = FALSE
  /\ moved = {}

Machine ==
  \/ \E pid \in Pids : (\E key \in Keys : Start(pid, key)) \/ Spend(pid) \/ Exit(pid)
                       \/ Connect(pid)
  \/ Cancel

discover ==
  \/ Look
  \/ Classify
  \/ AttachNext
  \/ \E p \in fresh : Attach(p)
  \/ Launch
  \/ MatchingEndpoints
  \/ Label

stopOne(t) == StopNext(t) \/ LastPoll(t)

Goroutine(t) == Poll(t) \/ End(t) \/ report(t)

Next ==
  \/ Machine
  \/ discover
  \/ stopAll
  \/ RunReturns
  \/ \E t \in Made : stopOne(t) \/ Goroutine(t)

Spec == Init /\ [][Next]_vars

\* The ticker of Run and that of each watcher fire for ever, a poll returns, and
\* select takes the canceled context in the end although the ticker is ready too.
Fairness ==
  /\ WF_vars(discover)
  /\ WF_vars(RunReturns)
  /\ SF_vars(stopAll)
  /\ \A t \in 1..MaxStarts :
       /\ WF_vars(t \in Made /\ stopOne(t))
       /\ WF_vars(t \in Made /\ Goroutine(t))
       /\ SF_vars(t \in Made /\ End(t))

FairSpec == Spec /\ Fairness

(***************************************************************************)
(* Properties                                                              *)
(***************************************************************************)
Trackers ==
  [proc : Processes, base : 0..MaxSpend, sample : 0..MaxSpend, last : 0..MaxSpend,
   via : BOOLEAN, canceled : BOOLEAN,
   run : {"attached", "polling", "report", "lastReport", "finished", "final", "stopped"},
   owed : 0..MaxSpend, bound : BOOLEAN]

TypeOK ==
  /\ stamped \in Stamping
  /\ alive \in [Pids -> Processes \cup {NoProcess}]
  /\ starts \in 0..MaxStarts
  /\ spent \in [Keys -> 0..MaxSpend]
  /\ linked \subseteq Pids
  /\ moved \subseteq Pids
  /\ trackers \in Seq(Trackers)
  /\ tracked \in [Pids -> Made \cup {NoTracker}]
  /\ stopping \in Made \cup {NoTracker}
  /\ step \in {"idle", "listed", "replace", "attach", "exit", "match", "closing", "off"}
  /\ found \subseteq Processes
  /\ fresh \subseteq Processes
  /\ replaced \subseteq Made
  /\ exited \subseteq Made
  /\ matched \subseteq Pids
  /\ done \in BOOLEAN

Following(t) == trackers[t].run \notin {"final", "stopped"}

\* No goroutine is left behind: a tracker that is not stopped is that of its own PID,
\* or waits to be stopped, by this pass or by the return of Run (TestForgetsExitedAgents
\* and TestPIDReuseRetargetsWatcher look at one tracker each).
NoOrphan ==
  \A t \in Made : trackers[t].run # "stopped" =>
    \/ tracked[trackers[t].proc.pid] = t
    \/ t \in replaced \cup exited \cup {stopping}

\* What a tracker has told the recorder, as a part of what its key has spent.
Interval(t) == (trackers[t].base + 1)..(trackers[t].base + trackers[t].last)

ReadTheSame(t, u) == t # u /\ trackers[t].proc.key = trackers[u].proc.key

\* A PID that passes to another process of the same tool and directory does not make
\* any usage count twice, although both are followed (discover, agentwatch.go:210).
ReuseCountsOnce ==
  \A t, u \in Made :
    ReadTheSame(t, u) /\ trackers[t].proc.pid = trackers[u].proc.pid
      => Interval(t) \cap Interval(u) = {}

\* The last records of an agent land when it is gone; by the end of stopOne all of
\* them were reported, whichever polls saw them (Watcher.Poll, watch.go:662).
NothingLost ==
  \A t \in Made : trackers[t].run = "stopped"
    => trackers[t].base + trackers[t].last >= trackers[t].owed

\* Between passes, an agent is labelled with an engine exactly if it is connected to
\* one, unless that changed after the table was read: a label neither outlives the
\* connection nor passes to another agent.
LabelsSettled ==
  step = "idle" => \A pid \in Pids \ moved : tracked[pid] # NoTracker =>
                     (trackers[tracked[pid]].via <=> pid \in linked)

\* Growth reaches the recorder, the last of it after its agent is gone, also if its tracker is stopped meanwhile.
EventuallyReported ==
  \A t \in 1..MaxStarts : \A n \in 1..MaxSpend :
    t \in Made /\ Following(t) /\ Growth(t) >= n ~> t \in Made /\ trackers[t].last >= n

\* A readable agent that goes on running is followed in the end, whatever the other
\* trackers are doing: no stop blocks discovery for good.
EventuallyFollowed ==
  \A pid \in Pids : \A key \in Readable :
    alive[pid] # NoProcess /\ alive[pid].key = key
      ~> \/ done
         \/ alive[pid] = NoProcess
         \/ tracked[pid] # NoTracker /\ trackers[tracked[pid]].proc.key = key

\* What the package promises (agentwatch.go:13-14): "every number came from an agent that
\* reported it", so the trackers of one key never report the same usage twice.
\* (Does not hold: README, Disagreements.)
CountedOnce ==
  \A t, u \in Made : ReadTheSame(t, u) => Interval(t) \cap Interval(u) = {}

\* What TestEngineTakesPrecedence says (agentwatch_test.go:415): "every event is marked
\* ViaEngine" if the agent was connected to an engine all the time.  (Does not hold: README, Disagreements.)
EveryEventMarked ==
  [][\A t \in Made : trackers[t].last' # trackers[t].last /\ trackers[t].bound
       => trackers[t].via]_vars

=============================================================================

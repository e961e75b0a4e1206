------------------------------- MODULE Screen -------------------------------
(***************************************************************************)
(* The reader of the snapshot channel (internal/ui/ui.go Init and Update,  *)
(* runOnce in cmd/toktop/main.go).  The dashboard is a loop over messages. *)
(* Commands wait for a frame, a second, or the death of the ingest         *)
(* endpoint, each in a goroutine of its own, and hand one message over in  *)
(* whatever order they are scheduled; a command runs again only when       *)
(* Update returns it.  With --once a plain loop reads the channel instead. *)
(*                                                                         *)
(* What a frame looks like on the screen is in Layout and Charts; here it  *)
(* is a number, its time, and the newest probe result in it.               *)
(***************************************************************************)
EXTENDS Integers, Sequences, FiniteSets

CONSTANTS
  Buffer,         \* capacity of the snapshot channel
  MarkerLife,     \* seconds until the "probing" marker gives up
  Wanted,         \* --frames
  MaxTime,        \* bound: the clock
  MaxFrames       \* bound: frames of the collector

ASSUME ScreenAssumption ==
  /\ Buffer \in Nat \ {0} /\ MarkerLife \in Nat /\ Wanted \in Nat \ {0}
  /\ MaxTime \in Nat /\ MaxFrames \in Nat

VARIABLES
  mode,           \* live or once
  now, made,      \* the time; frames made so far
  queue,          \* the snapshot channel
  waiting,        \* command -> goroutines that wait to produce its message
  mail,           \* messages produced and not yet in Update
  ui,             \* the Model
  prober,         \* [asked: ProbeAll calls running, newest: time of the newest result]
  feed,           \* the ingest endpoint: up, or down and in the channel, or told
  once            \* --once: frames still wanted, and how it ended

collector == <<now, made, queue>>
vars == <<mode, collector, waiting, mail, ui, prober, feed, once>>

Commands == {"snap", "tick", "down"}
Blank == [kind |-> "snap", no |-> 0, at |-> 0, probe |-> 0]

(***************************************************************************)
(* What the screen reads                                                   *)
(***************************************************************************)
Second == now < MaxTime /\ now' = now + 1
          /\ UNCHANGED <<mode, made, queue, waiting, mail, ui, prober, feed, once>>

\* emit, as EngineRates has it: the frame has the probe results of its time, and
\* an engine to probe.
Frame ==
  /\ made < MaxFrames /\ Len(queue) < Buffer
  /\ made' = made + 1
  /\ queue' = Append(queue, [kind |-> "snap", no |-> made + 1, at |-> now, probe |-> prober.newest])
  /\ UNCHANGED <<mode, now, waiting, mail, ui, prober, feed, once>>

\* A generation that was asked for ends, and is recorded.
ProbeLands ==
  /\ prober.asked > 0
  /\ prober' = [asked |-> prober.asked - 1, newest |-> now]
  /\ UNCHANGED <<mode, collector, waiting, mail, ui, feed, once>>

FeedDies == feed = "up" /\ feed' = "down"
            /\ UNCHANGED <<mode, collector, waiting, mail, ui, prober, once>>

(***************************************************************************)
(* Commands                                                                *)
(***************************************************************************)
Deliver(c, msg) ==
  /\ mode = "live" /\ waiting[c] > 0
  /\ waiting' = [waiting EXCEPT ![c] = @ - 1]
  /\ mail' = mail \cup {msg}
  /\ UNCHANGED <<mode, now, made, ui, prober, once>>

waitSnap == queue # <<>> /\ Deliver("snap", Head(queue))
            /\ queue' = Tail(queue) /\ UNCHANGED feed

tickClock == Deliver("tick", [Blank EXCEPT !.kind = "tick", !.at = now])
             /\ UNCHANGED <<queue, feed>>

waitFeedErr == feed = "down" /\ Deliver("down", [Blank EXCEPT !.kind = "down"])
               /\ feed' = "told" /\ UNCHANGED queue

(***************************************************************************)
(* Update                                                                  *)
(***************************************************************************)
\* A plausible bug: a tick asks for a frame too, to keep the screen fresh.
ReissuedTwice(kind) == IF kind = "tick" THEN {"tick", "snap"} ELSE {kind}

\* A plausible bug: a paused screen does not ask for the next frame.
ReissuedUnlessPaused(kind) == IF kind = "snap" /\ ui.paused THEN {} ELSE {kind}

\* Every message is answered with the command it came from.
Reissued(kind) == {kind}

\* A plausible bug: the age is taken from the frame, which may be the last one.
ExpiredByFrame(clock) == ui.shown.at - ui.probeReq > MarkerLife

Expired(clock) == clock - ui.probeReq > MarkerLife

\* The clock of a paused screen stands still, and with it the marker's age.
OnTick(msg) ==
  LET clock == IF ui.paused THEN ui.clock ELSE msg.at IN
  [ui EXCEPT !.clock = clock,
             !.probing = @ /\ ~Expired(clock)]

\* The first result newer than the request takes the marker down.
OnSnap(msg) ==
  IF ui.paused THEN ui
  ELSE [ui EXCEPT !.shown = msg, !.probing = @ /\ ~(msg.probe > ui.probeReq)]

Update ==
  /\ ~ui.quit
  /\ \E msg \in mail :
       /\ mail' = mail \ {msg}
       /\ waiting' = [c \in Commands |-> waiting[c] + IF c \in Reissued(msg.kind) THEN 1 ELSE 0]
       /\ ui' = CASE msg.kind = "tick" -> OnTick(msg)
                  [] msg.kind = "snap" -> OnSnap(msg)
                  [] OTHER -> [ui EXCEPT !.down = TRUE]
  /\ UNCHANGED <<mode, collector, prober, feed, once>>

\* Help covers the dashboard: only its own keys and those that leave it act.
Key(k) ==
  /\ mode = "live" /\ ~ui.quit
  /\ \/ k = "quit" /\ ui' = IF ui.help THEN [ui EXCEPT !.help = FALSE] ELSE [ui EXCEPT !.quit = TRUE]
     \/ k = "help" /\ ui' = [ui EXCEPT !.help = ~@]
     \/ k = "pause" /\ ~ui.help /\ ui' = [ui EXCEPT !.paused = ~@]
  /\ UNCHANGED <<mode, collector, waiting, mail, prober, feed, once>>

\* p: not before a frame showed engines to probe.  (Bound: not so late that the marker's
\* end is out of the bound of the clock, and one at a time.)
KeyProbe ==
  /\ mode = "live" /\ ~ui.quit /\ ~ui.help
  /\ ui.shown.no > 0 /\ prober.asked = 0
  /\ now + MarkerLife < MaxTime
  /\ prober' = [prober EXCEPT !.asked = @ + 1]
  /\ ui' = [ui EXCEPT !.probing = TRUE, !.probeReq = ui.clock]
  /\ UNCHANGED <<mode, collector, waiting, mail, feed, once>>

(***************************************************************************)
(* --once                                                                  *)
(***************************************************************************)
\* Each frame has a wait of its own; the signal and the timer end it early.
waitForFrames ==
  /\ mode = "once" /\ once.ended = "no"
  /\ \/ /\ queue # <<>> /\ queue' = Tail(queue)
        /\ once' = [left |-> once.left - 1, shown |-> Head(queue).no,
                    ended |-> IF once.left = 1 THEN "printed" ELSE "no"]
     \/ /\ \E why \in {"interrupted", "timeout"} : once' = [once EXCEPT !.ended = why]
        /\ UNCHANGED queue
  /\ UNCHANGED <<mode, now, made, waiting, mail, ui, prober, feed>>

Init ==
  /\ mode \in {"live", "once"}
  /\ now = 0 /\ made = 0 /\ queue = <<>>
  /\ waiting = [c \in Commands |-> 1]
  /\ mail = {}
  /\ ui = [paused |-> FALSE, help |-> FALSE, quit |-> FALSE, clock |-> 0, shown |-> Blank,
           probing |-> FALSE, probeReq |-> 0, down |-> FALSE]
  /\ prober = [asked |-> 0, newest |-> 0]
  /\ feed = "up"
  /\ once = [left |-> Wanted, shown |-> 0, ended |-> "no"]

Next ==
  \/ Second \/ Frame \/ ProbeLands \/ FeedDies
  \/ waitSnap \/ tickClock \/ waitFeedErr \/ Update
  \/ \E k \in {"quit", "help", "pause"} : Key(k)
  \/ KeyProbe
  \/ waitForFrames

\* Time passes, goroutines run, and Update takes every kind of message in turn.
\* Nothing makes the collector send or the user press a key.
Took(kind) == Update /\ \E msg \in mail \ mail' : msg.kind = kind
Fairness ==
  /\ WF_vars(Second) /\ WF_vars(waitSnap) /\ WF_vars(tickClock) /\ WF_vars(waitFeedErr)
  /\ \A c \in Commands : SF_vars(Took(c))
  /\ WF_vars(waitForFrames)

Spec == Init /\ [][Next]_vars /\ Fairness

(***************************************************************************)
(* Properties                                                              *)
(***************************************************************************)
TypeOK ==
  /\ mode \in {"live", "once"} /\ now \in 0..MaxTime /\ made \in 0..MaxFrames
  /\ Len(queue) <= Buffer
  /\ \A c \in Commands : waiting[c] \in 0..1
  /\ feed \in {"up", "down", "told"}
  /\ once.left \in 0..Wanted /\ once.ended \in {"no", "printed", "interrupted", "timeout"}

\* Each command is out exactly once, as a goroutine or as its message: none is lost, and
\* no two wait for frames that they could hand over in the wrong order (Update).
OneOfEach ==
  /\ TypeOK
  /\ \A c \in Commands : waiting[c] + Cardinality({msg \in mail : msg.kind = c}) = 1

\* No command is lost or doubled, the frames on the screen never go back, and a paused
\* one stays (Update, waitSnap).
ShownInOrder ==
  [][/\ OneOfEach'
     /\ ui'.shown.no >= ui.shown.no
     /\ ui.paused => ui'.shown = ui.shown]_vars

\* The channel is drained although the screen is paused or covered by help, so that
\* the collector goes on; a dead endpoint is told (FeedErr: "would advertise a dead
\* endpoint forever"); a probe that no engine answers does not leave its marker up
\* ("would leave the probing marker up forever"); --once ends though no frame comes.
NeverStale ==
  /\ (mode = "live" /\ Len(queue) = Buffer) ~> (Len(queue) < Buffer \/ ui.quit)
  /\ (mode = "live" /\ feed = "down") ~> (ui.down \/ ui.quit)
  /\ ui.probing ~> (~ui.probing \/ ui.paused \/ ui.quit)
  /\ (mode = "once") ~> (once.ended # "no")
=============================================================================

---------------------------- MODULE RemoteClient ----------------------------
(***************************************************************************)
(* One host attached over ssh (internal/remote/client.go, stats.go Run,    *)
(* attachRemote in cmd/toktop/main.go): attachRemote connects, lists the   *)
(* ports, forwards them and starts the goroutine that closes the client.   *)
(* Against it run the goroutines of the client (keepalive, watchClose, the *)
(* relays), the vitals poller, and a peer that may stop answering, come    *)
(* back, or drop the connection.                                           *)
(*                                                                         *)
(* What a goroutine does between two points where it can wait or be        *)
(* overtaken is one step.  A timer may fire as soon as it is set.          *)
(***************************************************************************)
EXTENDS Integers, FiniteSets

CONSTANTS
  Ports,          \* remote ports worth forwarding
  MaxOutages      \* bound: times the peer falls silent

ASSUME ClientAssumption == IsFiniteSet(Ports) /\ MaxOutages \in Nat

Callers == {"attach", "stats"}     \* who calls Client.Run

VARIABLES
  ctx,            \* the context of the program was cancelled
  peer, outages,
  conn,           \* none, banner, auth, up, down
  attach,         \* where attachRemote is
  watcher,        \* its goroutine: none, wait, close, done
  told,           \* the reason it printed
  run,            \* caller of Run -> idle, opening, running
  stray,          \* goroutines left waiting for an answer, by kind
  bound,          \* ports whose local listener is open
  relay,          \* port -> the connection being relayed: none, dialing, piped
  closed, err,    \* Client.closed, Client.err
  closing,        \* where Close is: no, mark, reclaim, hangup, join, done
  keepalive, misses,
  lost,           \* where watchClose is: none, wait, reclaimed, done
  stats           \* Stats.Run: none, poll, wait, done

program == <<ctx, attach, watcher, told>>
calls == <<run, stray>>
ports == <<bound, relay>>
state == <<closed, err, closing>>
loops == <<keepalive, misses, lost, stats>>
clientVars == <<program, peer, outages, conn, calls, ports, state, loops>>

Alive == conn = "up" /\ peer = "well"

(***************************************************************************)
(* The world                                                               *)
(***************************************************************************)
Cancel == ~ctx /\ ctx' = TRUE
  /\ UNCHANGED <<attach, watcher, told, peer, outages, conn, calls, ports, state, loops>>

FallSilent == peer = "well" /\ outages < MaxOutages
  /\ peer' = "silent" /\ outages' = outages + 1
  /\ UNCHANGED <<program, conn, calls, ports, state, loops>>

Recover == peer = "silent" /\ peer' = "well"
  /\ UNCHANGED <<program, outages, conn, calls, ports, state, loops>>

Drop == conn = "up" /\ conn' = "down"
  /\ UNCHANGED <<program, peer, outages, calls, ports, state, loops>>

(***************************************************************************)
(* Connect                                                                 *)
(***************************************************************************)
Dial ==
  /\ attach = "connect" /\ conn = "none"
  /\ \/ conn' = "banner" /\ UNCHANGED attach
     \/ attach' = "failed" /\ UNCHANGED conn
  /\ UNCHANGED <<ctx, watcher, told, peer, outages, calls, ports, state, loops>>

\* A plausible bug: any byte lifts the deadline, and the banner never ends.
DeadlineTrickled == FALSE

\* The deadline of bannerTimeout stands until the line is whole.
Deadline == conn = "banner"

BannerTimeout ==
  /\ Deadline
  /\ attach' = "failed" /\ conn' = "down"
  /\ UNCHANGED <<ctx, watcher, told, peer, outages, calls, ports, state, loops>>

Banner == conn = "banner" /\ peer = "well" /\ conn' = "auth"
  /\ UNCHANGED <<program, peer, outages, calls, ports, state, loops>>

\* No deadline here: a password may be typed.
Authenticate ==
  /\ conn = "auth" /\ peer = "well"
  /\ \/ /\ conn' = "up" /\ attach' = "list"
        /\ keepalive' = "wait" /\ lost' = "wait"
     \/ /\ conn' = "down" /\ attach' = "failed"
        /\ UNCHANGED <<keepalive, lost>>
  /\ UNCHANGED <<ctx, watcher, told, peer, outages, calls, ports, state, misses, stats>>

(***************************************************************************)
(* Client.Run                                                              *)
(***************************************************************************)
\* What the caller does next: attachRemote goes through the three scripts of
\* Discover, of which only the second must succeed; the poller waits for its tick.
Returned(w, ok) ==
  /\ run' = [run EXCEPT ![w] = "idle"]
  /\ IF w = "stats"
     THEN stats' = "wait" /\ UNCHANGED <<attach, closing>>
     ELSE /\ UNCHANGED stats
          /\ \/ attach = "list" /\ ok /\ attach' = "scan" /\ UNCHANGED closing
             \/ attach = "list" /\ attach' = "probe" /\ UNCHANGED closing
             \/ attach = "probe" /\ ok /\ attach' = "scan" /\ UNCHANGED closing
             \/ attach = "probe" /\ ~ok /\ attach' = "failed" /\ closing' = "mark"
             \/ attach = "scan" /\ attach' = "forward" /\ UNCHANGED closing

Call(w) ==
  /\ run[w] = "idle"
  /\ IF w = "stats" THEN stats = "poll" ELSE attach \in {"list", "probe", "scan"}
  /\ run' = [run EXCEPT ![w] = "opening"]
  /\ UNCHANGED <<program, peer, outages, conn, stray, ports, state, loops>>

\* NewSession waits for the peer: neither the timer nor the context is set yet.
NewSession(w) ==
  /\ run[w] = "opening" /\ conn # "down"
  /\ Alive
  /\ run' = [run EXCEPT ![w] = "running"]
  /\ UNCHANGED <<program, peer, outages, conn, stray, ports, state, loops>>

RunReturns(w) ==
  /\ \/ /\ conn = "down" /\ run[w] # "idle"         \* connLost
        /\ Returned(w, FALSE) /\ UNCHANGED stray
     \/ /\ Alive /\ run[w] # "idle"                 \* refused; or the command failed
        /\ Returned(w, FALSE) /\ UNCHANGED stray
     \/ /\ Alive /\ run[w] = "running"
        /\ Returned(w, TRUE) /\ UNCHANGED stray
     \/ /\ run[w] = "running"                       \* runTimeout, or the context
        /\ Returned(w, FALSE) /\ stray' = stray \cup {w}
  /\ UNCHANGED <<ctx, watcher, told, peer, outages, conn, ports, closed, err,
                 keepalive, misses, lost>>

\* Output, SendRequest: an answer at last, or the connection ends.
StrayReturns(k) ==
  /\ k \in stray
  /\ Alive \/ conn = "down"
  /\ stray' = stray \ {k}
  /\ UNCHANGED <<program, peer, outages, conn, run, ports, state, loops>>

(***************************************************************************)
(* Forward and its relays                                                  *)
(***************************************************************************)
\* A port whose listener cannot be bound is left out; all of them is an error.
Forward ==
  /\ attach = "forward"
  /\ \E S \in SUBSET Ports :
       /\ bound' = S
       /\ IF S = {} THEN attach' = "failed" /\ closing' = "mark" /\ UNCHANGED watcher
          ELSE attach' = "identify" /\ watcher' = "wait" /\ UNCHANGED closing
  /\ UNCHANGED <<ctx, told, peer, outages, conn, calls, relay, closed, err, loops>>

Accept(p) ==
  /\ p \in bound /\ relay[p] = "none"
  /\ relay' = [relay EXCEPT ![p] = "dialing"]
  /\ UNCHANGED <<program, peer, outages, conn, calls, bound, state, loops>>

Piped(p) ==
  /\ relay[p] = "dialing" /\ Alive
  /\ relay' = [relay EXCEPT ![p] = "piped"]
  /\ UNCHANGED <<program, peer, outages, conn, calls, bound, state, loops>>

\* forwardDialTimeout; or one end of the pipe is done, and takes the other with it.
RelayEnds(p) ==
  /\ relay[p] # "none"
  /\ relay' = [relay EXCEPT ![p] = "none"]
  /\ UNCHANGED <<program, peer, outages, conn, calls, bound, state, loops>>

(***************************************************************************)
(* attachRemote after Forward, and the poller it starts                    *)
(***************************************************************************)
Identified ==
  /\ attach = "identify"
  /\ attach' = "done" /\ stats' = "poll"
  /\ UNCHANGED <<ctx, watcher, told, peer, outages, conn, calls, ports, state,
                 keepalive, misses, lost>>

\* A plausible bug: a dropped connection is taken to clean up after itself.
WokenByCancel == ctx

WokenBy == ctx \/ closed

\* The goroutine that reports a loss, and closes the client on both paths.
Woken ==
  /\ watcher = "wait"
  /\ WokenBy
  /\ watcher' = "close" /\ closing' = "mark"
  /\ told' = IF closed /\ ~ctx THEN err ELSE told
  /\ UNCHANGED <<ctx, attach, peer, outages, conn, calls, ports, closed, err, loops>>

StatsRun ==
  /\ stats = "wait"
  /\ \/ (ctx \/ closed) /\ stats' = "done"
     \/ stats' = "poll"
  /\ UNCHANGED <<program, peer, outages, conn, calls, ports, state, keepalive, misses, lost>>

(***************************************************************************)
(* keepalive, Close, watchClose                                            *)
(***************************************************************************)
\* A plausible bug: a probe that is not answered does not count as one.
MissedNothing(m) == m

Missed(m) == m + 1

\* A plausible bug: one miss more is let pass.
GivenUpLate(m) == m > 3

GivenUp(m) == m >= 3

\* A probe is answered, fails, or is given up: the timer, or Done.
probe ==
  /\ keepalive = "probe"
  /\ \/ /\ Alive
        /\ misses' = 0 /\ keepalive' = "wait" /\ UNCHANGED <<conn, stray>>
     \/ /\ misses' = Missed(misses)
        /\ stray' = IF conn = "down" THEN stray ELSE stray \cup {"probe"}
        /\ IF GivenUp(Missed(misses)) THEN keepalive' = "done" /\ conn' = "down"
           ELSE keepalive' = "wait" /\ UNCHANGED conn
  /\ UNCHANGED <<program, peer, outages, run, ports, state, lost, stats>>

KeepaliveWakes ==
  /\ keepalive = "wait"
  /\ \/ closed /\ keepalive' = "done"
     \/ keepalive' = "probe"
  /\ UNCHANGED <<program, peer, outages, conn, calls, ports, state, misses, lost, stats>>

\* A plausible bug: Close leaves the listeners to watchClose.
LeftBound == bound

\* Under c.mu, as Forward.
closeListeners == {}

Close ==
  /\ \/ /\ closing = "mark" /\ closing' = "reclaim"
        /\ closed' = TRUE
        /\ UNCHANGED <<bound, err, conn, watcher>>
     \/ /\ closing = "reclaim" /\ closing' = "hangup"
        /\ bound' = closeListeners
        /\ UNCHANGED <<closed, err, conn, watcher>>
     \/ /\ closing = "hangup" /\ closing' = "join"
        /\ err' = "nil" /\ conn' = "down"
        /\ UNCHANGED <<closed, bound, watcher>>
     \/ /\ closing = "join" /\ closing' = "done"
        /\ keepalive = "done"
        /\ watcher' = IF watcher = "close" THEN "done" ELSE watcher
        /\ UNCHANGED <<closed, bound, err, conn>>
  /\ UNCHANGED <<ctx, attach, told, peer, outages, calls, relay, loops>>

\* A plausible bug: Done fires first, and the reason follows.
LossUnexplained == err

LossReason == "lost"

\* Under closeMu: a deliberate shutdown is not a loss.
watchClose ==
  /\ \/ /\ lost = "wait" /\ lost' = "reclaimed"
        /\ conn = "down"
        /\ bound' = {}
        /\ UNCHANGED <<closed, err>>
     \/ /\ lost = "reclaimed" /\ lost' = "done"
        /\ closed' = TRUE
        /\ err' = IF closed THEN err ELSE LossReason
        /\ UNCHANGED bound
  /\ UNCHANGED <<program, peer, outages, conn, calls, relay, closing, keepalive, misses, stats>>

ClientInit ==
  /\ ctx = FALSE /\ attach = "connect" /\ watcher = "none" /\ told = "none"
  /\ peer = "well" /\ outages = 0 /\ conn = "none"
  /\ run = [w \in Callers |-> "idle"] /\ stray = {}
  /\ bound = {} /\ relay = [p \in Ports |-> "none"]
  /\ closed = FALSE /\ err = "nil" /\ closing = "no"
  /\ keepalive = "none" /\ misses = 0 /\ lost = "none" /\ stats = "none"

Call1(w) == Call(w) \/ RunReturns(w)

ClientNext ==
  \/ Cancel \/ FallSilent \/ Recover \/ Drop
  \/ Dial \/ BannerTimeout \/ Banner \/ Authenticate
  \/ \E w \in Callers : Call1(w) \/ NewSession(w)
  \/ \E k \in Callers \cup {"probe"} : StrayReturns(k)
  \/ Forward \/ Identified \/ Woken \/ StatsRun
  \/ \E p \in Ports : Accept(p) \/ Piped(p) \/ RelayEnds(p)
  \/ probe \/ KeepaliveWakes \/ Close \/ watchClose

\* Goroutines that can run do, timers fire, and the engines' requests end.  Nothing is
\* asked of the peer, of the network, or of who types a password; nor is StatsRun or
\* KeepaliveWakes held to the branch where Done wins over a tick forever.
ClientFairness ==
  /\ WF_clientVars(Dial) /\ WF_clientVars(BannerTimeout)
  /\ \A w \in Callers : WF_clientVars(Call1(w))
  /\ \A k \in Callers \cup {"probe"} : WF_clientVars(StrayReturns(k))
  /\ WF_clientVars(Forward) /\ WF_clientVars(Identified) /\ WF_clientVars(Woken)
  /\ WF_clientVars(StatsRun) /\ SF_clientVars(StatsRun /\ stats' = "done")
  /\ \A p \in Ports : WF_clientVars(RelayEnds(p))
  /\ WF_clientVars(probe) /\ WF_clientVars(KeepaliveWakes) /\ SF_clientVars(KeepaliveWakes /\ keepalive' = "done")
  /\ WF_clientVars(Close) /\ WF_clientVars(watchClose)

ClientSpec == ClientInit /\ [][ClientNext]_clientVars /\ ClientFairness

(***************************************************************************)
(* Properties                                                              *)
(***************************************************************************)
ClientTypeOK ==
  /\ ctx \in BOOLEAN /\ closed \in BOOLEAN
  /\ attach \in {"connect", "list", "probe", "scan", "forward", "identify", "done", "failed"}
  /\ watcher \in {"none", "wait", "close", "done"}
  /\ told \in {"none", "nil", "lost"} /\ err \in {"nil", "lost"}
  /\ peer \in {"well", "silent"} /\ outages \in 0..MaxOutages
  /\ conn \in {"none", "banner", "auth", "up", "down"}
  /\ run \in [Callers -> {"idle", "opening", "running"}]
  /\ stray \subseteq Callers \cup {"probe"}
  /\ bound \subseteq Ports /\ relay \in [Ports -> {"none", "dialing", "piped"}]
  /\ closing \in {"no", "mark", "reclaim", "hangup", "join", "done"}
  /\ keepalive \in {"none", "wait", "probe", "done"} /\ misses \in 0..3
  /\ lost \in {"none", "wait", "reclaimed", "done"}
  /\ stats \in {"none", "poll", "wait", "done"}

\* "Everything woken by Done must see the reason in Err": a loss is never reported
\* without one (watchClose, attachRemote).
LossIsExplained == told # "nil"

\* Close is complete: whatever dropped, bound or raced before, nothing listens, is
\* connected or probes afterwards (Close, closeListeners, keepaliveDone).
CloseComplete ==
  /\ ClientTypeOK
  /\ closing = "done" => bound = {} /\ conn = "down" /\ keepalive = "done"

\* However the connection ends, all goroutines, listeners and relays go with it, a
\* Forward that came after the drop included (Close, watchClose, relay, Stats.Run).
Gone ==
  /\ bound = {} /\ stray = {} /\ \A p \in Ports : relay[p] = "none"
  /\ \A w \in Callers : run[w] = "idle"
  /\ keepalive = "done" /\ lost = "done" /\ stats \in {"none", "done"}
AllReclaimed == closed ~> Gone

\* A peer that goes silent without closing is found out (keepalive), and one that
\* never ends its banner (handshakeConn).
SilenceEnds ==
  /\ (peer = "silent" /\ conn = "up") ~> (peer = "well" \/ closed)
  /\ conn = "banner" ~> conn # "banner"

\* Nothing is left waiting, for a peer that fell silent or for one that was dropped.
NothingHangs == AllReclaimed /\ SilenceEnds
=============================================================================

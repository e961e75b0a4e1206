------------------------------ MODULE EventFeed ------------------------------
(***************************************************************************)
(* The agent feed (Collector.RecordAgent) and the endpoint that fills it   *)
(* (internal/ingest/server.go).  A sender has a stream of events to        *)
(* deliver, one POST at a time.  The handler records while it decodes, so  *)
(* a stream that breaks leaves its first events in the feed; the answer    *)
(* says how many, and may be lost.  A sender that replays sends all of it  *)
(* again, one that resumes sends what it was not told was recorded.        *)
(*                                                                         *)
(* A sender is the agent it names, and a number: that is how names order.  *)
(* What a line holds is in EventWire; here it is a claimed time and an id. *)
(* Ids are one space for all: whoever uses an id or an Idempotency-Key of  *)
(* another sender has its line taken for a repeat of the other's.          *)
(***************************************************************************)
EXTENDS Integers, Sequences

CONSTANTS
  Senders,        \* positive integers; 0 is the agent follower
  Lines,          \* events each sender has to deliver
  Key,            \* sender -> the Idempotency-Key of all its POSTs; NoKey if none
  Own,            \* sender -> line -> the id in its body; NoId if none
  Resuming,       \* senders that resume; the others replay
  Claimed,        \* sender -> line -> the time it claims; Absent if none
  Cap,            \* AgentHistoryLen
  Skew,           \* maxEventSkew
  Lifetime,       \* maxEventLifetime, in reads that bring no whole line
  MaxClock,       \* bound: the clock
  MaxTries,       \* bound: POSTs of all senders
  MaxReports      \* bound: events of the agent follower

\* An id is a name and a number; those made from a key are the key and a position.
Ids == Nat \X Nat
NoId == <<0, 0>>
NoKey == 0

Absent == -1
Idle == [from |-> 0, n |-> 0, left |-> 0, status |-> 0]

ASSUME FeedAssumption ==
  /\ Key \in [Senders -> Nat]
  /\ Own \in [Senders -> [1..Lines -> Ids]]
  /\ Lifetime \in Nat
  /\ Senders \subseteq Nat \ {0}
  /\ Lines \in Nat \ {0}
  /\ Cap \in Nat \ {0}
  /\ Skew \in Nat
  /\ Claimed \in [Senders -> [1..Lines -> Nat \cup {Absent}]]
  /\ MaxClock \in Nat /\ MaxTries \in Nat /\ MaxReports \in Nat

VARIABLES
  clock,
  feed,           \* Collector.agents
  post,           \* sender -> its request in the handler
  next,           \* sender -> first line it was not told is recorded
  tries,          \* POSTs made
  reports,        \* events the agent follower has recorded
  arrived,        \* events ever put into the feed
  recorded,       \* history: <<sender, line>> that reached the feed
  lost            \* history: senders that missed an answer

source == <<next, tries, lost>>
vars == <<clock, feed, post, next, tries, reports, arrived, recorded, lost>>

\* no tells apart events that are otherwise equal; the code does not read it.
Event == [at : Nat, src : Nat, id : Ids, line : Nat, no : Nat]

(***************************************************************************)
(* The feed                                                                *)
(***************************************************************************)
IdLess(i, j) == i[1] < j[1] \/ (i[1] = j[1] /\ i[2] < j[2])

agentCmpLess(a, b) ==
  \/ a.at < b.at
  \/ a.at = b.at /\ a.src < b.src
  \/ a.at = b.at /\ a.src = b.src /\ IdLess(a.id, b.id)

\* Whoever sent them.
SameId(a, b) == a.id # NoId /\ a.id = b.id

\* A plausible bug: an id is looked for only at the newer end.
HasAgentIDNewest(s, e) == s # <<>> /\ SameId(s[Len(s)], e)

HasAgentID(s, e) == \E k \in DOMAIN s : SameId(s[k], e)

\* Where sort.Search finds the first element after e.
Position(s, e) ==
  LET after == {k \in DOMAIN s : agentCmpLess(e, s[k])} IN
  IF after = {} THEN Len(s) + 1 ELSE CHOOSE k \in after : \A j \in after : k <= j

insertSorted(s, e) ==
  [k \in 1..Len(s) + 1 |-> IF k < Position(s, e) THEN s[k]
                           ELSE IF k = Position(s, e) THEN e ELSE s[k - 1]]

\* A plausible bug: the wrong end is cut off.
TrimmedNewest(s) == IF Len(s) > Cap THEN SubSeq(s, 1, Cap) ELSE s

Trimmed(s) == IF Len(s) > Cap THEN SubSeq(s, Len(s) - Cap + 1, Len(s)) ELSE s

\* Under c.mu.
RecordAgent(e) ==
  /\ feed' = IF HasAgentID(feed, e) THEN feed ELSE Trimmed(insertSorted(feed, e))
  /\ arrived' = IF HasAgentID(feed, e) THEN arrived ELSE arrived + 1
  /\ recorded' = IF HasAgentID(feed, e) THEN recorded ELSE recorded \cup {<<e.src, e.line>>}

\* A plausible bug: the sender's word is taken for it.
Unclamped(at) == IF at = Absent THEN clock ELSE at

(***************************************************************************)
(* The handler of POST /v1/events                                          *)
(***************************************************************************)
\* Unset and far-future times become the time of arrival.
Clamped(at) == IF at = Absent \/ at - clock > Skew THEN clock ELSE at

derivedEventID(key, seq) == IF key = NoKey THEN NoId ELSE <<key, seq>>

\* The body's id wins; then the key of the POST and the position in it.
EventID(s, line, n) ==
  IF Own[s][line] # NoId THEN Own[s][line] ELSE derivedEventID(Key[s], n + 1)

Line(s) == post[s].from + post[s].n
InHandler(s) == post[s].from > 0 /\ post[s].status = 0

Post(s) ==
  /\ post[s] = Idle
  /\ next[s] <= Lines
  /\ tries < MaxTries
  /\ post' = [post EXCEPT ![s] = [from |-> IF s \in Resuming THEN next[s] ELSE 1,
                                  n |-> 0, left |-> Lifetime, status |-> 0]]
  /\ tries' = tries + 1
  /\ UNCHANGED <<clock, feed, next, reports, arrived, recorded, lost>>

\* One line is decoded, and in the feed before the next is read.
DecodeAndRecord(s) ==
  /\ InHandler(s)
  /\ Line(s) <= Lines
  /\ RecordAgent([at |-> Clamped(Claimed[s][Line(s)]), src |-> s, line |-> Line(s),
                  id |-> EventID(s, Line(s), post[s].n), no |-> arrived + 1])
  /\ post' = [post EXCEPT ![s].n = @ + 1]
  /\ UNCHANGED <<clock, source, reports>>

\* A plausible bug: progress moves the end of the request too.
ExtendedForever(left) == IF left = 1 THEN Lifetime ELSE left - 1

\* Progress re-arms the idle deadline, never past the end of the request.
Extended(left) == left - 1

\* Bytes arrive, but no whole line.
Drip(s) ==
  /\ InHandler(s)
  /\ post[s].left > 0
  /\ post' = [post EXCEPT ![s].left = Extended(@)]
  /\ UNCHANGED <<clock, source, feed, reports, arrived, recorded>>

Ended(s, status) ==
  /\ InHandler(s)
  /\ post' = [post EXCEPT ![s].status = status]
  /\ UNCHANGED <<clock, source, feed, reports, arrived, recorded>>

\* The end of the stream after at least one event.
Accept(s) == Line(s) > Lines /\ Ended(s, 202)

\* What comes next does not parse, or is too large, or a deadline passed.
\* (400, 413 or 408: senders do not tell them apart)
fail(s) == Ended(s, 400)

\* A plausible bug: the count includes the line that failed.
ToldOneMore(s) == IF post[s].status = 202 THEN Lines + 1
                  ELSE IF s \in Resuming THEN Line(s) + 1 ELSE next[s]

\* What the sender knows from an answer: all of it, or the count of the message.
Told(s) == IF post[s].status = 202 THEN Lines + 1
           ELSE IF s \in Resuming THEN Line(s) ELSE next[s]

Answer(s) ==
  /\ post[s].status # 0
  /\ next' = [next EXCEPT ![s] = Told(s)]
  /\ post' = [post EXCEPT ![s] = Idle]
  /\ UNCHANGED <<clock, feed, tries, reports, arrived, recorded, lost>>

\* The response cannot be written, or never arrives.
AnswerLost(s) ==
  /\ post[s].status # 0
  /\ post' = [post EXCEPT ![s] = Idle]
  /\ lost' = lost \cup {s}
  /\ UNCHANGED <<clock, next, tries, feed, reports, arrived, recorded>>

\* The agent follower records without the endpoint, under ids made from a process
\* and the instant of its sample (sampleID).
Report ==
  /\ reports < MaxReports
  /\ RecordAgent([at |-> clock, src |-> 0, id |-> <<0, reports + 1>>, line |-> reports + 1,
                  no |-> arrived + 1])
  /\ reports' = reports + 1
  /\ UNCHANGED <<clock, source, post>>

Tick == clock < MaxClock /\ clock' = clock + 1
        /\ UNCHANGED <<source, feed, post, reports, arrived, recorded>>

Init ==
  /\ clock = 0
  /\ feed = <<>>
  /\ post = [s \in Senders |-> Idle]
  /\ next = [s \in Senders |-> 1]
  /\ tries = 0
  /\ reports = 0
  /\ arrived = 0
  /\ recorded = {}
  /\ lost = {}

handlePost(s) ==
  \/ fail(s)
  \/ AnswerLost(s)
  \/ Answer(s)
  \/ Accept(s)
  \/ Drip(s)
  \/ DecodeAndRecord(s)

Next ==
  \/ \E s \in Senders : Post(s) \/ handlePost(s)
  \/ Report
  \/ Tick

\* A read returns when bytes come or its deadline passes; a write has one too.
Fairness == \A s \in Senders : WF_vars(handlePost(s))

Spec == Init /\ [][Next]_vars /\ Fairness

(***************************************************************************)
(* Properties                                                              *)
(***************************************************************************)
TypeOK ==
  /\ clock \in Nat
  /\ feed \in Seq(Event)
  /\ post \in [Senders -> [from : 0..Lines, n : 0..Lines, left : 0..Lifetime,
                          status : {0, 202, 400}]]
  /\ next \in [Senders -> 1..Lines + 1]
  /\ tries \in 0..MaxTries
  /\ reports \in Nat /\ arrived \in Nat
  /\ recorded \subseteq (Nat \X Nat)
  /\ lost \subseteq Senders

\* The feed is read newest last, ids tell its events apart, it stays within its
\* bound, and no claimed time makes an agent look live ahead of time
\* (core.Snapshot.Agents, RecordAgent, maxEventSkew).
Sorted == \A j, k \in DOMAIN feed : j < k => ~agentCmpLess(feed[k], feed[j])
Distinct == \A j, k \in DOMAIN feed : j # k => ~SameId(feed[j], feed[k])
Bounded == Len(feed) <= Cap
NotAhead == \A k \in DOMAIN feed : feed[k].at <= clock + Skew
FeedSound == TypeOK /\ Sorted /\ Distinct /\ Bounded /\ NotAhead

\* A retry does not count an event again: no line is in the feed twice, if it bears
\* an id, or is replayed under a key, or its sender resumes where the answers tell it
\* to and has received them all (README "Retrying a stream ... is safe", handlePost
\* "lets senders resume after the failure ... duplicating what was kept").
Safe(s, l) ==
  \/ Own[s][l] # NoId
  \/ Key[s] # NoKey /\ s \notin Resuming
  \/ s \in Resuming \ lost

RetriedOnce == \A j, k \in DOMAIN feed :
  ( /\ j # k /\ feed[j].src \in Senders
    /\ Safe(feed[j].src, feed[j].line)
    /\ feed[j].src = feed[k].src ) => feed[j].line # feed[k].line

\* The ids a line may be sent under.  Of a sender that resumes, the position of a
\* line depends on where the POST began.
Names(s, l) ==
  IF s = 0 THEN {<<0, l>>}
  ELSE IF Own[s][l] # NoId THEN {Own[s][l]}
  ELSE IF Key[s] = NoKey THEN {}
  ELSE {<<Key[s], k>> : k \in IF s \in Resuming THEN 1..l ELSE {l}}

\* The line is recorded, or one that shares a name with it is.
Stands(s, l, rec) == <<s, l>> \in rec \/ \E r \in rec : Names(s, l) \cap Names(r[1], r[2]) # {}

\* What a sender was told is recorded did reach the feed, whatever broke later;
\* unless an event of the same id, of whatever line and sender, had reached it: then
\* it is acknowledged, and dropped (HasAgentID).
ToldIsRecorded == \A s \in Senders : \A l \in 1..Lines :
  l < next[s] => Stands(s, l, recorded)

\* Every POST is answered or given up, however slowly its body comes: no goroutine
\* is pinned by a peer (maxEventLifetime, bodyIdleTimeout, responseWriteTimeout).
AlwaysEnds == \A s \in Senders : post[s] # Idle ~> post[s] = Idle

\* The feed keeps what EventLog says, in whatever order events arrive.
Later(a, b) == agentCmpLess(b, a) \/ (~agentCmpLess(a, b) /\ a.no > b.no)
Log == INSTANCE EventLog WITH kept <- {feed[k] : k \in DOMAIN feed}
ImplementsLog == Log!LogSpec
=============================================================================

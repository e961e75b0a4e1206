---------------------------- MODULE UsageSources ----------------------------
(***************************************************************************)
(* Watchers of agents that keep their usage in a database (agentusage/     *)
(* source.go, crush_sqlite.go, opencode_sqlite.go and the source branch of *)
(* watch.go).  crush has a database in each project; the watcher keeps the *)
(* counters that the sessions had at attach and reports what they gained.  *)
(* opencode has one, with a row per message; the watcher adds up the rows  *)
(* created since the attach.  Databases come and go, cannot be opened or   *)
(* queried for a while, and lose rows.                                     *)
(*                                                                         *)
(* The clock counts half seconds, so that an odd instant is within a       *)
(* second.                                                                 *)
(***************************************************************************)
EXTENDS Integers, Sequences, FiniteSetsExt

CONSTANTS
  Dbs,           \* paths of databases
  Walks,         \* per directory spelling: the databases on the way up, nearest first
  Ids,           \* sessions, or messages
  Agents,        \* subset of {"crush", "opencode"}
  Seconds,       \* whether a row may be stamped by crush's trigger, in seconds
  Hides,         \* whether a database can be unopenable for a while
  MaxClock,      \* bound: the clock
  MaxWrites      \* bound: writes of the agent

Counters == {"output", "input"}
Rows == Dbs \X Ids
NoRow == [output |-> 0, input |-> 0, at |-> 0, unit |-> "ms"]
Zero == [c \in Counters |-> 0]

ASSUME SourceAssumption ==
  /\ IsFiniteSet(Dbs) /\ IsFiniteSet(Ids)
  /\ \A w \in Walks : w \in Seq(Dbs)
  /\ Agents \subseteq {"crush", "opencode"}
  /\ Seconds \in BOOLEAN /\ Hides \in BOOLEAN
  /\ MaxClock \in Nat /\ MaxWrites \in Nat

VARIABLES
  agent, clock, writes,
  rows,           \* what the databases hold
  hidden,         \* databases that cannot be opened just now
  since,          \* time of the attach; -1 before
  sourceBase,     \* row -> its counters when the baseline was taken
  hasSessionBase,
  sample,
  \* History, read by the properties only.
  due,            \* what was written to each row since the attach
  forgiven,       \* due when a late baseline was taken
  missed,         \* what the snapshot did not see although it was there
  faded,          \* a row was deleted
  fresh           \* the last step was a successful reading

store == <<agent, clock, writes, rows, hidden>>
watcher == <<since, sourceBase, hasSessionBase, sample>>
history == <<due, forgiven, missed, faded, fresh>>
vars == <<store, watcher, history>>

Tokens(r) == [c \in Counters |-> rows[r][c]]
Plus(a, b) == [c \in Counters |-> a[c] + b[c]]
Total(f(_), S) == [c \in Counters |-> MapThenSumSet(LAMBDA r : f(r)[c], S)]

(***************************************************************************)
(* The agent and its databases                                             *)
(***************************************************************************)
Attached == since >= 0

\* crush restamps the row, opencode keeps the time the message was created.
Stamp(r, unit) ==
  IF agent = "opencode" /\ rows[r] # NoRow
  THEN [at |-> rows[r].at, unit |-> rows[r].unit] ELSE [at |-> clock, unit |-> unit]

Write(r, c, unit) ==
  /\ writes < MaxWrites
  /\ rows[r].at >= 0
  /\ agent = "opencode" \/ ~Seconds => unit = "ms"
  /\ rows' = [rows EXCEPT ![r] = [output |-> @.output + IF c = "output" THEN 1 ELSE 0,
                                  input |-> @.input + IF c = "input" THEN 1 ELSE 0,
                                  at |-> Stamp(r, unit).at, unit |-> Stamp(r, unit).unit]]
  /\ writes' = writes + 1
  /\ due' = IF Attached THEN [due EXCEPT ![r][c] = @ + 1] ELSE due
  /\ fresh' = FALSE
  /\ UNCHANGED <<agent, clock, hidden, watcher, forgiven, missed, faded>>

\* A deleted row does not come back: ids are not used again.
Delete(r) ==
  /\ rows[r] # NoRow /\ rows[r].at >= 0
  /\ rows' = [rows EXCEPT ![r] = [NoRow EXCEPT !.at = -1]]
  /\ faded' = TRUE
  /\ fresh' = FALSE
  /\ UNCHANGED <<agent, clock, writes, hidden, watcher, due, forgiven, missed>>

\* Permissions, a full descriptor table, a project directory on its way elsewhere.
Hide(d) ==
  /\ Hides
  /\ hidden' = IF d \in hidden THEN hidden \ {d} ELSE hidden \cup {d}
  /\ fresh' = FALSE
  /\ UNCHANGED <<agent, clock, writes, rows, watcher, due, forgiven, missed, faded>>

Tick ==
  /\ clock < MaxClock
  /\ clock' = clock + 1
  /\ fresh' = FALSE
  /\ UNCHANGED <<agent, writes, rows, hidden, watcher, due, forgiven, missed, faded>>

(***************************************************************************)
(* Reading                                                                 *)
(***************************************************************************)
\* There is a file once something was written, and it opens.
crushDBIn(d) == d \notin hidden /\ \E i \in Ids : rows[<<d, i>>] # NoRow

crushDBPath(walk) ==
  LET found == {k \in DOMAIN walk : crushDBIn(walk[k])} IN
  IF found = {} THEN {} ELSE {walk[Min(found)]}

crushDBPaths == UNION {crushDBPath(w) : w \in Walks}

\* A plausible bug: every row is in milliseconds, as the schema says.
TouchedMillis(r, t) == rows[r].unit = "ms" /\ rows[r].at >= t

\* As stored: milliseconds against milliseconds, seconds against seconds rounded up.
TouchedSince(r, t) ==
  IF rows[r].unit = "ms" THEN rows[r].at >= t ELSE rows[r].at \div 2 >= (t + 1) \div 2

readCrushSessions(t) == {r \in crushDBPaths \X Ids : Tokens(r) # Zero /\ TouchedSince(r, t)}

\* Everything there is, for the baseline.
Snapshot == [r \in {q \in crushDBPaths \X Ids : Tokens(q) # Zero} |-> Tokens(r)]

\* A plausible bug: the counters themselves are taken for what was gained.
GrownFromZero(r) == Tokens(r)

\* A session of another database is new, whatever its id.
Grown(r) == [c \in Counters |->
  IF r \notin DOMAIN sourceBase THEN rows[r][c]
  ELSE IF rows[r][c] > sourceBase[r][c] THEN rows[r][c] - sourceBase[r][c] ELSE 0]

\* usageQuery: the rows this attach has seen created.
openCodeRows == {r \in Rows : r[1] \notin hidden /\ rows[r] # NoRow /\ rows[r].at > since}

\* A plausible bug: a session is known by its id alone, whatever database it is in.
BaseById == [i \in Ids |-> Total(Tokens, crushDBPaths \X {i})]

Reading == IF agent = "crush" THEN Total(Grown, readCrushSessions(since))
           ELSE Total(Tokens, openCodeRows)

BaseNow == Snapshot

Missed(S) == Total(Tokens, {r \in Rows : r \notin S})

\* The snapshot, or nothing if a database cannot be queried: then the next poll tries.
Attach ==
  /\ ~Attached
  /\ since' = clock
  /\ \/ /\ agent = "crush"
        /\ hasSessionBase' = TRUE
        /\ sourceBase' = BaseNow
        /\ missed' = Missed(DOMAIN Snapshot)
     \/ UNCHANGED <<hasSessionBase, sourceBase, missed>>
  /\ fresh' = FALSE
  /\ UNCHANGED <<store, sample, due, forgiven, faded>>

\* readSessionSource before the baseline: it becomes the baseline and shows nothing.
LateBase ==
  /\ Attached
  /\ agent = "crush" /\ ~hasSessionBase
  /\ hasSessionBase' = TRUE
  /\ sourceBase' = BaseNow
  /\ missed' = Missed(DOMAIN Snapshot)
  /\ fresh' = FALSE
  /\ forgiven' = due
  /\ UNCHANGED <<store, since, sample, due, faded>>

grew == \E c \in Counters : Reading[c] > sample[c]

\* A failed query changes nothing.  A reading that grew replaces the sample whole.
Poll ==
  /\ Attached
  /\ agent = "opencode" \/ hasSessionBase
  /\ sample' = IF grew THEN Reading ELSE sample
  /\ fresh' = TRUE
  /\ UNCHANGED <<store, since, sourceBase, hasSessionBase, due, forgiven, missed, faded>>

Init ==
  /\ agent \in Agents
  /\ clock = 0 /\ writes = 0
  /\ rows = [r \in Rows |-> NoRow]
  /\ hidden = {}
  /\ since = -1
  /\ sourceBase = [r \in {} |-> Zero]
  /\ hasSessionBase = FALSE
  /\ sample = Zero
  /\ due = [r \in Rows |-> Zero] /\ forgiven = due
  /\ missed = Zero /\ faded = FALSE /\ fresh = FALSE

Next ==
  \/ \E r \in Rows : Delete(r) \/ \E c \in Counters, unit \in {"s", "ms"} : Write(r, c, unit)
  \/ \E d \in Dbs : Hide(d)
  \/ Tick
  \/ Attach
  \/ LateBase
  \/ Poll

Spec == Init /\ [][Next]_vars

(***************************************************************************)
(* Properties                                                              *)
(***************************************************************************)
TypeOK ==
  /\ agent \in Agents /\ clock \in 0..MaxClock /\ writes \in 0..MaxWrites
  /\ rows \in [Rows -> [output : Nat, input : Nat, at : Nat \cup {-1}, unit : {"s", "ms"}]]
  /\ hidden \subseteq Dbs
  /\ since \in -1..MaxClock
  /\ DOMAIN sourceBase \subseteq Rows /\ \A r \in DOMAIN sourceBase : sourceBase[r] \in [Counters -> Nat]
  /\ hasSessionBase \in BOOLEAN /\ faded \in BOOLEAN /\ fresh \in BOOLEAN
  /\ due \in [Rows -> [Counters -> Nat]] /\ forgiven \in [Rows -> [Counters -> Nat]]
  /\ sample \in [Counters -> Nat] /\ missed \in [Counters -> Nat]

\* The sources are meters: what they show was spent since the attach, or was in a
\* database that the snapshot could not see (readSource, readSessionSource).
Spent == Total(LAMBDA r : due[r], Rows)
Meter == INSTANCE UsageMeter WITH due <- Plus(Spent, missed), shown <- sample
ImplementsMeter == Meter!MeterSpec

Visible == IF agent = "crush" THEN crushDBPaths \X Ids ELSE Rows
Owed(S) == \A c \in Counters :
  sample[c] >= MapThenSumSet(LAMBDA r : due[r][c] - forgiven[r][c], S)

\* A reading that found every database shows all that the sessions of this directory
\* spent since the baseline, however often databases were replaced, unless a row was
\* deleted, last written by the trigger within the second of the attach (crush), or
\* begun before it (opencode; readSource, usageQuery).
Covered(r) == IF agent = "crush" THEN rows[r].unit = "ms" \/ rows[r].at \div 2 > since \div 2
              ELSE rows[r].at > since
ReadingComplete ==
  /\ TypeOK
  /\ fresh /\ hidden = {} /\ ~faded => Owed({r \in Visible : Covered(r)})

\* The contract of sessionSource (source.go:39): a session written at or after the
\* attach is in what is read, so that its growth is counted.  (Does not hold: README, Disagreements.)
AllGrowthRead == fresh /\ hidden = {} /\ ~faded => Owed(Visible)

\* "A failed snapshot must not become an empty baseline" (watch.go:409): nothing is
\* shown that was spent before the attach.  (Does not hold: README, Disagreements.)
NeverInherits == \A c \in Counters : sample[c] <= Spent[c]
=============================================================================

--------------------------- MODULE EventFeedProofs ---------------------------
(***************************************************************************)
(* What the agent feed guarantees for any senders, bounds and claimed      *)
(* times: it stays sorted, bounded and free of duplicates, a retry counts  *)
(* nothing twice, a sender is told of nothing that is not recorded, under  *)
(* its own name or by an event of the same id, and the feed implements     *)
(* EventLog.  Two events are never equal in the order of the feed once     *)
(* their arrival is a part of it, so the whole argument is about a         *)
(* strictly ordered sequence.                                              *)
(***************************************************************************)
EXTENDS EventFeed, FiniteSetTheorems, FunctionTheorems, SequenceTheorems, TLAPS

(***************************************************************************)
(* The inductive invariant                                                 *)
(***************************************************************************)
Requests == [from : 0..Lines, n : 0..Lines, left : 0..Lifetime, status : {0, 202, 400}]

\* Of two events of the feed, the one behind is later.
Ordered(s) == \A j, k \in DOMAIN s : j < k => Later(s[k], s[j])

\* A line that is always sent under one id.
Fixed(s, l) == Own[s][l] # NoId \/ (Key[s] # NoKey /\ s \notin Resuming)

\* An id is one its line may bear, and the lines with a fixed one have it.
Named(e) ==
  /\ e.id # NoId => e.id \in Names(e.src, e.line)
  /\ e.src \in Senders /\ Fixed(e.src, e.line) => e.id # NoId

\* Of a line that a retry does not count again there is no second event.
Single(d, e) ==
  d # e /\ d.src = e.src /\ d.src \in Senders /\ Safe(d.src, d.line) => d.line # e.line

Numbered(e) ==
  /\ Named(e)
  /\ <<e.src, e.line>> \in recorded
  /\ e.no <= arrived

Elements(s) == {s[k] : k \in DOMAIN s}
Kept == Elements(feed)

Feed ==
  /\ feed \in Seq(Event)
  /\ Ordered(feed)
  /\ Len(feed) <= Cap
  /\ \A e \in Kept : Numbered(e) /\ e.at <= clock + Skew
  /\ \A d, e \in Kept : d # e => ~SameId(d, e)
  /\ \A d, e \in Kept : Single(d, e)

\* A request starts at the first line, or at the first its sender was not told of, and
\* what it has got through is recorded.
Through(s, p, told, rec) ==
  /\ p.from = 0 => p.status = 0
  /\ p.from > 0 =>
       /\ p.from = IF s \in Resuming THEN told ELSE 1
       /\ p.from + p.n <= Lines + 1
       /\ \A l \in 1..Lines : l < p.from + p.n => Stands(s, l, rec)
       /\ p.status = 202 => p.from + p.n > Lines

\* Nothing of a sender is recorded that its request, or what it was told, is not past.
Past(s, p, told, rec) ==
  \A l \in Nat : <<s, l>> \in rec => l < IF p.from > 0 THEN p.from + p.n ELSE told

Sending(s) ==
  /\ Through(s, post[s], next[s], recorded)
  /\ s \in Resuming \ lost => Past(s, post[s], next[s], recorded)

Typed ==
  /\ clock \in Nat
  /\ post \in [Senders -> Requests]
  /\ next \in [Senders -> 1..Lines + 1]
  /\ tries \in 0..MaxTries
  /\ reports \in Nat /\ arrived \in Nat
  /\ recorded \subseteq (Nat \X Nat)
  /\ lost \subseteq Senders

IInv ==
  /\ Typed
  /\ Feed
  /\ \A s \in Senders : Sending(s)
  /\ ToldIsRecorded

(***************************************************************************)
(* The order of the feed                                                   *)
(***************************************************************************)
\* Later orders events strictly.
LEMMA LaterOrder ==
  ASSUME NEW a \in Event, NEW b \in Event, NEW c \in Event
  PROVE  /\ ~Later(a, a)
         /\ Later(a, b) => ~Later(b, a) /\ ~agentCmpLess(a, b)
         /\ Later(a, b) /\ Later(b, c) => Later(a, c)
BY DEF Event, Ids, Later, agentCmpLess, IdLess

\* Where an event goes: behind every event that does not come after it.
LEMMA PositionFacts ==
  ASSUME NEW s \in Seq(Event), NEW e \in Event
  PROVE  /\ Position(s, e) \in 1..Len(s) + 1
         /\ \A k \in 1..Len(s) : k < Position(s, e) => ~agentCmpLess(e, s[k])
         /\ Position(s, e) \in 1..Len(s) => agentCmpLess(e, s[Position(s, e)])
<1> DEFINE after == {k \in DOMAIN s : agentCmpLess(e, s[k])}
<1>1. Len(s) \in Nat /\ DOMAIN s = 1..Len(s)
  BY LenProperties
<1>2. CASE after = {}
  <2>1. Position(s, e) = Len(s) + 1
    BY <1>2 DEF Position
  <2> QED
    BY <1>1, <1>2, <2>1
<1>3. CASE after # {}
  <2>1. after \subseteq Nat
    BY <1>1
  <2>2. PICK m \in after : \A j \in after : ~(<<j, m>> \in OpToRel(<, Nat))
    BY <1>3, <2>1, NatLessThanWellFounded, WFMin
  <2>3. \A j \in after : ~(j < m)
    BY <2>1, <2>2 DEF OpToRel
  <2>4. \A j \in after : m <= j
    BY <2>1, <2>3
  <2>5. Position(s, e) = CHOOSE k \in after : \A j \in after : k <= j
    BY <1>3 DEF Position
  <2> HIDE DEF after
  <2>6. Position(s, e) \in after /\ \A j \in after : Position(s, e) <= j
    BY <2>4, <2>5
  <2>7. Position(s, e) \in 1..Len(s) /\ agentCmpLess(e, s[Position(s, e)])
    BY <1>1, <2>6 DEF after
  <2>8. ASSUME NEW k \in 1..Len(s), k < Position(s, e)
        PROVE  ~agentCmpLess(e, s[k])
    <3>1. k \notin after
      BY <2>6, <2>7, <2>8
    <3> QED
      BY <1>1, <3>1 DEF after
  <2> QED
    BY <1>1, <2>7, <2>8
<1> QED
  BY <1>2, <1>3

\* An insertion puts one event between those before it and those after it.
LEMMA InsertFacts ==
  ASSUME NEW s \in Seq(Event), NEW e \in Event
  PROVE  LET t == insertSorted(s, e)
             p == Position(s, e)
         IN  /\ t \in Seq(Event) /\ Len(t) = Len(s) + 1 /\ p \in 1..Len(t)
             /\ t[p] = e
             /\ \A k \in 1..Len(t) : k < p => k \in 1..Len(s) /\ t[k] = s[k]
             /\ \A k \in 1..Len(t) : p < k => k - 1 \in 1..Len(s) /\ t[k] = s[k - 1]
<1> DEFINE t == insertSorted(s, e)
           p == Position(s, e)
<1>1. /\ Len(s) \in Nat /\ \A k \in 1..Len(s) : s[k] \in Event
      /\ p \in 1..Len(s) + 1 /\ p \in Nat
  BY LenProperties, ElementOfSeq, PositionFacts
<1> DEFINE n == Len(s) + 1
<1>2. t = [k \in 1..n |-> IF k < p THEN s[k] ELSE IF k = p THEN e ELSE s[k - 1]]
  BY DEF insertSorted
<1> HIDE DEF t, p
<1>3. \A k \in 1..n : t[k] = IF k < p THEN s[k] ELSE IF k = p THEN e ELSE s[k - 1]
  BY <1>2
<1>4. n \in Nat /\ p \in 1..n
  BY <1>1
<1>5. \A k \in 1..n : k < p => k \in 1..Len(s)
  BY <1>1
<1>6. \A k \in 1..n : p < k => k - 1 \in 1..Len(s)
  BY <1>1
<1> HIDE DEF n
<1>7. t[p] = e
  BY <1>1, <1>3, <1>4
<1>8. ASSUME NEW k \in 1..n
      PROVE  /\ t[k] \in Event
             /\ k < p => t[k] = s[k]
             /\ p < k => t[k] = s[k - 1]
  <2>1. CASE k < p
    BY <1>1, <1>3, <1>4, <1>5, <2>1
  <2>2. CASE k = p
    BY <1>1, <1>7, <2>2
  <2>3. CASE p < k
    BY <1>1, <1>3, <1>4, <1>6, <2>3
  <2> QED
    BY <1>1, <1>4, <2>1, <2>2, <2>3
<1>9. t \in [1..n -> Event]
  BY <1>2, <1>8
<1>10. t \in Seq(Event) /\ Len(t) = n
  BY <1>4, <1>9
<1> QED
  BY <1>4, <1>5, <1>6, <1>7, <1>8, <1>10 DEF n, t, p

\* It keeps the order if the event is the last to arrive.
LEMMA InsertOrdered ==
  ASSUME NEW s \in Seq(Event), NEW e \in Event, Ordered(s), \A k \in DOMAIN s : s[k].no < e.no
  PROVE  Ordered(insertSorted(s, e))
<1> DEFINE t == insertSorted(s, e)
           p == Position(s, e)
           n == Len(s)
<1>1. /\ t \in Seq(Event) /\ Len(t) = n + 1 /\ p \in 1..Len(t)
      /\ t[p] = e
      /\ \A k \in 1..Len(t) : k < p => k \in 1..n /\ t[k] = s[k]
      /\ \A k \in 1..Len(t) : p < k => k - 1 \in 1..n /\ t[k] = s[k - 1]
  BY InsertFacts
<1>2. /\ \A k \in 1..n : k < p => ~agentCmpLess(e, s[k])
      /\ p \in 1..n => agentCmpLess(e, s[p])
  BY PositionFacts
<1> HIDE DEF t, p
<1>3. n \in Nat /\ DOMAIN s = 1..n /\ DOMAIN t = 1..n + 1 /\ p \in Int
      /\ \A k \in 1..n : s[k] \in Event
  BY <1>1, LenProperties, ElementOfSeq
<1>4. ASSUME NEW k \in 1..n, k < p
      PROVE  Later(e, s[k])
  <2>1. ~agentCmpLess(e, s[k]) /\ s[k].no < e.no /\ s[k] \in Event
    BY <1>2, <1>3, <1>4
  <2> QED
    BY <2>1 DEF Later, Event
<1>5. ASSUME NEW k \in 1..n, p <= k
      PROVE  Later(s[k], e)
  <2>1. p \in 1..n
    BY <1>1, <1>3, <1>5
  <2>2. Later(s[p], e)
    BY <1>2, <2>1 DEF Later
  <2>3. CASE k = p
    BY <2>2, <2>3
  <2>4. CASE k # p
    <3>1. p < k
      BY <1>3, <1>5, <2>4
    <3>2. Later(s[k], s[p])
      BY <1>3, <2>1, <3>1 DEF Ordered
    <3> QED
      BY <1>3, <2>1, <2>2, <3>2, LaterOrder
  <2> QED
    BY <2>3, <2>4
<1>6. SUFFICES ASSUME NEW j \in 1..n + 1, NEW k \in 1..n + 1, j < k
               PROVE  Later(t[k], t[j])
  BY <1>3 DEF Ordered, t
<1>7. CASE j < p /\ k < p
  <2>1. t[j] = s[j] /\ t[k] = s[k] /\ j \in 1..n /\ k \in 1..n
    BY <1>1, <1>6, <1>7
  <2> QED
    BY <1>3, <1>6, <2>1 DEF Ordered
<1>8. CASE j < p /\ k = p
  <2>1. t[j] = s[j] /\ t[k] = e /\ j \in 1..n
    BY <1>1, <1>8
  <2> QED
    BY <1>4, <1>8, <2>1
<1>9. CASE j < p /\ p < k
  <2>1. t[j] = s[j] /\ t[k] = s[k - 1] /\ j \in 1..n /\ k - 1 \in 1..n /\ j < k - 1
    BY <1>1, <1>3, <1>9
  <2> QED
    BY <1>3, <2>1 DEF Ordered
<1>10. CASE j = p
  <2>1. t[j] = e /\ t[k] = s[k - 1] /\ k - 1 \in 1..n /\ p <= k - 1
    BY <1>1, <1>3, <1>6, <1>10
  <2> QED
    BY <1>5, <2>1
<1>11. CASE p < j
  <2>1. p < k
    BY <1>3, <1>6, <1>11
  <2>2. t[j] = s[j - 1] /\ t[k] = s[k - 1] /\ j - 1 \in 1..n /\ k - 1 \in 1..n
    BY <1>1, <1>11, <2>1
  <2>3. j - 1 < k - 1
    BY <1>6
  <2> QED
    BY <1>3, <2>2, <2>3 DEF Ordered
<1> QED
  BY <1>3, <1>6, <1>7, <1>8, <1>9, <1>10, <1>11

\* Trimming cuts off the first, and only if there is one too many.
LEMMA TrimFacts ==
  ASSUME NEW t \in Seq(Event), Len(t) <= Cap + 1, Cap \in Nat \ {0}
  PROVE  /\ Trimmed(t) \in Seq(Event) /\ Len(Trimmed(t)) <= Cap
         /\ Len(t) <= Cap => Trimmed(t) = t
         /\ Len(t) = Cap + 1 =>
              /\ Len(Trimmed(t)) = Cap
              /\ \A k \in 1..Cap : Trimmed(t)[k] = t[k + 1]
<1>1. Len(t) \in Nat /\ \A k \in 1..Len(t) : t[k] \in Event
  BY LenProperties, ElementOfSeq
<1>2. CASE Len(t) <= Cap
  <2>1. ~(Len(t) > Cap)
    BY <1>1, <1>2
  <2> QED
    BY <1>1, <1>2, <2>1 DEF Trimmed
<1>3. CASE Len(t) = Cap + 1
  <2> DEFINE u == SubSeq(t, 2, Cap + 1)
  <2>1. Trimmed(t) = u
    <3>1. Len(t) > Cap /\ Len(t) - Cap + 1 = 2
      BY <1>1, <1>3
    <3> QED
      BY <1>3, <3>1 DEF Trimmed
  <2>2. /\ u \in Seq(Event)
        /\ Len(u) = IF 2 <= Cap + 1 THEN Cap + 1 - 2 + 1 ELSE 0
        /\ \A i \in 1..Cap + 1 - 2 + 1 : u[i] = t[2 + i - 1]
    <3>1. \A i \in 2..Cap + 1 : t[i] \in Event
      BY <1>1, <1>3
    <3>2. 2 \in Int /\ Cap + 1 \in Int
      OBVIOUS
    <3> QED
      BY <3>1, <3>2, SubSeqProperties
  <2> HIDE DEF u
  <2>3. Len(u) = Cap /\ \A k \in 1..Cap : u[k] = t[k + 1]
    BY <2>2
  <2> QED
    BY <1>3, <2>1, <2>2, <2>3
<1> QED
  BY <1>1, <1>2, <1>3

\* Trimming keeps the order.
LEMMA TrimOrdered ==
  ASSUME NEW t \in Seq(Event), Len(t) <= Cap + 1, Cap \in Nat \ {0}, Ordered(t)
  PROVE  Ordered(Trimmed(t))
<1>1. Len(t) \in Nat /\ DOMAIN t = 1..Len(t)
  BY LenProperties
<1>2. CASE Len(t) <= Cap
  <2>1. Trimmed(t) = t
    BY <1>2, TrimFacts
  <2> QED
    BY <2>1
<1>3. CASE Len(t) = Cap + 1
  <2>1. Trimmed(t) \in Seq(Event) /\ Len(Trimmed(t)) = Cap
        /\ \A k \in 1..Cap : Trimmed(t)[k] = t[k + 1]
    BY <1>3, TrimFacts
  <2>2. DOMAIN Trimmed(t) = 1..Cap
    BY <2>1, LenProperties
  <2> SUFFICES ASSUME NEW j \in 1..Cap, NEW k \in 1..Cap, j < k
               PROVE  Later(Trimmed(t)[k], Trimmed(t)[j])
    BY <2>2 DEF Ordered
  <2>3. j + 1 \in DOMAIN t /\ k + 1 \in DOMAIN t /\ j + 1 < k + 1
    BY <1>1, <1>3
  <2>4. Later(t[k + 1], t[j + 1])
    BY <2>3 DEF Ordered
  <2> QED
    BY <2>1, <2>4
<1>4. Len(t) <= Cap \/ Len(t) = Cap + 1
  <2>1. Len(t) \in Nat
    BY LenProperties
  <2> QED
    BY <2>1
<1> QED
  BY <1>2, <1>3, <1>4

\* What an insertion adds, and what trimming leaves of it.
LEMMA InsertElements ==
  ASSUME NEW s \in Seq(Event), NEW e \in Event
  PROVE  Elements(insertSorted(s, e)) = Elements(s) \cup {e}
<1> DEFINE t == insertSorted(s, e)
           p == Position(s, e)
<1>1. /\ t \in Seq(Event) /\ Len(t) = Len(s) + 1 /\ p \in 1..Len(t)
      /\ t[p] = e
      /\ \A k \in 1..Len(t) : k < p => k \in 1..Len(s) /\ t[k] = s[k]
      /\ \A k \in 1..Len(t) : p < k => k - 1 \in 1..Len(s) /\ t[k] = s[k - 1]
  BY InsertFacts
<1> HIDE DEF t, p
<1>2. Len(s) \in Nat /\ DOMAIN s = 1..Len(s) /\ DOMAIN t = 1..Len(s) + 1 /\ p \in Int
  BY <1>1, LenProperties
<1>3. ASSUME NEW k \in DOMAIN t
      PROVE  t[k] \in Elements(s) \cup {e}
  <2>1. CASE k < p
    <3>1. k \in DOMAIN s /\ t[k] = s[k]
      BY <1>1, <1>2, <2>1
    <3> QED
      BY <3>1 DEF Elements
  <2>2. CASE k = p
    BY <1>1, <2>2
  <2>3. CASE p < k
    <3>1. k - 1 \in DOMAIN s /\ t[k] = s[k - 1]
      BY <1>1, <1>2, <2>3
    <3> QED
      BY <3>1 DEF Elements
  <2> QED
    BY <1>2, <2>1, <2>2, <2>3
<1>4. ASSUME NEW k \in DOMAIN s
      PROVE  s[k] \in Elements(t)
  <2>1. CASE k < p
    <3>1. k \in DOMAIN t /\ t[k] = s[k]
      BY <1>1, <1>2, <2>1
    <3> QED
      BY <3>1 DEF Elements
  <2>2. CASE p <= k
    <3>1. k + 1 \in 1..Len(t) /\ p < k + 1 /\ (k + 1) - 1 = k
      BY <1>1, <1>2, <2>2
    <3>2. t[k + 1] = s[k]
      BY <1>1, <3>1
    <3> QED
      BY <1>1, <1>2, <3>1, <3>2 DEF Elements
  <2> QED
    BY <1>2, <2>1, <2>2
<1>5. e \in Elements(t)
  BY <1>1, <1>2 DEF Elements
<1>6. Elements(t) \subseteq Elements(s) \cup {e}
  BY <1>3 DEF Elements
<1>7. Elements(s) \subseteq Elements(t)
  BY <1>4 DEF Elements
<1> QED
  BY <1>5, <1>6, <1>7 DEF t

\* Trimming takes events away only from the front (RecordAgent).
LEMMA TrimElements ==
  ASSUME NEW t \in Seq(Event), Len(t) <= Cap + 1, Cap \in Nat \ {0}
  PROVE  /\ Elements(Trimmed(t)) \subseteq Elements(t)
         /\ Len(t) = Cap + 1 => Elements(Trimmed(t)) = {t[k] : k \in 2..Cap + 1}
<1>1. Len(t) \in Nat /\ DOMAIN t = 1..Len(t)
  BY LenProperties
<1>2. CASE Len(t) <= Cap
  <2>1. Trimmed(t) = t
    BY <1>2, TrimFacts
  <2>2. Len(t) # Cap + 1
    BY <1>2
  <2> QED
    BY <2>1, <2>2
<1>3. CASE Len(t) = Cap + 1
  <2>1. Trimmed(t) \in Seq(Event) /\ Len(Trimmed(t)) = Cap
        /\ \A k \in 1..Cap : Trimmed(t)[k] = t[k + 1]
    BY <1>3, TrimFacts
  <2>2. DOMAIN Trimmed(t) = 1..Cap
    BY <2>1, LenProperties
  <2>3. Elements(Trimmed(t)) = {t[k + 1] : k \in 1..Cap}
    BY <2>1, <2>2 DEF Elements
  <2>4. {t[k + 1] : k \in 1..Cap} = {t[k] : k \in 2..Cap + 1}
    <3>1. ASSUME NEW k \in 1..Cap
          PROVE  k + 1 \in 2..Cap + 1
      OBVIOUS
    <3>2. ASSUME NEW k \in 2..Cap + 1
          PROVE  k - 1 \in 1..Cap /\ (k - 1) + 1 = k
      OBVIOUS
    <3> QED
      BY <3>1, <3>2
  <2>5. {t[k] : k \in 2..Cap + 1} \subseteq Elements(t)
    <3>1. 2..Cap + 1 \subseteq DOMAIN t
      BY <1>1, <1>3
    <3> QED
      BY <3>1 DEF Elements
  <2> QED
    BY <2>3, <2>4, <2>5
<1>4. Len(t) <= Cap \/ Len(t) = Cap + 1
  <2>1. Len(t) \in Nat
    BY LenProperties
  <2> QED
    BY <2>1
<1> QED
  BY <1>2, <1>3, <1>4

(***************************************************************************)
(* Recording an event                                                      *)
(***************************************************************************)
\* What the endpoint and the follower give to RecordAgent.
Due(e) ==
  /\ e \in Event
  /\ e.no = arrived + 1
  /\ e.at <= clock + Skew
  /\ Named(e)
  /\ e.src \in Senders \cap (Resuming \ lost) => <<e.src, e.line>> \notin recorded

\* What stands goes on standing.
LEMMA StandsGrows ==
  ASSUME NEW s, NEW l, NEW rec, NEW more, rec \subseteq more, Stands(s, l, rec)
  PROVE  Stands(s, l, more)
BY DEF Stands

\* A line with a fixed id bears no other.
LEMMA OneName ==
  ASSUME NEW s \in Senders, NEW l, Fixed(s, l), NEW i \in Names(s, l), NEW j \in Names(s, l)
  PROVE  i = j
<1>1. s # 0
  BY FeedAssumption DEF FeedAssumption
<1>2. CASE Own[s][l] # NoId
  BY <1>1, <1>2 DEF Names
<1>3. CASE Own[s][l] = NoId
  <2>1. Key[s] # NoKey /\ s \notin Resuming
    BY <1>3 DEF Fixed
  <2>2. Names(s, l) = {<<Key[s], k>> : k \in {l}}
    BY <1>1, <1>3, <2>1, Zenon DEF Names
  <2> QED
    BY <2>2
<1> QED
  BY <1>2, <1>3

\* An event that is not a repeat adds no second one of its line.
LEMMA SecondOfNone ==
  ASSUME NEW d, NEW e, Numbered(d), Due(e), ~SameId(d, e), d # e
  PROVE  Single(d, e) /\ Single(e, d)
<1>1. SUFFICES ASSUME d.src = e.src, d.src \in Senders, Safe(d.src, d.line), d.line = e.line
               PROVE  FALSE
  BY DEF Single
<1>2. CASE Fixed(d.src, d.line)
  <2>1. d.id # NoId /\ e.id # NoId
    BY <1>1, <1>2 DEF Numbered, Due, Named
  <2>2. d.id \in Names(d.src, d.line) /\ e.id \in Names(d.src, d.line)
    BY <1>1, <2>1 DEF Numbered, Due, Named
  <2>3. d.id = e.id
    BY <1>1, <1>2, <2>2, OneName
  <2> QED
    BY <2>1, <2>3 DEF SameId
<1>3. CASE d.src \in Resuming \ lost
  BY <1>1, <1>3 DEF Numbered, Due
<1> QED
  BY <1>1, <1>2, <1>3 DEF Safe, Fixed

\* The feed stays what it is, and the event is recorded, now or before, or another of
\* its id is.
LEMMA RecordKeeps ==
  ASSUME Typed, Feed, NEW e, Due(e), RecordAgent(e), clock' = clock, lost' = lost
  PROVE  /\ Feed'
         /\ arrived' \in Nat /\ recorded' \subseteq (Nat \X Nat)
         /\ recorded \subseteq recorded'
         /\ recorded' \subseteq recorded \cup {<<e.src, e.line>>}
         /\ Stands(e.src, e.line, recorded')
<1>1. /\ e \in Event /\ e.no = arrived + 1 /\ arrived \in Nat /\ clock \in Nat
      /\ feed \in Seq(Event) /\ recorded \subseteq (Nat \X Nat)
  BY DEF Due, Typed, Feed
<1>2. Cap \in Nat \ {0} /\ Skew \in Nat
  BY FeedAssumption DEF FeedAssumption
<1>3. CASE HasAgentID(feed, e)
  <2>1. feed' = feed /\ arrived' = arrived /\ recorded' = recorded
    BY <1>3 DEF RecordAgent
  <2>2. Feed'
    BY <2>1 DEF Feed, Ordered, Kept, Elements, Numbered, Single, Safe
  <2>3. PICK k \in DOMAIN feed : SameId(feed[k], e)
    BY <1>3 DEF HasAgentID
  <2>4. Numbered(feed[k])
    BY DEF Feed, Kept, Elements
  <2>5. PICK r \in recorded : r = <<feed[k].src, feed[k].line>>
    BY <2>4 DEF Numbered
  <2>6. r[1] = feed[k].src /\ r[2] = feed[k].line
    BY <2>5
  <2>7. e.id \in Names(r[1], r[2]) /\ e.id \in Names(e.src, e.line)
    BY <2>3, <2>4, <2>6 DEF SameId, Numbered, Due, Named
  <2>8. Stands(e.src, e.line, recorded)
    BY <2>5, <2>7 DEF Stands
  <2> QED
    BY <1>1, <2>1, <2>2, <2>8
<1>4. CASE ~HasAgentID(feed, e)
  <2> DEFINE t == insertSorted(feed, e)
  <2>1. feed' = Trimmed(t) /\ arrived' = arrived + 1
        /\ recorded' = recorded \cup {<<e.src, e.line>>}
    BY <1>4 DEF RecordAgent
  <2>2. t \in Seq(Event) /\ Len(t) = Len(feed) + 1 /\ Elements(t) = Kept \cup {e}
    BY <1>1, InsertFacts, InsertElements DEF Kept
  <2>3. Ordered(t)
    <3>1. ASSUME NEW k \in DOMAIN feed
          PROVE  feed[k].no < e.no
      <4>1. feed[k].no <= arrived
        BY DEF Feed, Kept, Elements, Numbered
      <4>2. feed[k] \in Event
        BY <1>1, ElementOfSeq, LenProperties
      <4> QED
        BY <1>1, <4>1, <4>2 DEF Event
    <3>2. Ordered(feed)
      BY DEF Feed
    <3> QED
      BY <1>1, <3>1, <3>2, InsertOrdered
  <2>4. Len(t) <= Cap + 1
    <3>1. Len(feed) \in Nat /\ Len(feed) <= Cap
      BY <1>1, LenProperties DEF Feed
    <3> QED
      BY <1>2, <2>2, <3>1
  <2> HIDE DEF t
  <2>5. Trimmed(t) \in Seq(Event) /\ Len(Trimmed(t)) <= Cap /\ Ordered(Trimmed(t))
        /\ Elements(Trimmed(t)) \subseteq Kept \cup {e}
    BY <1>2, <2>2, <2>3, <2>4, TrimFacts, TrimOrdered, TrimElements
  <2>6. Kept' \subseteq Kept \cup {e}
    BY <2>1, <2>5 DEF Kept, Elements
  <2>7. ASSUME NEW d \in Kept'
        PROVE  Numbered(d)' /\ d.at <= clock' + Skew
    <3>1. CASE d \in Kept
      <4>1. Numbered(d) /\ d.at <= clock + Skew
        BY <3>1 DEF Feed
      <4>2. d \in Event
        BY <1>1, <3>1, ElementOfSeq, LenProperties DEF Kept, Elements
      <4>3. d.no \in Nat /\ d.no <= arrived + 1
        BY <1>1, <4>1, <4>2 DEF Numbered, Event
      <4> QED
        BY <2>1, <4>1, <4>3 DEF Numbered
    <3>2. CASE d = e
      <4>1. e.no <= arrived + 1
        BY <1>1 DEF Event
      <4> QED
        BY <2>1, <3>2, <4>1 DEF Due, Numbered
    <3> QED
      BY <2>6, <3>1, <3>2
  <2>8. ASSUME NEW c \in Kept', NEW d \in Kept', c # d
        PROVE  ~SameId(c, d)
    <3>1. \A k \in Kept : ~SameId(k, e) /\ ~SameId(e, k)
      BY <1>4 DEF HasAgentID, SameId, Kept, Elements
    <3> QED
      BY <2>6, <2>8, <3>1 DEF Feed
  <2>9. ASSUME NEW c \in Kept', NEW d \in Kept'
        PROVE  Single(c, d)'
    <3>1. Safe(c.src, c.line)' => Safe(c.src, c.line)
      BY DEF Safe
    <3>2. SUFFICES Single(c, d)
      BY <3>1 DEF Single
    <3>3. CASE c \in Kept /\ d \in Kept
      BY <3>3 DEF Feed
    <3>4. \A k \in Kept : Numbered(k) /\ ~SameId(k, e)
      BY <1>4 DEF HasAgentID, SameId, Kept, Elements, Feed
    <3>5. CASE c = d
      BY <3>5 DEF Single
    <3> QED
      BY <2>6, <3>3, <3>4, <3>5, SecondOfNone
  <2>10. Feed'
    <3>1. feed' \in Seq(Event) /\ Len(feed') <= Cap /\ Ordered(feed')
      BY <2>1, <2>5
    <3>2. Ordered(feed)'
      BY <3>1 DEF Ordered
    <3> QED
      BY <2>7, <2>8, <2>9, <3>1, <3>2 DEF Feed
  <2>11. <<e.src, e.line>> \in Nat \X Nat
    BY <1>1 DEF Event
  <2>12. Stands(e.src, e.line, recorded')
    BY <2>1 DEF Stands
  <2> QED
    BY <1>1, <2>1, <2>10, <2>11, <2>12
<1> QED
  BY <1>3, <1>4
(***************************************************************************)
(* The endpoint's steps                                                    *)
(***************************************************************************)
\* The position of the next line of a request.
LEMMA LineFacts ==
  ASSUME IInv, NEW s \in Senders, InHandler(s), Line(s) <= Lines
  PROVE  Line(s) \in 1..Lines /\ post[s].from \in 1..Lines /\ post[s].n \in 0..Lines - 1
<1>1. post[s] \in Requests
  BY DEF IInv, Typed
<1>2. Lines \in Nat
  BY FeedAssumption DEF FeedAssumption
<1> QED
  BY <1>1, <1>2 DEF Requests, InHandler, Line

\* The event of a line is one that RecordAgent may be given.
LEMMA LineDue ==
  ASSUME IInv, NEW s \in Senders, InHandler(s), Line(s) <= Lines
  PROVE  Due([at |-> Clamped(Claimed[s][Line(s)]), src |-> s, line |-> Line(s),
              id |-> EventID(s, Line(s), post[s].n), no |-> arrived + 1])
<1> DEFINE at == Clamped(Claimed[s][Line(s)])
           l == Line(s)
           id == EventID(s, l, post[s].n)
<1>1. /\ l \in 1..Lines /\ post[s].from \in 1..Lines /\ post[s].n \in 0..Lines - 1
      /\ l = post[s].from + post[s].n
      /\ clock \in Nat /\ arrived \in Nat /\ Skew \in Nat /\ s \in Nat \ {0} /\ Lines \in Nat
  BY LineFacts, FeedAssumption DEF FeedAssumption, IInv, Typed, Line
<1>2. l \in Nat /\ post[s].n + 1 \in Nat
  BY <1>1
<1>3. at \in Nat /\ at <= clock + Skew
  <2>1. PICK c : c = Claimed[s][Line(s)]
    OBVIOUS
  <2>2. c \in Nat \cup {Absent}
    BY <1>1, <2>1, FeedAssumption DEF FeedAssumption
  <2>3. at = IF c = Absent \/ c - clock > Skew THEN clock ELSE c
    BY <2>1 DEF Clamped
  <2> HIDE DEF at
  <2> QED
    BY <1>1, <2>2, <2>3 DEF Absent
<1> HIDE DEF at, l
<1>4. Own[s][l] \in Ids /\ Key[s] \in Nat
  BY <1>1, FeedAssumption DEF FeedAssumption
<1>5. /\ id \in Ids
      /\ id # NoId => id \in Names(s, l)
      /\ Fixed(s, l) => id # NoId
  <2>1. CASE Own[s][l] # NoId
    <3>1. id = Own[s][l]
      BY <2>1 DEF EventID
    <3>2. Names(s, l) = {Own[s][l]}
      BY <1>1, <2>1 DEF Names
    <3> QED
      BY <1>4, <2>1, <3>1, <3>2
  <2>2. CASE Own[s][l] = NoId /\ Key[s] = NoKey
    <3>1. id = NoId
      BY <2>2 DEF EventID, derivedEventID
    <3> QED
      BY <2>2, <3>1 DEF Fixed, NoId, Ids
  <2>3. CASE Own[s][l] = NoId /\ Key[s] # NoKey
    <3>1. PICK c \in Nat \ {0} : c = post[s].n + 1
      BY <1>1
    <3>2. id = <<Key[s], c>>
      BY <2>3, <3>1 DEF EventID, derivedEventID
    <3>3. id \in Ids /\ id # NoId
      BY <1>4, <2>3, <3>2 DEF Ids, NoId, NoKey
    <3>4. c \in IF s \in Resuming THEN 1..l ELSE {l}
      <4>1. CASE s \in Resuming
        BY <1>1, <3>1, <4>1
      <4>2. CASE s \notin Resuming
        <5>1. post[s].from = 1
          BY <1>1, <4>2 DEF IInv, Sending, Through
        <5> QED
          BY <1>1, <3>1, <4>2, <5>1
      <4> QED
        BY <4>1, <4>2
    <3>5. Names(s, l) = {<<Key[s], k>> : k \in IF s \in Resuming THEN 1..l ELSE {l}}
      BY <1>1, <2>3, Zenon DEF Names
    <3> QED
      BY <3>2, <3>3, <3>4, <3>5
  <2> QED
    BY <2>1, <2>2, <2>3
<1>6. s \in Resuming \ lost => <<s, l>> \notin recorded
  <2>1. post[s].from > 0 /\ ~(l < post[s].from + post[s].n)
    BY <1>1
  <2> QED
    BY <1>2, <2>1 DEF IInv, Sending, Past
<1> HIDE DEF id
<1> DEFINE e == [at |-> at, src |-> s, line |-> l, id |-> id, no |-> arrived + 1]
<1>7. e \in Event
  <2>1. arrived + 1 \in Nat
    BY <1>1
  <2> QED
    BY <1>1, <1>2, <1>3, <1>5, <2>1 DEF Event
<1>8. e.src = s /\ e.line = l /\ e.id = id /\ e.at = at /\ e.no = arrived + 1
  OBVIOUS
<1> HIDE DEF e
<1>9. Due(e)
  BY <1>3, <1>5, <1>6, <1>7, <1>8 DEF Due, Named
<1> QED
  BY <1>9 DEF at, l, id, e

\* So is the event of the follower.
LEMMA ReportDue ==
  ASSUME IInv
  PROVE  Due([at |-> clock, src |-> 0, id |-> <<0, reports + 1>>, line |-> reports + 1,
              no |-> arrived + 1])
<1>1. clock \in Nat /\ arrived + 1 \in Nat /\ reports + 1 \in Nat \ {0} /\ Skew \in Nat
  BY FeedAssumption DEF FeedAssumption, IInv, Typed
<1>2. clock <= clock + Skew
  BY <1>1
<1> DEFINE e == [at |-> clock, src |-> 0, id |-> <<0, reports + 1>>, line |-> reports + 1,
                 no |-> arrived + 1]
<1>3. <<0, reports + 1>> \in Ids
  BY <1>1 DEF Ids
<1>4. e \in Event
  BY <1>1, <1>3 DEF Event
<1>5. e.src = 0 /\ e.line = reports + 1 /\ e.id = <<0, reports + 1>> /\ e.at = clock
      /\ e.no = arrived + 1
  OBVIOUS
<1> HIDE DEF e
<1>6. 0 \notin Senders
  BY FeedAssumption DEF FeedAssumption
<1>7. Names(0, e.line) = {<<0, e.line>>}
  BY DEF Names
<1>8. Due(e)
  BY <1>2, <1>4, <1>5, <1>6, <1>7 DEF Due, Named
<1> QED
  BY <1>8 DEF e

\* Nothing the other steps do is the feed's business, but for the passing of time.
LEMMA FeedStays ==
  ASSUME Typed, Feed, UNCHANGED <<feed, arrived, recorded>>, clock' \in Nat, clock <= clock',
         lost \subseteq lost'
  PROVE  Feed'
<1>1. Kept' = Kept /\ (feed \in Seq(Event))
  BY DEF Kept, Elements, Feed
<1>2. ASSUME NEW e \in Kept
      PROVE  Numbered(e)' /\ e.at <= clock' + Skew
  <2>1. Numbered(e) /\ e.at <= clock + Skew
    BY DEF Feed
  <2>2. e \in Event
    BY <1>1, ElementOfSeq, LenProperties DEF Kept, Elements
  <2>3. e.at \in Nat /\ clock \in Nat /\ Skew \in Nat
    BY <2>2, FeedAssumption DEF FeedAssumption, Event, Typed
  <2> QED
    BY <2>1, <2>3 DEF Numbered
<1>3. ASSUME NEW d \in Kept, NEW e \in Kept
      PROVE  Single(d, e)'
  <2>1. Single(d, e) /\ (Safe(d.src, d.line)' => Safe(d.src, d.line))
    BY DEF Feed, Safe
  <2> QED
    BY <2>1 DEF Single
<1> QED
  BY <1>1, <1>2, <1>3 DEF Feed, Ordered

\* A request or an answer concerns one sender.
LEMMA OneSender ==
  ASSUME IInv, NEW s \in Senders, recorded \subseteq recorded',
         recorded' \subseteq recorded \cup ({s} \X Nat), lost \subseteq lost',
         NEW r \in Requests, post' = [post EXCEPT ![s] = r],
         NEW m \in 1..Lines + 1, next' = [next EXCEPT ![s] = m],
         \A l \in 1..Lines : l < m => Stands(s, l, recorded'),
         Through(s, r, m, recorded'),
         s \in Resuming \ lost' => Past(s, r, m, recorded')
  PROVE  /\ post' \in [Senders -> Requests] /\ next' \in [Senders -> 1..Lines + 1]
         /\ \A t \in Senders : Sending(t)'
         /\ ToldIsRecorded'
<1>1. post \in [Senders -> Requests] /\ next \in [Senders -> 1..Lines + 1]
  BY DEF IInv, Typed
<1>2. post' \in [Senders -> Requests] /\ next' \in [Senders -> 1..Lines + 1]
  BY <1>1
<1>3. \A t, l : Stands(t, l, recorded) => Stands(t, l, recorded')
  BY StandsGrows
<1>4. ASSUME NEW t \in Senders
      PROVE  Sending(t)'
  <2>1. CASE t = s
    <3>1. post'[t] = r /\ next'[t] = m
      BY <1>1, <2>1
    <3> QED
      BY <2>1, <3>1 DEF Sending
  <2>2. CASE t # s
    <3>1. post'[t] = post[t] /\ next'[t] = next[t]
      BY <1>1, <2>2
    <3>2. Sending(t)
      BY DEF IInv
    <3>3. Through(t, post[t], next[t], recorded')
      BY <1>3, <3>2 DEF Sending, Through
    <3>4. ASSUME NEW l \in Nat, <<t, l>> \in recorded'
          PROVE  <<t, l>> \in recorded
      BY <2>2, <3>4
    <3>5. t \in Resuming \ lost' => Past(t, post[t], next[t], recorded')
      BY <3>2, <3>4 DEF Sending, Past
    <3> QED
      BY <3>1, <3>3, <3>5 DEF Sending
  <2> QED
    BY <2>1, <2>2
<1>5. ASSUME NEW t \in Senders, NEW l \in 1..Lines, l < next'[t]
      PROVE  Stands(t, l, recorded')
  <2>1. CASE t = s
    BY <1>1, <1>5, <2>1
  <2>2. CASE t # s
    <3>1. next'[t] = next[t]
      BY <1>1, <2>2
    <3> QED
      BY <1>3, <1>5, <3>1 DEF IInv, ToldIsRecorded
  <2> QED
    BY <2>1, <2>2
<1> QED
  BY <1>2, <1>4, <1>5 DEF ToldIsRecorded

\* So does one that leaves alone what its sender knows.
LEMMA OneRequest ==
  ASSUME IInv, NEW s \in Senders, recorded \subseteq recorded', next' = next,
         recorded' \subseteq recorded \cup ({s} \X Nat), lost \subseteq lost',
         NEW r \in Requests, post' = [post EXCEPT ![s] = r],
         Through(s, r, next[s], recorded'),
         s \in Resuming \ lost' => Past(s, r, next[s], recorded')
  PROVE  /\ post' \in [Senders -> Requests] /\ next' \in [Senders -> 1..Lines + 1]
         /\ \A t \in Senders : Sending(t)'
         /\ ToldIsRecorded'
<1>1. next \in [Senders -> 1..Lines + 1]
  BY DEF IInv, Typed
<1>2. next' = [next EXCEPT ![s] = next[s]] /\ next[s] \in 1..Lines + 1
  BY <1>1
<1>3. \A l \in 1..Lines : l < next[s] => Stands(s, l, recorded')
  BY StandsGrows DEF IInv, ToldIsRecorded
<1> QED
  BY <1>2, <1>3, OneSender

\* A request begins where its sender may begin.
LEMMA PostKeeps ==
  ASSUME IInv, NEW s \in Senders, Post(s)
  PROVE  IInv'
<1>1. /\ Lines \in Nat \ {0} /\ Lifetime \in Nat /\ MaxTries \in Nat
      /\ next[s] \in 1..Lines + 1 /\ tries \in 0..MaxTries /\ clock \in Nat
  BY FeedAssumption DEF FeedAssumption, IInv, Typed
<1> DEFINE r == [from |-> IF s \in Resuming THEN next[s] ELSE 1,
                 n |-> 0, left |-> Lifetime, status |-> 0]
<1>2. r \in Requests
  BY <1>1 DEF Requests, Post
<1>3. r.status = 0 /\ r.n = 0 /\ r.from = IF s \in Resuming THEN next[s] ELSE 1
  OBVIOUS
<1>4. /\ post' = [post EXCEPT ![s] = r] /\ next[s] <= Lines /\ tries' \in 0..MaxTries
      /\ next' = next /\ UNCHANGED <<clock, feed, reports, arrived, recorded, lost>>
  BY <1>1 DEF Post
<1> HIDE DEF r
<1>5. r.from \in 1..Lines /\ r.from + r.n <= Lines + 1
  BY <1>1, <1>3, <1>4
<1>6. \A l \in 1..Lines : l < r.from + r.n => Stands(s, l, recorded')
  <2>1. \A l \in 1..Lines : l < next[s] => Stands(s, l, recorded')
    BY <1>4 DEF IInv, ToldIsRecorded
  <2> QED
    BY <1>1, <1>3, <2>1
<1>7. /\ post' \in [Senders -> Requests] /\ next' \in [Senders -> 1..Lines + 1]
      /\ (\A t \in Senders : Sending(t)') /\ ToldIsRecorded'
  <2>1. Through(s, r, next[s], recorded')
    BY <1>3, <1>5, <1>6 DEF Through
  <2>2. /\ recorded' = recorded /\ lost' = lost /\ next' = next
        /\ post' = [post EXCEPT ![s] = r]
    BY <1>4
  <2>3. s \in Resuming \ lost' => Past(s, r, next[s], recorded')
    <3>1. SUFFICES ASSUME s \in Resuming \ lost PROVE Past(s, r, next[s], recorded)
      BY <2>2
    <3>2. Past(s, post[s], next[s], recorded) /\ post[s].from = 0
      BY <3>1 DEF IInv, Sending, Post, Idle
    <3>3. r.from + r.n = next[s]
      BY <1>1, <1>3, <3>1
    <3> QED
      BY <3>2, <3>3 DEF Past
  <2> QED
    BY <1>2, <2>1, <2>2, <2>3, OneRequest
<1>8. Feed'
  BY <1>1, <1>4, FeedStays DEF IInv
<1> QED
  BY <1>4, <1>7, <1>8 DEF IInv, Typed

\* A line recorded is the next one of its request.
LEMMA DecodeKeeps ==
  ASSUME IInv, NEW s \in Senders, DecodeAndRecord(s)
  PROVE  IInv'
<1> DEFINE e == [at |-> Clamped(Claimed[s][Line(s)]), src |-> s, line |-> Line(s),
                 id |-> EventID(s, Line(s), post[s].n), no |-> arrived + 1]
<1>1. InHandler(s) /\ Line(s) <= Lines /\ Lines \in Nat
  BY FeedAssumption DEF FeedAssumption, DecodeAndRecord
<1>2. /\ RecordAgent(e) /\ clock' = clock /\ next' = next /\ tries' = tries
      /\ reports' = reports /\ lost' = lost /\ post' = [post EXCEPT ![s].n = @ + 1]
  BY DEF DecodeAndRecord, source
<1>3. Due(e) /\ e.src = s /\ e.line = Line(s)
  BY <1>1, LineDue
<1> HIDE DEF e
<1>4. /\ Feed' /\ arrived' \in Nat /\ recorded' \subseteq (Nat \X Nat)
      /\ recorded \subseteq recorded' /\ Stands(s, Line(s), recorded')
      /\ recorded' \subseteq recorded \cup {<<s, Line(s)>>}
  BY <1>2, <1>3, RecordKeeps DEF IInv
<1>5. Line(s) \in 1..Lines /\ post[s].from \in 1..Lines /\ post[s].n \in 0..Lines - 1
      /\ Line(s) = post[s].from + post[s].n
  BY <1>1, LineFacts DEF Line
<1>6. PICK c \in 0..Lines : c = post[s].n + 1
  BY <1>1, <1>5
<1> DEFINE r == [post[s] EXCEPT !.n = c]
<1>7. post' = [post EXCEPT ![s] = r]
  BY <1>2, <1>6
<1>8. post[s] \in Requests
  BY DEF IInv, Typed
<1>9. r \in Requests /\ r.from = post[s].from /\ r.n = c /\ r.status = 0
  BY <1>1, <1>6, <1>8 DEF Requests, InHandler
<1> HIDE DEF r
<1>10. r.from + r.n = Line(s) + 1
  BY <1>5, <1>6, <1>9
<1>11. \A l \in 1..Lines : l < Line(s) => Stands(s, l, recorded')
  BY <1>4, <1>5, StandsGrows DEF IInv, Sending, Through
<1>12. \A l \in 1..Lines : l < r.from + r.n => Stands(s, l, recorded')
  <2>1. \A l \in 1..Lines : l < r.from + r.n => l < Line(s) \/ l = Line(s)
    BY <1>5, <1>10
  <2> QED
    BY <1>4, <1>11, <2>1
<1>13. r.from + r.n <= Lines + 1 /\ r.from > 0
       /\ r.from = IF s \in Resuming THEN next[s] ELSE 1
  <2>1. r.from + r.n <= Lines + 1 /\ r.from > 0
    BY <1>1, <1>5, <1>9, <1>10
  <2>2. post[s].from = IF s \in Resuming THEN next[s] ELSE 1
    BY <1>5 DEF IInv, Sending, Through
  <2> QED
    BY <1>9, <2>1, <2>2
<1>14. /\ post' \in [Senders -> Requests] /\ next' \in [Senders -> 1..Lines + 1]
       /\ (\A t \in Senders : Sending(t)') /\ ToldIsRecorded'
  <2>1. Through(s, r, next[s], recorded')
    BY <1>9, <1>12, <1>13 DEF Through
  <2>2. /\ recorded \subseteq recorded' /\ next' = next /\ r \in Requests /\ lost' = lost
        /\ recorded' \subseteq recorded \cup ({s} \X Nat)
    BY <1>2, <1>4, <1>5, <1>9
  <2>3. s \in Resuming \ lost' => Past(s, r, next[s], recorded')
    <3>1. SUFFICES ASSUME s \in Resuming \ lost, NEW l \in Nat, <<s, l>> \in recorded'
                   PROVE  l < Line(s) + 1
      BY <1>10, <1>13, <2>2 DEF Past
    <3>2. CASE l = Line(s)
      BY <1>5, <3>2
    <3>3. CASE <<s, l>> \in recorded
      <4>1. l < Line(s)
        BY <1>5, <3>1, <3>3 DEF IInv, Sending, Past
      <4> QED
        BY <1>5, <4>1
    <3> QED
      BY <1>4, <3>1, <3>2, <3>3
  <2> QED
    BY <1>7, <2>1, <2>2, <2>3, OneRequest
<1> QED
  BY <1>2, <1>4, <1>14 DEF IInv, Typed

\* The steps that only bring a request closer to its end.
LEMMA AnsweringKeeps ==
  ASSUME IInv, NEW s \in Senders,
         fail(s) \/ Accept(s) \/ Drip(s) \/ Answer(s) \/ AnswerLost(s)
  PROVE  IInv'
<1>1. /\ Lines \in Nat \ {0} /\ Lifetime \in Nat /\ clock \in Nat
      /\ post[s] \in Requests /\ post \in [Senders -> Requests] /\ Sending(s)
      /\ next \in [Senders -> 1..Lines + 1] /\ lost \subseteq Senders
  BY FeedAssumption DEF FeedAssumption, IInv, Typed
<1>2. /\ UNCHANGED <<clock, tries, feed, reports, arrived, recorded>>
      /\ lost \subseteq lost' /\ lost' \subseteq Senders
  BY <1>1 DEF fail, Accept, Ended, Drip, Answer, AnswerLost, source
<1>3. Feed'
  BY <1>1, <1>2, FeedStays DEF IInv
<1>4. SUFFICES /\ post' \in [Senders -> Requests] /\ next' \in [Senders -> 1..Lines + 1]
               /\ (\A t \in Senders : Sending(t)') /\ ToldIsRecorded'
  BY <1>2, <1>3 DEF IInv, Typed
<1>5. ASSUME NEW st \in {202, 400}, Ended(s, st), st = 202 => Line(s) > Lines
      PROVE  /\ post' \in [Senders -> Requests] /\ next' \in [Senders -> 1..Lines + 1]
             /\ (\A t \in Senders : Sending(t)') /\ ToldIsRecorded'
  <2> DEFINE r == [post[s] EXCEPT !.status = st]
  <2>1. post' = [post EXCEPT ![s] = r] /\ next' = next /\ post[s].from > 0
    BY <1>5 DEF Ended, source, InHandler
  <2>2. r \in Requests /\ r.from = post[s].from /\ r.n = post[s].n /\ r.status = st
    BY <1>1 DEF Requests
  <2> HIDE DEF r
  <2>3. Through(s, r, next[s], recorded')
    BY <1>1, <1>2, <1>5, <2>1, <2>2 DEF Sending, Through, Line
  <2>4. s \in Resuming \ lost' => Past(s, r, next[s], recorded')
    BY <1>1, <1>2, <2>2 DEF Sending, Past
  <2> QED
    BY <1>2, <2>1, <2>2, <2>3, <2>4, OneRequest
<1>6. CASE fail(s)
  BY <1>5, <1>6 DEF fail
<1>7. CASE Accept(s)
  BY <1>5, <1>7 DEF Accept
<1>8. CASE Drip(s)
  <2>1. post[s].left > 0 /\ post[s].left \in 0..Lifetime
    BY <1>1, <1>8 DEF Drip, Requests
  <2>2. PICK c \in 0..Lifetime : c = Extended(post[s].left)
    BY <1>1, <2>1 DEF Extended
  <2> DEFINE r == [post[s] EXCEPT !.left = c]
  <2>3. post' = [post EXCEPT ![s] = r] /\ next' = next /\ post[s].from > 0
    BY <1>8, <2>2 DEF Drip, source, InHandler
  <2>4. r \in Requests /\ r.from = post[s].from /\ r.n = post[s].n
        /\ r.status = post[s].status
    BY <1>1 DEF Requests
  <2> HIDE DEF r
  <2>5. Through(s, r, next[s], recorded')
    BY <1>1, <1>2, <2>3, <2>4 DEF Sending, Through
  <2>6. s \in Resuming \ lost' => Past(s, r, next[s], recorded')
    BY <1>1, <1>2, <2>4 DEF Sending, Past
  <2> QED
    BY <1>2, <2>3, <2>4, <2>5, <2>6, OneRequest
<1>9. Idle \in Requests /\ Idle.from = 0 /\ Idle.status = 0
  BY <1>1 DEF Idle, Requests
<1>10. CASE AnswerLost(s)
  <2>1. post' = [post EXCEPT ![s] = Idle] /\ next' = next /\ s \in lost'
    BY <1>10 DEF AnswerLost
  <2>2. Through(s, Idle, next[s], recorded')
    BY <1>9 DEF Through
  <2> QED
    BY <1>2, <1>9, <2>1, <2>2, OneRequest
<1>11. CASE Answer(s)
  <2>1. /\ post' = [post EXCEPT ![s] = Idle] /\ next' = [next EXCEPT ![s] = Told(s)]
        /\ post[s].status # 0
    BY <1>11 DEF Answer
  <2>2. post[s].from > 0 /\ post[s].from \in Nat /\ post[s].n \in Nat
    BY <1>1, <2>1 DEF Sending, Through, Requests
  <2>3. Line(s) \in Nat /\ 0 < Line(s) /\ Line(s) <= Lines + 1
    BY <1>1, <2>2 DEF Sending, Through, Line
  <2>4. \A l \in 1..Lines : l < Line(s) => Stands(s, l, recorded)
    BY <1>1, <2>2 DEF Sending, Through, Line
  <2>5. PICK m : m = Told(s)
    OBVIOUS
  <2>6. m \in 1..Lines + 1
    BY <1>1, <2>3, <2>5 DEF Told
  <2>7. ASSUME NEW l \in 1..Lines, l < m
        PROVE  Stands(s, l, recorded)
    <3>1. CASE post[s].status = 202
      <4>1. Line(s) > Lines
        BY <1>1, <2>2, <3>1 DEF Sending, Through, Line
      <4> QED
        BY <1>1, <2>3, <2>4, <4>1
    <3>2. CASE post[s].status # 202 /\ s \in Resuming
      BY <2>4, <2>5, <2>7, <3>2 DEF Told
    <3>3. CASE post[s].status # 202 /\ s \notin Resuming
      <4>1. m = next[s]
        BY <2>5, <3>3 DEF Told
      <4> QED
        BY <2>7, <4>1 DEF IInv, ToldIsRecorded
    <3> QED
      BY <3>1, <3>2, <3>3
  <2>8. Through(s, Idle, m, recorded')
    BY <1>9 DEF Through
  <2>9. next' = [next EXCEPT ![s] = m] /\ post' = [post EXCEPT ![s] = Idle]
    BY <2>1, <2>5
  <2>10. \A l \in 1..Lines : l < m => Stands(s, l, recorded')
    BY <1>2, <2>7
  <2>11. s \in Resuming \ lost' => Past(s, Idle, m, recorded')
    <3>1. SUFFICES ASSUME s \in Resuming \ lost, NEW l \in Nat, <<s, l>> \in recorded
                   PROVE  l < m
      BY <1>2, <1>9 DEF Past
    <3>2. l < Line(s)
      BY <1>1, <2>2, <3>1 DEF Sending, Past, Line
    <3>3. Line(s) <= m
      BY <1>1, <2>3, <2>5, <3>1 DEF Told
    <3> QED
      BY <2>3, <2>6, <3>2, <3>3
  <2> QED
    BY <1>2, <1>9, <2>6, <2>8, <2>9, <2>10, <2>11, OneSender
<1> QED
  BY <1>6, <1>7, <1>8, <1>10, <1>11

\* The follower and the clock leave the requests alone.
LEMMA OutsideKeeps ==
  ASSUME IInv, Report \/ Tick \/ UNCHANGED vars
  PROVE  IInv'
<1>1. next' = next /\ post' = post /\ tries' = tries /\ lost' = lost
  BY DEF Report, Tick, vars, source
<1>2. clock \in Nat /\ reports \in Nat
  BY DEF IInv, Typed
<1>3. SUFFICES /\ Feed' /\ recorded \subseteq recorded' /\ clock' \in Nat
               /\ reports' \in Nat /\ arrived' \in Nat /\ recorded' \subseteq (Nat \X Nat)
               /\ recorded' \subseteq recorded \cup ({0} \X Nat)
  <2>3. \A s, l : Stands(s, l, recorded) => Stands(s, l, recorded')
    BY <1>3, StandsGrows
  <2>1. ASSUME NEW s \in Senders
        PROVE  Sending(s)'
    <3>1. Sending(s) /\ s # 0
      BY FeedAssumption DEF FeedAssumption, IInv
    <3>2. Through(s, post[s], next[s], recorded')
      BY <2>3, <3>1 DEF Sending, Through
    <3>3. \A l \in Nat : <<s, l>> \in recorded' => <<s, l>> \in recorded
      BY <1>3, <3>1
    <3> QED
      BY <1>1, <3>1, <3>2, <3>3 DEF Sending, Past
  <2>2. ToldIsRecorded'
    BY <1>1, <2>3 DEF IInv, ToldIsRecorded
  <2> QED
    BY <1>1, <1>3, <2>1, <2>2 DEF IInv, Typed
<1>4. CASE Report
  <2> DEFINE e == [at |-> clock, src |-> 0, id |-> <<0, reports + 1>>, line |-> reports + 1,
                   no |-> arrived + 1]
  <2>1. RecordAgent(e) /\ clock' = clock /\ reports' = reports + 1
    BY <1>4 DEF Report
  <2>2. Due(e) /\ e.src = 0 /\ e.line = reports + 1
    BY ReportDue
  <2> HIDE DEF e
  <2>3. Typed /\ Feed
    BY DEF IInv
  <2>4. /\ Feed' /\ recorded \subseteq recorded' /\ arrived' \in Nat
        /\ recorded' \subseteq (Nat \X Nat) /\ recorded' \subseteq recorded \cup ({0} \X Nat)
    BY <1>1, <1>2, <2>1, <2>2, <2>3, RecordKeeps
  <2>5. clock' \in Nat /\ reports' \in Nat
    BY <1>2, <2>1
  <2> QED
    BY <2>4, <2>5
<1>5. CASE Tick \/ UNCHANGED vars
  <2>1. /\ UNCHANGED <<feed, arrived, recorded, reports>> /\ clock' \in Nat /\ clock <= clock'
    BY <1>2, <1>5 DEF Tick, vars
  <2> QED
    BY <1>1, <2>1, FeedStays DEF IInv, Typed
<1> QED
  BY <1>4, <1>5

\* At the start nothing was sent and the feed is empty.
LEMMA InitHolds == Init => IInv
<1> SUFFICES ASSUME Init PROVE IInv
  OBVIOUS
<1>1. Lines \in Nat \ {0} /\ Lifetime \in Nat /\ MaxTries \in Nat /\ Cap \in Nat \ {0}
  BY FeedAssumption DEF FeedAssumption
<1>2. Idle \in Requests /\ Idle.from = 0 /\ Idle.status = 0
  BY <1>1 DEF Idle, Requests
<1>3. Typed
  BY <1>1, <1>2 DEF Init, Typed
<1>4. Feed
  <2>1. feed = <<>> /\ Len(feed) = 0 /\ feed \in Seq(Event)
    BY DEF Init
  <2>2. DOMAIN feed = {}
    BY <2>1
  <2>3. Kept = {}
    BY <2>2 DEF Kept, Elements
  <2>4. Len(feed) <= Cap
    BY <1>1, <2>1
  <2>5. Ordered(feed)
    BY <2>2 DEF Ordered
  <2> QED
    BY <2>1, <2>3, <2>4, <2>5 DEF Feed
<1>5. ASSUME NEW s \in Senders
      PROVE  Sending(s)
  <2>1. post[s] = Idle
    BY DEF Init
  <2> QED
    BY <1>2, <2>1 DEF Init, Sending, Through, Past
<1>6. ToldIsRecorded
  BY <1>1 DEF Init, ToldIsRecorded
<1> QED
  BY <1>3, <1>4, <1>5, <1>6 DEF IInv

\* Every step of the senders, the server and the clock keeps the invariant.
LEMMA NextKeeps == IInv /\ [Next]_vars => IInv'
<1> SUFFICES ASSUME IInv, [Next]_vars PROVE IInv'
  OBVIOUS
<1>1. CASE \E s \in Senders : Post(s) \/ handlePost(s)
  BY <1>1, PostKeeps, DecodeKeeps, AnsweringKeeps DEF handlePost
<1>2. CASE Report \/ Tick \/ UNCHANGED vars
  BY <1>2, OutsideKeeps
<1> QED
  BY <1>1, <1>2 DEF Next

(***************************************************************************)
(* What follows                                                            *)
(***************************************************************************)
\* The inductive invariant holds throughout: the feed is strictly ordered, its ids are those
\* its lines may bear, and every request is where what it recorded says (handlePost,
\* RecordAgent).
THEOREM Invariant == Spec => []IInv
<1> QED
  BY InitHolds, NextKeeps, PTL DEF Spec

\* No event stands in two places of the feed.
LEMMA DistinctElements ==
  ASSUME Feed, NEW j \in DOMAIN feed, NEW k \in DOMAIN feed, j # k
  PROVE  feed[j] # feed[k]
<1>1. feed[j] \in Event /\ feed[k] \in Event
  BY ElementOfSeq, LenProperties DEF Feed
<1>2. DOMAIN feed \subseteq Nat
  BY LenProperties DEF Feed
<1>3. j < k \/ k < j
  BY <1>2
<1>4. Later(feed[k], feed[j]) \/ Later(feed[j], feed[k])
  BY <1>3 DEF Feed, Ordered
<1> QED
  BY <1>1, <1>4, LaterOrder

\* The feed is what its readers take it for: sorted, bounded, one event per id, and never
\* ahead of the clock (core.Snapshot.Agents, RecordAgent).
THEOREM FeedIsSound == Spec => []FeedSound
<1>1. ASSUME IInv
      PROVE  FeedSound
  <2>1. Feed /\ Typed /\ feed \in Seq(Event)
    BY <1>1 DEF IInv, Feed
  <2>2. TypeOK
    BY <2>1 DEF TypeOK, Typed, Requests
  <2>3. Sorted
    <3>1. ASSUME NEW j \in DOMAIN feed, NEW k \in DOMAIN feed, j < k
          PROVE  ~agentCmpLess(feed[k], feed[j])
      <4>1. feed[j] \in Event /\ feed[k] \in Event
        BY <2>1, ElementOfSeq, LenProperties
      <4>2. Later(feed[k], feed[j])
        BY <2>1, <3>1 DEF Feed, Ordered
      <4> QED
        BY <4>1, <4>2, LaterOrder DEF Later
    <3> QED
      BY <3>1 DEF Sorted
  <2>4. Distinct
    <3>1. ASSUME NEW j \in DOMAIN feed, NEW k \in DOMAIN feed, j # k
          PROVE  ~SameId(feed[j], feed[k])
      <4>1. feed[j] # feed[k]
        BY <2>1, <3>1, DistinctElements
      <4> QED
        BY <2>1, <4>1 DEF Feed, Kept, Elements
    <3> QED
      BY <3>1 DEF Distinct
  <2>5. Bounded /\ NotAhead
    BY <2>1 DEF Bounded, NotAhead, Feed, Kept, Elements
  <2> QED
    BY <2>2, <2>3, <2>4, <2>5 DEF FeedSound
<1> QED
  BY <1>1, Invariant, PTL

\* A line that bears an id, or is replayed under a key, or is resumed by a sender that
\* missed no answer, is in the feed once, whatever is retried (derivedEventID, fail).
THEOREM RetriesCountOnce == Spec => []RetriedOnce
<1>1. ASSUME IInv
      PROVE  RetriedOnce
  <2>1. Feed
    BY <1>1 DEF IInv
  <2>2. ASSUME NEW j \in DOMAIN feed, NEW k \in DOMAIN feed, j # k,
               feed[j].src \in Senders, Safe(feed[j].src, feed[j].line),
               feed[j].src = feed[k].src
        PROVE  feed[j].line # feed[k].line
    <3>1. feed[j] # feed[k]
      BY <2>1, <2>2, DistinctElements
    <3>2. Single(feed[j], feed[k])
      BY <2>1 DEF Feed, Kept, Elements
    <3> QED
      BY <2>2, <3>1, <3>2 DEF Single
  <2> QED
    BY <2>2 DEF RetriedOnce
<1> QED
  BY <1>1, Invariant, PTL

\* What a sender takes for recorded is, itself or by an event of the same id: nothing else
\* is acknowledged (handlePost, HasAgentID).
THEOREM ToldOnlyRecorded == Spec => []ToldIsRecorded
<1>1. IInv => ToldIsRecorded
  BY DEF IInv
<1> QED
  BY <1>1, Invariant, PTL
(***************************************************************************)
(* The feed implements EventLog                                            *)
(***************************************************************************)
\* In an ordered feed, what is later than an element is what stands behind it.
LEMMA RankOf ==
  ASSUME NEW t \in Seq(Event), Ordered(t), NEW j \in 1..Len(t)
  PROVE  Cardinality({x \in Elements(t) : Later(x, t[j])}) = Len(t) - j
<1> DEFINE n == Len(t)
           I == j + 1..n
           B == {x \in Elements(t) : Later(x, t[j])}
           F == [k \in I |-> t[k]]
<1>1. n \in Nat /\ DOMAIN t = 1..n /\ \A k \in 1..n : t[k] \in Event
  BY LenProperties, ElementOfSeq
<1>2. ASSUME NEW k \in I
      PROVE  k \in 1..n /\ t[k] \in B
  <2>1. k \in 1..n /\ j < k
    BY <1>1
  <2>2. Later(t[k], t[j])
    BY <1>1, <2>1 DEF Ordered
  <2> QED
    BY <1>1, <2>1, <2>2 DEF Elements
<1>3. ASSUME NEW x \in B
      PROVE  \E k \in I : t[k] = x
  <2>1. PICK k \in 1..n : t[k] = x
    BY <1>1 DEF Elements
  <2>2. Later(t[k], t[j])
    BY <2>1
  <2>3. ~(k < j)
    <3>1. k < j => Later(t[j], t[k])
      BY <1>1 DEF Ordered
    <3> QED
      BY <1>1, <2>2, <3>1, LaterOrder
  <2>4. k # j
    BY <1>1, <2>2, LaterOrder
  <2>5. k \in I
    BY <1>1, <2>3, <2>4
  <2> QED
    BY <2>1, <2>5
<1>4. ASSUME NEW k \in I, NEW m \in I, t[k] = t[m]
      PROVE  k = m
  <2>1. k \in 1..n /\ m \in 1..n /\ t[k] \in Event /\ t[m] \in Event
    BY <1>1, <1>2
  <2>2. k < m => Later(t[m], t[k])
    BY <1>1, <2>1 DEF Ordered
  <2>3. m < k => Later(t[k], t[m])
    BY <1>1, <2>1 DEF Ordered
  <2>4. ~(k < m) /\ ~(m < k)
    BY <1>4, <2>1, <2>2, <2>3, LaterOrder
  <2>5. k \in Int /\ m \in Int
    BY <2>1
  <2> QED
    BY <2>4, <2>5
<1>5. j + 1 \in Int /\ n \in Int
  BY <1>1
<1> HIDE DEF B, n
<1>6. IsFiniteSet(I) /\ Cardinality(I) = n - j
  <2>1. IsFiniteSet(I) /\ Cardinality(I) = IF j + 1 > n THEN 0 ELSE n - (j + 1) + 1
    BY <1>5, FS_Interval
  <2>2. j \in Int /\ j <= n
    BY <1>5 DEF n
  <2> QED
    BY <1>5, <2>1, <2>2
<1> HIDE DEF I
<1>7. F \in [I -> B]
  BY <1>2
<1>8. \A k \in I : F[k] = t[k]
  OBVIOUS
<1> HIDE DEF F
<1>9. \A a, b \in I : F[a] = F[b] => a = b
  BY <1>4, <1>8
<1>10. \A x \in B : \E k \in I : F[k] = x
  BY <1>3, <1>8
<1>11. F \in Bijection(I, B)
  BY <1>7, <1>9, <1>10, Fun_IsBij
<1>12. ExistsBijection(I, B)
  BY <1>11 DEF ExistsBijection
<1>13. Cardinality(B) = n - j
  BY <1>6, <1>12, FS_Bijection
<1> QED
  BY <1>13 DEF B, n

\* The log counts as the feed does.
LEMMA SameCardinality ==
  ASSUME NEW S
  PROVE  Log!Cardinality(S) = Cardinality(S)
BY Zenon DEF Log!Cardinality, Cardinality

\* Cutting off the first of one too many leaves the newest Cap.
LEMMA TrimIsNewest ==
  ASSUME NEW t \in Seq(Event), Ordered(t), Len(t) <= Cap + 1, Cap \in Nat \ {0}
  PROVE  Log!Newest(Elements(t)) = Elements(Trimmed(t))
<1>1. Len(t) \in Nat
  BY LenProperties
<1>2. DOMAIN t = 1..Len(t)
  BY LenProperties
<1>3. ASSUME NEW j \in 1..Len(t)
      PROVE  t[j] \in Log!Newest(Elements(t)) <=> Len(t) - j < Cap
  <2>1. t[j] \in Elements(t)
    BY <1>2 DEF Elements
  <2>2. Cardinality({x \in Elements(t) : Later(x, t[j])}) = Len(t) - j
    BY RankOf
  <2>3. t[j] \in Log!Newest(Elements(t))
        <=> Cardinality({x \in Elements(t) : Later(x, t[j])}) < Cap
    BY <2>1, SameCardinality, Zenon DEF Log!Newest
  <2> QED
    BY <2>2, <2>3
<1>4. Log!Newest(Elements(t)) \subseteq Elements(t)
  BY DEF Log!Newest
<1>5. CASE Len(t) <= Cap
  <2>1. Trimmed(t) = t
    BY <1>5, TrimFacts
  <2>2. ASSUME NEW x \in Elements(t)
        PROVE  x \in Log!Newest(Elements(t))
    <3>1. PICK j \in 1..Len(t) : t[j] = x
      BY <1>2 DEF Elements
    <3>2. Len(t) - j < Cap
      BY <1>1, <1>5
    <3> QED
      BY <1>3, <3>1, <3>2
  <2> QED
    BY <1>4, <2>1, <2>2
<1>6. CASE Len(t) = Cap + 1
  <2>1. Elements(Trimmed(t)) = {t[k] : k \in 2..Cap + 1}
    BY <1>6, TrimElements
  <2>2. ASSUME NEW k \in 2..Cap + 1
        PROVE  t[k] \in Log!Newest(Elements(t))
    <3>1. k \in 1..Len(t) /\ Len(t) - k < Cap
      BY <1>6
    <3> QED
      BY <1>3, <3>1
  <2>3. ASSUME NEW x \in Log!Newest(Elements(t))
        PROVE  x \in {t[k] : k \in 2..Cap + 1}
    <3>1. PICK j \in 1..Len(t) : t[j] = x
      BY <1>2, <1>4 DEF Elements
    <3>2. Len(t) - j < Cap
      BY <1>3, <3>1
    <3>3. j \in 2..Cap + 1
      BY <1>6, <3>2
    <3> QED
      BY <3>1, <3>3
  <2> QED
    BY <2>1, <2>2, <2>3
<1>7. Len(t) <= Cap \/ Len(t) = Cap + 1
  BY <1>1
<1> QED
  BY <1>5, <1>6, <1>7

\* An event is added to the log, or it is too old for it, or it is there already.
LEMMA RecordLogs ==
  ASSUME Typed, Feed, NEW e, Due(e), RecordAgent(e)
  PROVE  Kept' = Kept \/ (e \in Kept' /\ (\A k \in Kept : ~SameId(k, e))
                          /\ Kept' = Log!Newest(Kept \cup {e}))
<1>1. /\ e \in Event /\ e.no = arrived + 1 /\ arrived \in Nat
      /\ feed \in Seq(Event) /\ Cap \in Nat \ {0}
  BY FeedAssumption DEF FeedAssumption, Due, Typed, Feed
<1>2. CASE HasAgentID(feed, e)
  BY <1>2 DEF RecordAgent, Kept, Elements
<1>3. CASE ~HasAgentID(feed, e)
  <2> DEFINE t == insertSorted(feed, e)
             p == Position(feed, e)
  <2>1. feed' = Trimmed(t)
    BY <1>3 DEF RecordAgent
  <2>2. \A k \in Kept : ~SameId(k, e)
    BY <1>3 DEF HasAgentID, SameId, Kept, Elements
  <2>3. /\ t \in Seq(Event) /\ Len(t) = Len(feed) + 1 /\ Elements(t) = Kept \cup {e}
        /\ p \in 1..Len(t) /\ t[p] = e
        /\ \A k \in 1..Len(t) : p < k => k - 1 \in 1..Len(feed) /\ t[k] = feed[k - 1]
    BY <1>1, InsertFacts, InsertElements DEF Kept
  <2>4. Ordered(t)
    <3>1. ASSUME NEW k \in DOMAIN feed
          PROVE  feed[k].no < e.no
      <4>1. feed[k].no <= arrived
        BY DEF Feed, Kept, Elements, Numbered
      <4>2. feed[k] \in Event
        BY <1>1, ElementOfSeq, LenProperties
      <4> QED
        BY <1>1, <4>1, <4>2 DEF Event
    <3>2. Ordered(feed)
      BY DEF Feed
    <3> QED
      BY <1>1, <3>1, <3>2, InsertOrdered
  <2> HIDE DEF t, p
  <2>5. Len(feed) \in Nat /\ Len(feed) <= Cap
    BY <1>1, LenProperties DEF Feed
  <2>6. Len(t) <= Cap + 1
    BY <1>1, <2>3, <2>5
  <2>7. Kept' = Elements(Trimmed(t))
    BY <2>1 DEF Kept, Elements
  <2>8. Kept' = Log!Newest(Kept \cup {e})
    BY <1>1, <2>3, <2>4, <2>6, <2>7, TrimIsNewest
  <2>9. CASE e \in Kept'
    BY <2>2, <2>8, <2>9
  <2>10. CASE e \notin Kept'
    <3>1. Len(t) = Cap + 1
      <4>1. Len(t) <= Cap => Trimmed(t) = t
        BY <1>1, <2>3, <2>6, TrimFacts
      <4>2. e \in Elements(t)
        BY <2>3
      <4>3. ~(Len(t) <= Cap)
        BY <2>7, <2>10, <4>1, <4>2
      <4> QED
        BY <1>1, <2>3, <2>5, <4>3
    <3>2. Kept' = {t[k] : k \in 2..Cap + 1}
      BY <1>1, <2>3, <2>6, <2>7, <3>1, TrimElements
    <3>3. p = 1
      <4>1. p \notin 2..Cap + 1
        BY <2>3, <2>10, <3>2
      <4>2. p \in 1..Cap + 1
        BY <2>3, <3>1
      <4> QED
        BY <1>1, <4>1, <4>2
    <3>4. Len(feed) = Cap
      BY <1>1, <2>3, <2>5, <3>1
    <3>5. ASSUME NEW k \in 2..Cap + 1
          PROVE  t[k] = feed[k - 1]
      <4>1. k \in 1..Len(t) /\ p < k
        BY <1>1, <3>1, <3>3
      <4> QED
        BY <2>3, <4>1
    <3>6. DOMAIN feed = 1..Cap
      BY <1>1, <3>4, LenProperties
    <3>7. ASSUME NEW x \in Kept'
          PROVE  x \in Kept
      <4>1. PICK k \in 2..Cap + 1 : x = feed[k - 1]
        BY <3>2, <3>5
      <4>2. k - 1 \in 1..Cap
        BY <1>1
      <4> QED
        BY <3>6, <4>1, <4>2 DEF Kept, Elements
    <3>8. ASSUME NEW x \in Kept
          PROVE  x \in Kept'
      <4>1. PICK k \in 1..Cap : x = feed[k]
        BY <3>6 DEF Kept, Elements
      <4>2. k + 1 \in 2..Cap + 1 /\ (k + 1) - 1 = k
        BY <1>1
      <4>3. t[k + 1] = feed[k]
        BY <3>5, <4>2
      <4> QED
        BY <3>2, <4>1, <4>2, <4>3
    <3> QED
      BY <3>7, <3>8
  <2> QED
    BY <2>9, <2>10
<1> QED
  BY <1>2, <1>3

\* Every step of the feed is a step of the log, or leaves it alone.
LEMMA NextLogs ==
  ASSUME IInv, [Next]_vars
  PROVE  Kept' = Kept \/ \E e \in Kept' : (\A k \in Kept : ~SameId(k, e))
                                           /\ Kept' = Log!Newest(Kept \cup {e})
<1>1. Typed /\ Feed
  BY DEF IInv
<1>2. CASE feed' = feed
  BY <1>2 DEF Kept, Elements
<1>3. ASSUME NEW s \in Senders, DecodeAndRecord(s)
      PROVE  \E e : Due(e) /\ RecordAgent(e)
  BY <1>3, LineDue DEF DecodeAndRecord
<1>4. ASSUME Report
      PROVE  \E e : Due(e) /\ RecordAgent(e)
  BY <1>4, ReportDue DEF Report
<1>5. feed' = feed \/ Report \/ \E s \in Senders : DecodeAndRecord(s)
  BY DEF Next, Post, handlePost, fail, AnswerLost, Answer, Accept, Drip, Ended, Tick, vars
<1>6. CASE \E e : Due(e) /\ RecordAgent(e)
  BY <1>1, <1>6, RecordLogs
<1> QED
  BY <1>2, <1>3, <1>4, <1>5, <1>6

\* Of all the events recorded, in whatever order they came, the feed keeps the newest, and
\* an id it holds once, whoever sends it.
THEOREM FeedIsLog == Spec => ImplementsLog
<1>1. Init => Log!LogInit
  BY DEF Init, Log!LogInit
<1>2. IInv /\ [Next]_vars => [Log!LogNext]_{feed[k] : k \in DOMAIN feed}
  <2> SUFFICES ASSUME IInv, [Next]_vars
               PROVE  Log!LogNext \/ {feed'[k] : k \in DOMAIN feed'} = {feed[k] : k \in DOMAIN feed}
    OBVIOUS
  <2>1. Kept' = Kept \/ \E e \in Kept' : (\A k \in Kept : ~SameId(k, e))
                                          /\ Kept' = Log!Newest(Kept \cup {e})
    BY NextLogs
  <2>2. Kept = {feed[k] : k \in DOMAIN feed}
    BY DEF Kept, Elements
  <2>3. Kept' = {feed'[k] : k \in DOMAIN feed'}
    BY DEF Kept, Elements
  <2>4. CASE Kept' = Kept
    BY <2>2, <2>3, <2>4
  <2>5. CASE Kept' # Kept
    <3>1. PICK e \in Kept' : (\A k \in Kept : ~SameId(k, e))
                             /\ Kept' = Log!Newest(Kept \cup {e})
      BY <2>1, <2>5
    <3>2. Log!Record(e)
      BY <2>2, <2>3, <3>1, Zenon DEF Log!Record
    <3>3. Log!LogNext
      BY <2>3, <3>2, Zenon DEF Log!LogNext
    <3> QED
      BY <3>3
  <2> QED
    BY <2>4, <2>5
<1> QED
  BY <1>1, <1>2, Invariant, PTL DEF Spec, ImplementsLog, Log!LogSpec
=============================================================================

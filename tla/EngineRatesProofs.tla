-------------------------- MODULE EngineRatesProofs --------------------------
(***************************************************************************)
(* What the rates and histories of the snapshot loop are worth, for any    *)
(* engines, history length and channel: a ring reads as the last samples   *)
(* pushed, oldest first, and an engine that is nothing without its         *)
(* counters is credited with what it generated, or with what its own gauge *)
(* says, whatever restarts, failed polls and stopped clocks come between   *)
(* two readings.                                                           *)
(***************************************************************************)
EXTENDS EngineRates, SequenceTheorems, TLAPS

(***************************************************************************)
(* The inductive invariant                                                 *)
(***************************************************************************)
Counters == [count : Nat, epoch : Nat, life : Nat]
Readings == [out : Nat, gauge : Nat, epoch : Nat, life : Nat]
Marks == [at : Nat, out : Nat]
Dues == [at : Nat, epoch : Nat, life : Nat, least : Int, most : Int]
Rings == [buf : Seq(Int), head : Nat, t0 : Int]

Typed ==
  /\ clock \in 0..MaxClock /\ tick \in BOOLEAN /\ ctx \in BOOLEAN
  /\ loop \in {"warming", "idle", "polling", "building", "built", "sending", "stopped"}
  /\ mu \in {"free", "emit"}
  /\ stamp \in 0..clock /\ queued \in 0..Buffer
  /\ engine \in [Engines -> Counters]
  /\ results \in [Engines -> Readings \cup {None, Failed}]
  /\ prev \in [Engines -> Marks \cup {None}]
  /\ due \in [Engines -> Dues \cup {None}]
  /\ credit \in [Engines -> Int]
  /\ ring \in [Engines -> Rings]
  /\ pushed \in [Engines -> Seq(Int)]

\* Between a reading and what the engine has counted later: without a restart the count
\* grew as the engine's life did, and a count that began anew is no more than that.
Before(a, count, epoch, life) ==
  /\ a.epoch <= epoch /\ a.life <= life
  /\ a.epoch = epoch => count - a.out = life - a.life
  /\ a.epoch # epoch => count <= life - a.life

\* The baseline of the rates, as a reading.
Mark(e) == [out |-> prev[e].out, epoch |-> due[e].epoch, life |-> due[e].life]

IsRead(e) == results[e] \in Readings

Read(e) ==
  IsRead(e) => Before(results[e], engine[e].count, engine[e].epoch, engine[e].life)

\* The baseline is that of the readings that count, and it is older than the reading
\* that this emit holds.
Marked(e) ==
  /\ prev[e] = None <=> due[e] = None
  /\ due[e] = None => credit[e] = 0
  /\ due[e] # None =>
       /\ prev[e].at = due[e].at /\ prev[e].at <= clock
       /\ Before(Mark(e), engine[e].count, engine[e].epoch, engine[e].life)
       /\ IsRead(e) =>
            Before(Mark(e), results[e].out, results[e].epoch, results[e].life)

Credited(e) == due[e] # None => credit[e] \in due[e].least..due[e].most

\* A ring that is not full begins at its first slot.
Ring(r, h) ==
  /\ Len(r.buf) <= HistoryLen
  /\ r.head \in 0..HistoryLen - 1
  /\ Len(r.buf) < HistoryLen => r.head = 0
  /\ Copy(r) = h
  /\ h # <<>> => r.t0 + Len(h) - 1 = h[Len(h)]

\* Whoever builds a frame has heard of every engine.
Heard == loop = "building" => \A e \in Engines : results[e] # None

IInv ==
  /\ Typed
  /\ Heard
  /\ \A e \in Engines : prev[e] # None => prev[e].at <= clock
  /\ \A e \in Engines : Ring(ring[e], pushed[e])

RatesInv ==
  /\ IInv
  /\ \A e \in Engines : Kind[e] = "vllm" => Read(e) /\ Marked(e) /\ Credited(e)

(***************************************************************************)
(* Rings                                                                   *)
(***************************************************************************)
\* A part of a sequence of numbers.
LEMMA Part ==
  ASSUME NEW s \in Seq(Int), NEW m \in Nat \ {0}, NEW k \in Nat, m <= k + 1, k <= Len(s)
  PROVE  /\ SubSeq(s, m, k) \in Seq(Int) /\ Len(SubSeq(s, m, k)) = k - m + 1
         /\ \A i \in 1..k - m + 1 : SubSeq(s, m, k)[i] = s[m + i - 1]
<1>1. \A i \in m..k : s[i] \in Int
  <2>1. \A i \in 1..Len(s) : s[i] \in Int
    BY ElementOfSeq
  <2> QED
    BY <2>1, LenProperties
<1>2. /\ SubSeq(s, m, k) \in Seq(Int)
      /\ Len(SubSeq(s, m, k)) = IF m <= k THEN k - m + 1 ELSE 0
      /\ \A i \in 1..k - m + 1 : SubSeq(s, m, k)[i] = s[m + i - 1]
  <2>1. m \in Int /\ k \in Int
    OBVIOUS
  <2> QED
    BY <1>1, <2>1, SubSeqProperties
<1>3. m <= k \/ k - m + 1 = 0
  OBVIOUS
<1> QED
  BY <1>2, <1>3

\* A ring reads from its head to the end, and from the start to its head.
LEMMA CopyFacts ==
  ASSUME NEW r, NEW s \in Seq(Int), NEW x \in Nat, r.buf = s, r.head = x, x <= Len(s)
  PROVE  /\ Copy(r) \in Seq(Int) /\ Len(Copy(r)) = Len(s)
         /\ \A i \in 1..Len(s) : i <= Len(s) - x => Copy(r)[i] = s[x + i]
         /\ \A i \in 1..Len(s) : ~(i <= Len(s) - x) => Copy(r)[i] = s[i - (Len(s) - x)]
<1> DEFINE n == Len(s)
           c == Copy(r)
           a == SubSeq(s, x + 1, n)
           b == SubSeq(s, 1, x)
<1>1. n \in Nat
  BY LenProperties
<1>2. PICK m \in Nat \ {0} : m = x + 1
  OBVIOUS
<1>3. /\ SubSeq(s, m, n) \in Seq(Int) /\ Len(SubSeq(s, m, n)) = n - m + 1
      /\ \A i \in 1..n - m + 1 : SubSeq(s, m, n)[i] = s[m + i - 1]
  <2>1. m <= n + 1 /\ n <= n
    BY <1>1, <1>2
  <2> QED
    BY <1>1, <2>1, Part
<1>4. a = SubSeq(s, m, n)
  BY <1>2
<1>5. /\ b \in Seq(Int) /\ Len(b) = x - 1 + 1
      /\ \A i \in 1..x - 1 + 1 : b[i] = s[1 + i - 1]
  <2>1. 1 \in Nat \ {0} /\ 1 <= x + 1
    OBVIOUS
  <2> QED
    BY <2>1, Part
<1> HIDE DEF a, b, n
<1>6. a \in Seq(Int) /\ Len(a) = n - x /\ \A i \in 1..n - x : a[i] = s[x + i]
  <2>1. n - m + 1 = n - x
    BY <1>1, <1>2
  <2>2. \A i \in 1..n - x : m + i - 1 = x + i
    BY <1>1, <1>2
  <2> QED
    BY <1>3, <1>4, <2>1, <2>2
<1>7. b \in Seq(Int) /\ Len(b) = x /\ \A i \in 1..x : b[i] = s[i]
  <2>1. x - 1 + 1 = x
    OBVIOUS
  <2>2. \A i \in 1..x : 1 + i - 1 = i
    OBVIOUS
  <2> QED
    BY <1>5, <2>1, <2>2
<1>8. /\ c \in Seq(Int) /\ Len(c) = Len(a) + Len(b)
      /\ \A i \in 1..Len(a) + Len(b) : c[i] = IF i <= Len(a) THEN a[i] ELSE b[i - Len(a)]
  <2>1. c = a \o b
    BY DEF a, b, n, Copy
  <2>2. /\ a \o b \in Seq(Int) /\ Len(a \o b) = Len(a) + Len(b)
        /\ \A i \in 1..Len(a) + Len(b) :
             (a \o b)[i] = IF i <= Len(a) THEN a[i] ELSE b[i - Len(a)]
    <3>1. a \in Seq(Int) /\ b \in Seq(Int)
      BY <1>6, <1>7
    <3> HIDE DEF c
    <3> QED
      BY <3>1, ConcatProperties
  <2> HIDE DEF c
  <2> QED
    BY <2>1, <2>2
<1>9. Len(a) + Len(b) = n
  BY <1>1, <1>6, <1>7
<1>10. ASSUME NEW i \in 1..n, i <= n - x
       PROVE  c[i] = s[x + i]
  <2>1. i \in 1..n - x
    BY <1>1, <1>10
  <2> QED
    BY <1>6, <1>8, <1>9, <1>10, <2>1
<1>11. ASSUME NEW i \in 1..n, ~(i <= n - x)
       PROVE  c[i] = s[i - (n - x)]
  <2>1. i - (n - x) \in 1..x
    BY <1>1, <1>11
  <2> QED
    BY <1>6, <1>7, <1>8, <1>9, <1>11, <2>1
<1> QED
  BY <1>8, <1>9, <1>10, <1>11 DEF n

\* The newest of a sequence that outgrew the history by one are all but the first.
LEMMA NewestFacts ==
  ASSUME NEW s \in Seq(Int), NEW x \in Int, Len(s) <= HistoryLen, HistoryLen \in Nat \ {0}
  PROVE  /\ Len(s) < HistoryLen => Newest(Append(s, x)) = Append(s, x)
         /\ Len(s) = HistoryLen =>
              /\ Newest(Append(s, x)) \in Seq(Int) /\ Len(Newest(Append(s, x))) = HistoryLen
              /\ \A i \in 1..HistoryLen - 1 : Newest(Append(s, x))[i] = s[i + 1]
              /\ Newest(Append(s, x))[HistoryLen] = x
<1> DEFINE t == Append(s, x)
           u == SubSeq(t, 2, HistoryLen + 1)
<1>1. /\ t \in Seq(Int) /\ Len(t) = Len(s) + 1 /\ Len(s) \in Nat
      /\ \A i \in 1..Len(s) : t[i] = s[i]
      /\ t[Len(s) + 1] = x
  BY AppendProperties, LenProperties
<1>2. ASSUME Len(s) < HistoryLen
      PROVE  Newest(t) = t
  <2>1. ~(Len(t) > HistoryLen)
    BY <1>1, <1>2
  <2> QED
    BY <2>1 DEF Newest
<1>3. ASSUME Len(s) = HistoryLen
      PROVE  /\ Newest(t) \in Seq(Int) /\ Len(Newest(t)) = HistoryLen
             /\ \A i \in 1..HistoryLen - 1 : Newest(t)[i] = s[i + 1]
             /\ Newest(t)[HistoryLen] = x
  <2> HIDE DEF t
  <2>1. Newest(t) = u
    <3>1. Len(t) > HistoryLen /\ Len(t) - HistoryLen + 1 = 2 /\ Len(t) = HistoryLen + 1
      BY <1>1, <1>3
    <3> QED
      BY <3>1 DEF Newest
  <2>2. \A i \in 2..HistoryLen + 1 : t[i] \in Int
    <3>1. \A i \in 1..Len(t) : t[i] \in Int
      BY <1>1, ElementOfSeq
    <3> QED
      BY <1>1, <1>3, <3>1
  <2>3. /\ u \in Seq(Int)
        /\ Len(u) = IF 2 <= HistoryLen + 1 THEN HistoryLen + 1 - 2 + 1 ELSE 0
        /\ \A i \in 1..HistoryLen + 1 - 2 + 1 : u[i] = t[2 + i - 1]
    BY <2>2, SubSeqProperties
  <2> HIDE DEF u
  <2>4. \A i \in 1..HistoryLen : u[i] = t[i + 1]
    BY <2>3
  <2>5. \A i \in 1..HistoryLen - 1 : u[i] = s[i + 1]
    <3> SUFFICES ASSUME NEW i \in 1..HistoryLen - 1
                 PROVE  u[i] = s[i + 1]
      OBVIOUS
    <3>1. i \in 1..HistoryLen /\ i + 1 \in 1..Len(s)
      BY <1>3
    <3> QED
      BY <1>1, <2>4, <3>1
  <2>6. u[HistoryLen] = x
    BY <1>1, <1>3, <2>4
  <2> QED
    BY <2>1, <2>3, <2>5, <2>6
<1> QED
  BY <1>2, <1>3

\* A push onto a ring is a push onto what it reads as, cut to the newest.
LEMMA PushKeeps ==
  ASSUME NEW r \in Rings, NEW h, Ring(r, h), stamp \in Nat
  PROVE  /\ Push(r) \in Rings
         /\ Ring(Push(r), Newest(Append(h, stamp)))
         /\ Newest(Append(h, stamp)) \in Seq(Int)
<1> DEFINE s == r.buf
           x == r.head
           n == Len(s)
           p == Push(r)
<1>1. /\ HistoryLen \in Nat \ {0} /\ n \in Nat /\ n <= HistoryLen /\ stamp \in Int
      /\ s \in Seq(Int) /\ x \in Nat /\ x <= HistoryLen - 1 /\ x <= n
      /\ n < HistoryLen => x = 0
  BY RatesAssumption, LenProperties DEF RatesAssumption, Rings, Ring
<1>2. Copy(r) = h
  BY DEF Ring
<1> HIDE DEF s, x, p
<1>3. /\ h \in Seq(Int) /\ Len(h) = n
      /\ \A i \in 1..n : i <= n - x => h[i] = s[x + i]
      /\ \A i \in 1..n : ~(i <= n - x) => h[i] = s[i - (n - x)]
  <2>1. r.buf = s /\ r.head = x
    BY DEF s, x
  <2>2. /\ Copy(r) \in Seq(Int) /\ Len(Copy(r)) = Len(s)
        /\ \A i \in 1..Len(s) : i <= Len(s) - x => Copy(r)[i] = s[x + i]
        /\ \A i \in 1..Len(s) : ~(i <= Len(s) - x) => Copy(r)[i] = s[i - (Len(s) - x)]
    <3>1. s \in Seq(Int) /\ x \in Nat /\ x <= Len(s)
      BY <1>1
    <3> QED
      BY <2>1, <3>1, CopyFacts
  <2> QED
    BY <1>2, <2>2
<1>4. CASE n < HistoryLen
  <2> DEFINE b == Append(s, stamp)
             g == Append(h, stamp)
  <2>1. /\ b \in Seq(Int) /\ Len(b) = n + 1
        /\ \A i \in 1..n : b[i] = s[i]
        /\ b[n + 1] = stamp
    BY <1>1, AppendProperties
  <2>2. x = 0
    BY <1>1, <1>4
  <2>3. p = [buf |-> b, head |-> 0, t0 |-> stamp - n]
    <3>1. Push(r) = [buf |-> Append(s, stamp), head |-> x, t0 |-> stamp - (Len(Append(s, stamp)) - 1)]
      <4>1. ~(n = HistoryLen)
        BY <1>1, <1>4
      <4> QED
        BY <4>1 DEF Push, s, x
    <3>2. Len(b) - 1 = n
      BY <1>1, <2>1
    <3> QED
      BY <2>2, <3>1, <3>2 DEF p
  <2>4. /\ g \in Seq(Int) /\ Len(g) = n + 1
        /\ \A i \in 1..n : g[i] = h[i]
        /\ g[n + 1] = stamp
    <3>1. /\ g \in Seq(Int) /\ Len(g) = Len(h) + 1
          /\ \A i \in 1..Len(h) : g[i] = h[i]
          /\ g[Len(h) + 1] = stamp
      <4>1. h \in Seq(Int) /\ stamp \in Int
        BY <1>1, <1>3
      <4> QED
        BY <4>1, AppendProperties
    <3> HIDE DEF g
    <3> QED
      BY <1>3, <3>1
  <2>5. Newest(g) = g
    BY <1>1, <1>3, <1>4, NewestFacts
  <2> HIDE DEF b, g
  <2>6. p \in Rings /\ p.head = 0 /\ p.buf = b /\ p.t0 = stamp - n
    BY <1>1, <2>1, <2>3 DEF Rings
  <2>7. /\ Copy(p) \in Seq(Int) /\ Len(Copy(p)) = Len(b)
        /\ \A i \in 1..Len(b) : i <= Len(b) - 0 => Copy(p)[i] = b[0 + i]
    <3>1. 0 \in Nat /\ 0 <= Len(b) /\ b \in Seq(Int) /\ p.buf = b /\ p.head = 0
      BY <1>1, <2>1, <2>6
    <3> QED
      BY <3>1, CopyFacts
  <2>8. ASSUME NEW i \in 1..n + 1
        PROVE  Copy(p)[i] = g[i]
    <3>1. Copy(p)[i] = b[i]
      <4>1. i \in 1..Len(b) /\ i <= Len(b) - 0 /\ 0 + i = i
        BY <1>1, <2>1
      <4> QED
        BY <2>7, <4>1
    <3>2. CASE i = n + 1
      BY <2>1, <2>4, <3>1, <3>2
    <3>3. CASE i \in 1..n
      <4>1. i <= n - x /\ x + i = i
        BY <1>1, <2>2, <3>3
      <4> QED
        BY <1>3, <2>1, <2>4, <3>1, <3>3, <4>1
    <3> QED
      BY <1>1, <3>2, <3>3
  <2>9. Copy(p) = g
    BY <2>1, <2>4, <2>7, <2>8, SeqEqual
  <2>10. p.t0 + Len(g) - 1 = g[Len(g)]
    BY <1>1, <2>4, <2>6
  <2>11. Ring(p, g)
    <3>1. Len(b) <= HistoryLen /\ 0 \in 0..HistoryLen - 1
      BY <1>1, <1>4, <2>1
    <3> QED
      BY <2>6, <2>9, <2>10, <3>1 DEF Ring
  <2> QED
    BY <2>4, <2>5, <2>6, <2>11 DEF p, g
<1>5. CASE n = HistoryLen
  <2> DEFINE b == [s EXCEPT ![x + 1] = stamp]
             g == Newest(Append(h, stamp))
             w == NextHead(x)
  <2>1. x + 1 \in 1..n
    BY <1>1, <1>5
  <2>2. /\ b \in Seq(Int) /\ Len(b) = n
        /\ \A j \in 1..n : b[j] = IF j = x + 1 THEN stamp ELSE s[j]
    BY <1>1, <2>1, ExceptSeq
  <2>3. /\ g \in Seq(Int) /\ Len(g) = n /\ g[n] = stamp
        /\ \A i \in 1..n - 1 : g[i] = h[i + 1]
    <3>1. Len(h) <= HistoryLen /\ Len(h) = HistoryLen
      BY <1>1, <1>3, <1>5
    <3>2. /\ g \in Seq(Int) /\ Len(g) = HistoryLen
          /\ \A i \in 1..HistoryLen - 1 : g[i] = h[i + 1]
          /\ g[HistoryLen] = stamp
      BY <1>1, <1>3, <3>1, NewestFacts
    <3> HIDE DEF g
    <3> QED
      BY <1>5, <3>2
  <2>4. w = IF x + 1 = n THEN 0 ELSE x + 1
    BY <1>5 DEF NextHead
  <2>5. p = [buf |-> b, head |-> w, t0 |-> stamp - (n - 1)]
    <3>1. Push(r) = [buf |-> b, head |-> w, t0 |-> stamp - (Len(b) - 1)]
      BY <1>5 DEF Push, s, x
    <3> QED
      BY <2>2, <3>1 DEF p
  <2> HIDE DEF b, g, w
  <2>6. /\ p \in Rings /\ p.head = w /\ p.buf = b /\ p.t0 = stamp - (n - 1)
        /\ w \in 0..HistoryLen - 1 /\ w \in Nat /\ w <= n
    <3>1. w \in 0..HistoryLen - 1 /\ w \in Nat /\ w <= n
      BY <1>1, <1>5, <2>4
    <3> QED
      BY <1>1, <2>2, <2>5, <3>1 DEF Rings
  <2>7. /\ Copy(p) \in Seq(Int) /\ Len(Copy(p)) = n
        /\ \A i \in 1..n : i <= n - w => Copy(p)[i] = b[w + i]
        /\ \A i \in 1..n : ~(i <= n - w) => Copy(p)[i] = b[i - (n - w)]
    <3>1. b \in Seq(Int) /\ w \in Nat /\ w <= Len(b) /\ p.buf = b /\ p.head = w
      BY <2>2, <2>6
    <3>2. /\ Copy(p) \in Seq(Int) /\ Len(Copy(p)) = Len(b)
          /\ \A i \in 1..Len(b) : i <= Len(b) - w => Copy(p)[i] = b[w + i]
          /\ \A i \in 1..Len(b) : ~(i <= Len(b) - w) => Copy(p)[i] = b[i - (Len(b) - w)]
      BY <3>1, CopyFacts
    <3>3. Len(b) = n
      BY <2>2
    <3> QED
      BY <3>2, <3>3
  <2>8. ASSUME NEW i \in 1..n
        PROVE  Copy(p)[i] = g[i]
    <3>1. CASE i = n
      <4>1. CASE x + 1 = n
        <5>1. w = 0 /\ n <= n - w /\ w + n = n
          BY <1>1, <2>4, <4>1
        <5> QED
          BY <2>2, <2>3, <2>7, <3>1, <4>1, <5>1
      <4>2. CASE x + 1 # n
        <5>1. w = x + 1 /\ ~(n <= n - w) /\ n - (n - w) = w
          BY <1>1, <2>4, <4>2
        <5> QED
          BY <2>1, <2>2, <2>3, <2>7, <3>1, <5>1
      <4> QED
        BY <4>1, <4>2
    <3>2. CASE i \in 1..n - 1
      <4>1. i + 1 \in 1..n /\ g[i] = h[i + 1]
        BY <1>1, <2>3, <3>2
      <4>2. CASE x + 1 = n
        <5>1. w = 0 /\ i <= n - w /\ w + i = i /\ i # x + 1
          BY <1>1, <2>4, <3>2, <4>2
        <5>2. Copy(p)[i] = s[i]
          BY <2>2, <2>7, <5>1
        <5>3. ~(i + 1 <= n - x) /\ i + 1 - (n - x) = i
          BY <1>1, <3>2, <4>2
        <5>4. h[i + 1] = s[i + 1 - (n - x)]
          <6>1. PICK j \in 1..n : j = i + 1
            BY <4>1
          <6>2. ~(j <= n - x)
            BY <5>3, <6>1
          <6>3. h[j] = s[j - (n - x)]
            BY <1>3, <6>2
          <6> QED
            BY <1>1, <6>1, <6>3
        <5> QED
          BY <4>1, <5>2, <5>3, <5>4
      <4>3. CASE x + 1 # n /\ i <= n - (x + 1)
        <5>1. w = x + 1 /\ w + i \in 1..n /\ w + i # x + 1 /\ i <= n - w
          BY <1>1, <2>4, <4>3
        <5>2. Copy(p)[i] = s[w + i]
          BY <2>2, <2>7, <5>1
        <5>3. i + 1 <= n - x /\ x + (i + 1) = w + i
          BY <1>1, <4>3, <5>1
        <5> QED
          BY <1>3, <4>1, <5>2, <5>3
      <4>4. CASE x + 1 # n /\ ~(i <= n - (x + 1))
        <5>1. /\ w = x + 1 /\ i - (n - w) \in 1..n
              /\ i - (n - w) # x + 1 /\ ~(i <= n - w)
          BY <1>1, <2>4, <3>2, <4>4
        <5>2. Copy(p)[i] = s[i - (n - w)]
          BY <2>2, <2>7, <5>1
        <5>3. ~(i + 1 <= n - x) /\ i + 1 - (n - x) = i - (n - w)
          BY <1>1, <4>4, <5>1
        <5>4. h[i + 1] = s[i + 1 - (n - x)]
          <6>1. PICK j \in 1..n : j = i + 1
            BY <4>1
          <6>2. ~(j <= n - x)
            BY <5>3, <6>1
          <6>3. h[j] = s[j - (n - x)]
            BY <1>3, <6>2
          <6> QED
            BY <1>1, <6>1, <6>3
        <5> QED
          BY <4>1, <5>2, <5>3, <5>4
      <4> QED
        BY <4>2, <4>3, <4>4
    <3> QED
      BY <1>1, <3>1, <3>2
  <2>9. Copy(p) = g
    BY <2>3, <2>7, <2>8, SeqEqual
  <2>10. p.t0 + Len(g) - 1 = g[Len(g)]
    BY <1>1, <1>5, <2>3, <2>6
  <2>11. Ring(p, g)
    <3>1. Len(b) <= HistoryLen /\ ~(Len(b) < HistoryLen)
      BY <1>1, <1>5, <2>2
    <3> QED
      BY <2>6, <2>9, <2>10, <3>1 DEF Ring
  <2> QED
    BY <2>3, <2>6, <2>11 DEF p, g
<1> QED
  BY <1>1, <1>4, <1>5

(***************************************************************************)
(* The frame                                                               *)
(***************************************************************************)
\* What a poll returned is told apart from what it did not, by its fields.
LEMMA Kinds ==
  /\ None \notin Readings /\ Failed \notin Readings /\ None # Failed
  /\ None \notin Marks /\ None \notin Dues
<1>1. DOMAIN None = {"none"} /\ DOMAIN Failed = {"failed"}
  BY DEF None, Failed
<1>2. \A r \in Readings : DOMAIN r = {"out", "gauge", "epoch", "life"}
  BY DEF Readings
<1>3. \A r \in Marks : DOMAIN r = {"at", "out"}
  BY DEF Marks
<1>4. \A r \in Dues : DOMAIN r = {"at", "epoch", "life", "least", "most"}
  BY DEF Dues
<1>5. "none" \notin {"out", "gauge", "epoch", "life"} /\ "failed" \notin {"out", "gauge", "epoch", "life"}
      /\ "none" # "failed" /\ "none" \notin {"at", "out"}
      /\ "none" \notin {"at", "epoch", "life", "least", "most"}
  OBVIOUS
<1> QED
  BY <1>1, <1>2, <1>3, <1>4, <1>5, Zenon

\* What Build computes of one engine.
LEMMA BuildFacts ==
  ASSUME Build
  PROVE  /\ prev' = [e \in Engines |-> IF results[e] # Failed THEN Baseline(e) ELSE prev[e]]
         /\ credit' = [e \in Engines |->
              IF results[e] # Failed THEN credit[e] + Increment(e) ELSE credit[e]]
         /\ ring' = [e \in Engines |-> IF results[e] # Failed THEN Push(ring[e]) ELSE ring[e]]
         /\ due' = [e \in Engines |-> IF results[e] # Failed THEN Owed(e) ELSE due[e]]
         /\ pushed' = [e \in Engines |->
              IF results[e] # Failed THEN Newest(Append(pushed[e], stamp)) ELSE pushed[e]]
BY DEF Build

\* What a gauge stands for over a time that went by.
LEMMA ShownFacts ==
  ASSUME NEW e \in Engines, NEW t \in Nat, stamp \in Nat, results[e].gauge \in Nat
  PROVE  Shown(e, t) \in Int
BY DEF Shown

\* What an engine is credited with at the end of an interval, at least and at most.
Made(e, least) == IF results[e].gauge > 0 THEN Shown(e, due[e].at) ELSE least

Least(e) ==
  Made(e, IF results[e].epoch = due[e].epoch THEN results[e].life - due[e].life ELSE 0)

Most(e) == Made(e, results[e].life - due[e].life)

\* A baseline and what is due begin at a first reading, stay while the clock stands, and
\* go on otherwise.
LEMMA OwedFacts ==
  ASSUME Typed, NEW e \in Engines, results[e] \in Readings
  PROVE  /\ Baseline(e) \in Marks /\ Increment(e) \in Int /\ Owed(e) \in Dues
         /\ Baseline(e).at <= stamp \/ (prev[e] # None /\ Baseline(e) = prev[e])
         /\ due[e] = None =>
              Owed(e) = [at |-> stamp, epoch |-> results[e].epoch, life |-> results[e].life,
                         least |-> 0, most |-> 0]
         /\ due[e] # None /\ stamp <= due[e].at => Owed(e) = due[e]
         /\ due[e] # None /\ ~(stamp <= due[e].at) =>
              Owed(e) = [at |-> stamp, epoch |-> results[e].epoch, life |-> results[e].life,
                         least |-> due[e].least + Least(e), most |-> due[e].most + Most(e)]
<1>1. /\ stamp \in Nat /\ results[e].out \in Nat /\ results[e].epoch \in Nat
      /\ results[e].life \in Nat /\ results[e].gauge \in Nat
      /\ prev[e] # None => prev[e] \in Marks /\ prev[e].at \in Nat /\ prev[e].out \in Nat
      /\ due[e] # None => /\ due[e] \in Dues /\ due[e].at \in Nat /\ due[e].life \in Nat
                          /\ due[e].least \in Int /\ due[e].most \in Int
  BY RatesAssumption DEF RatesAssumption, Typed, Readings, Marks, Dues
<1>2. Baseline(e) \in Marks
      /\ (Baseline(e).at <= stamp \/ (prev[e] # None /\ Baseline(e) = prev[e]))
  BY <1>1 DEF Baseline, Marks
<1>3. Increment(e) \in Int
  <2>1. CASE prev[e] = None \/ stamp <= prev[e].at
    BY <2>1 DEF Increment
  <2>2. CASE prev[e] # None /\ stamp > prev[e].at /\ results[e].gauge > 0
    <3>1. Shown(e, prev[e].at) \in Int
      BY <1>1, <2>2, ShownFacts
    <3>2. Increment(e) = Shown(e, prev[e].at)
      BY <1>1, <2>2 DEF Increment
    <3> QED
      BY <3>1, <3>2
  <2>3. CASE prev[e] # None /\ stamp > prev[e].at /\ ~(results[e].gauge > 0)
    BY <1>1, <2>3 DEF Increment, Grown
  <2> QED
    BY <1>1, <2>1, <2>2, <2>3
<1>4. CASE due[e] = None
  <2>1. Owed(e) = [at |-> stamp, epoch |-> results[e].epoch, life |-> results[e].life,
                   least |-> 0, most |-> 0]
    BY <1>4 DEF Owed
  <2>2. Owed(e) \in Dues
    BY <1>1, <2>1 DEF Dues
  <2> QED
    BY <1>2, <1>3, <1>4, <2>1, <2>2
<1>5. CASE due[e] # None /\ stamp <= due[e].at
  <2>1. Owed(e) = due[e]
    BY <1>5 DEF Owed
  <2> QED
    BY <1>1, <1>2, <1>3, <1>5, <2>1
<1>6. CASE due[e] # None /\ ~(stamp <= due[e].at)
  <2> DEFINE least == due[e].least + Least(e)
             most == due[e].most + Most(e)
  <2>1. Owed(e) = [at |-> stamp, epoch |-> results[e].epoch, life |-> results[e].life,
                   least |-> least, most |-> most]
    BY <1>6, Zenon DEF Owed, Least, Most, Made
  <2>2. least \in Int /\ most \in Int
    <3>1. Shown(e, due[e].at) \in Int
      BY <1>1, <1>6, ShownFacts
    <3>2. Least(e) \in Int /\ Most(e) \in Int
      BY <1>1, <1>6, <3>1 DEF Least, Most, Made
    <3> QED
      BY <1>1, <1>6, <3>2
  <2> HIDE DEF least, most
  <2>3. Owed(e) \in Dues
    BY <1>1, <2>1, <2>2 DEF Dues
  <2> QED
    BY <1>2, <1>3, <1>6, <2>1, <2>3 DEF least, most
<1> QED
  BY <1>4, <1>5, <1>6

\* What a poll returns: nothing, or the counters as they are, except that an engine of
\* another kind is up without them.
LEMMA PollFacts ==
  ASSUME Typed, NEW e \in Engines, Poll(e)
  PROVE  \E r \in Readings \cup {Failed} :
           /\ results' = [results EXCEPT ![e] = r]
           /\ r # Failed => r.epoch = engine[e].epoch /\ r.life = engine[e].life
           /\ r # Failed /\ Kind[e] = "vllm" => r.out = engine[e].count
<1>1. PICK metrics, models, native \in BOOLEAN, gauge \in Gauge[e] :
        results' = [results EXCEPT ![e] =
          IF Answered(e, metrics, models, native) THEN Reading(e, metrics, gauge) ELSE Failed]
  BY DEF Poll
<1>2. engine[e].count \in Nat /\ engine[e].epoch \in Nat /\ engine[e].life \in Nat
  BY DEF Typed, Counters
<1>3. gauge \in Nat
  <2>1. Gauge[e] \in (SUBSET Nat) \ {{}}
    BY RatesAssumption DEF RatesAssumption, Engines
  <2> QED
    BY <1>1, <2>1
<1> DEFINE out == IF metrics THEN engine[e].count ELSE 0
           shown == IF metrics THEN gauge ELSE 0
<1>4. /\ Reading(e, metrics, gauge) = [out |-> out, gauge |-> shown,
                                       epoch |-> engine[e].epoch, life |-> engine[e].life]
      /\ out \in Nat /\ shown \in Nat /\ (metrics => out = engine[e].count)
  BY <1>2, <1>3 DEF Reading
<1> HIDE DEF out, shown
<1>5. /\ Reading(e, metrics, gauge) \in Readings /\ Reading(e, metrics, gauge).out = out
      /\ Reading(e, metrics, gauge).epoch = engine[e].epoch
      /\ Reading(e, metrics, gauge).life = engine[e].life
  BY <1>2, <1>4 DEF Readings
<1>6. Kind[e] = "vllm" /\ Answered(e, metrics, models, native) => metrics
  BY DEF Answered
<1>7. CASE Answered(e, metrics, models, native)
  BY <1>1, <1>4, <1>5, <1>6, <1>7
<1>8. CASE ~Answered(e, metrics, models, native)
  BY <1>1, <1>8
<1> QED
  BY <1>7, <1>8

\* The steps that leave engines, results and histories alone.
LEMMA AsideKeeps ==
  ASSUME IInv, UNCHANGED <<engine, results, state>>,
         \/ Tick \/ Cancel \/ Consume \/ Post \/ RecordAgent \/ Warm \/ Refresh
         \/ PollsDone \/ Unlock \/ Send \/ Emit \/ Stop \/ UNCHANGED vars
  PROVE  IInv' /\ clock <= clock'
<1> USE DEF IInv
<1>1. /\ clock \in Nat /\ MaxClock \in Nat /\ clock <= MaxClock
      /\ Buffer \in Nat /\ queued \in 0..Buffer /\ stamp \in 0..clock
  BY RatesAssumption DEF RatesAssumption, Typed
<1>2. clock' \in 0..MaxClock /\ clock <= clock' /\ tick' \in BOOLEAN /\ ctx' \in BOOLEAN
  <2>1. \/ clock < MaxClock /\ clock' = clock + 1 /\ tick' = TRUE /\ UNCHANGED ctx
        \/ UNCHANGED <<clock, tick>> /\ ctx' = TRUE
        \/ UNCHANGED <<clock, ctx>> /\ tick' \in {tick, FALSE}
    BY DEF Tick, Cancel, Consume, Post, RecordAgent, Warm, Refresh, PollsDone, Unlock, Send, Emit,
           Stop, vars, world
  <2>2. clock' \in {clock, clock + 1} /\ (clock' = clock \/ clock < MaxClock)
    BY <2>1
  <2>3. clock' \in 0..MaxClock /\ clock <= clock'
    BY <1>1, <2>2
  <2>4. tick \in BOOLEAN /\ ctx \in BOOLEAN
    BY DEF Typed
  <2>5. tick' \in BOOLEAN /\ ctx' \in BOOLEAN
    BY <2>1, <2>4
  <2> QED
    BY <2>3, <2>5
<1>3. queued' \in 0..Buffer /\ stamp' \in 0..clock'
  <2>1. \/ queued' = queued
        \/ queued > 0 /\ queued' = queued - 1
        \/ queued < Buffer /\ queued' = queued + 1
    BY DEF Tick, Cancel, Consume, Post, RecordAgent, Warm, Refresh, PollsDone, Unlock, Send,
           Emit, Stop, vars, output
  <2>2. stamp' = stamp \/ (stamp' = clock /\ clock' = clock)
    BY DEF Tick, Cancel, Consume, Post, RecordAgent, Warm, Refresh, PollsDone, Unlock, Send,
           Emit, Stop, vars, world
  <2> QED
    BY <1>1, <1>2, <2>1, <2>2
<1>4. /\ loop' \in {"warming", "idle", "polling", "building", "built", "sending", "stopped"}
      /\ mu' \in {"free", "emit"}
  BY DEF Typed, Tick, Cancel, Consume, Post, RecordAgent, Warm, Refresh, PollsDone, Unlock,
         Send, Emit, Stop, vars
<1>5. Typed'
  BY <1>2, <1>3, <1>4 DEF Typed, state
<1>6. Heard'
  <2>1. PollsDone \/ loop' = loop \/ loop' # "building"
    BY DEF Tick, Cancel, Consume, Post, RecordAgent, Warm, Refresh, Unlock, Send, Emit, Stop, vars
  <2> QED
    BY <2>1 DEF Heard, PollsDone
<1>7. (\A e \in Engines : prev[e] # None => prev[e].at <= clock)'
  <2> SUFFICES ASSUME NEW e \in Engines, prev[e] # None
               PROVE  prev[e].at <= clock'
    BY DEF state
  <2>1. prev[e].at \in Nat /\ prev[e].at <= clock
    BY DEF Typed, Marks
  <2> QED
    BY <1>1, <1>2, <2>1
<1>8. (\A e \in Engines : Ring(ring[e], pushed[e]))'
  BY DEF state
<1> QED
  BY <1>2, <1>5, <1>6, <1>7, <1>8

\* An engine generates or restarts.
LEMMA EngineFacts ==
  ASSUME Typed, NEW e \in Engines, Generate(e) \/ Restart(e)
  PROVE  /\ engine' \in [Engines -> Counters]
         /\ \A f \in Engines : f # e => engine'[f] = engine[f]
         /\ \/ /\ engine'[e].count = engine[e].count + 1
               /\ engine'[e].epoch = engine[e].epoch
               /\ engine'[e].life = engine[e].life + 1
            \/ /\ engine'[e].count = 0
               /\ engine'[e].epoch = engine[e].epoch + 1
               /\ engine'[e].life = engine[e].life
<1>1. engine[e] \in Counters /\ engine[e].count \in Nat /\ engine[e].epoch \in Nat
      /\ engine[e].life \in Nat /\ engine \in [Engines -> Counters]
  BY DEF Typed, Counters
<1>2. CASE Generate(e)
  <2>1. PICK c \in Nat, l \in Nat : c = engine[e].count + 1 /\ l = engine[e].life + 1
    BY <1>1
  <2> DEFINE r == [engine[e] EXCEPT !.count = c, !.life = l]
  <2>2. engine' = [engine EXCEPT ![e] = r]
    BY <1>2, <2>1 DEF Generate
  <2>3. r \in Counters /\ r.count = c /\ r.epoch = engine[e].epoch /\ r.life = l
    BY <1>1 DEF Counters
  <2> HIDE DEF r
  <2> QED
    BY <1>1, <2>1, <2>2, <2>3
<1>3. CASE Restart(e)
  <2>1. PICK p \in Nat : p = engine[e].epoch + 1
    BY <1>1
  <2> DEFINE r == [engine[e] EXCEPT !.count = 0, !.epoch = p]
  <2>2. engine' = [engine EXCEPT ![e] = r]
    BY <1>3, <2>1 DEF Restart
  <2>3. r \in Counters /\ r.count = 0 /\ r.epoch = p /\ r.life = engine[e].life
    BY <1>1 DEF Counters
  <2> HIDE DEF r
  <2> QED
    BY <1>1, <2>1, <2>2, <2>3
<1> QED
  BY <1>2, <1>3

\* The critical section keeps every ring in step with what was pushed.
LEMMA BuildKeeps ==
  ASSUME IInv, Build
  PROVE  IInv'
<1> USE DEF IInv
<1>1. /\ UNCHANGED <<world, engine, vitals, mu, output>>
      /\ results' = [e \in Engines |-> None] /\ stamp' = 0
      /\ loop = "building" /\ loop' = "built" /\ clock \in Nat /\ stamp \in Nat
      /\ stamp <= clock
  BY DEF Build, Typed
<1>2. \A e \in Engines : results[e] # Failed => results[e] \in Readings
  BY <1>1 DEF Heard, Typed
<1>3. ASSUME NEW e \in Engines
      PROVE  /\ prev'[e] \in Marks \cup {None} /\ due'[e] \in Dues \cup {None}
             /\ credit'[e] \in Int /\ ring'[e] \in Rings /\ pushed'[e] \in Seq(Int)
             /\ prev'[e] # None => prev'[e].at <= clock
             /\ Ring(ring'[e], pushed'[e])
  <2>1. /\ prev[e] \in Marks \cup {None} /\ due[e] \in Dues \cup {None}
        /\ credit[e] \in Int /\ ring[e] \in Rings /\ pushed[e] \in Seq(Int)
    BY DEF Typed
  <2>2. CASE results[e] = Failed
    BY <2>1, <2>2, BuildFacts
  <2>3. CASE results[e] # Failed
    <3>1. /\ Baseline(e) \in Marks /\ Increment(e) \in Int /\ Owed(e) \in Dues
          /\ Baseline(e).at <= stamp \/ (prev[e] # None /\ Baseline(e) = prev[e])
      BY <1>2, <2>3, OwedFacts
    <3>2. /\ Push(ring[e]) \in Rings
          /\ Ring(Push(ring[e]), Newest(Append(pushed[e], stamp)))
          /\ Newest(Append(pushed[e], stamp)) \in Seq(Int)
      BY <1>1, <2>1, PushKeeps
    <3>3. /\ prev'[e] = Baseline(e) /\ due'[e] = Owed(e) /\ credit'[e] = credit[e] + Increment(e)
          /\ ring'[e] = Push(ring[e]) /\ pushed'[e] = Newest(Append(pushed[e], stamp))
      BY <2>3, BuildFacts
    <3>4. prev[e] # None => prev[e].at <= clock
      OBVIOUS
    <3>5. Baseline(e).at <= clock
      <4>1. Baseline(e).at \in Nat
        BY <3>1 DEF Marks
      <4> QED
        BY <1>1, <3>1, <3>4, <4>1
    <3> QED
      BY <2>1, <3>1, <3>2, <3>3, <3>5
  <2> QED
    BY <2>2, <2>3
<1>4. /\ prev' = [e \in Engines |-> prev'[e]] /\ due' = [e \in Engines |-> due'[e]]
      /\ credit' = [e \in Engines |-> credit'[e]] /\ ring' = [e \in Engines |-> ring'[e]]
      /\ pushed' = [e \in Engines |-> pushed'[e]]
  BY BuildFacts
<1>5. /\ prev' \in [Engines -> Marks \cup {None}] /\ due' \in [Engines -> Dues \cup {None}]
      /\ credit' \in [Engines -> Int] /\ ring' \in [Engines -> Rings]
      /\ pushed' \in [Engines -> Seq(Int)]
  BY <1>3, <1>4
<1>6. Typed'
  <2>1. results' \in [Engines -> Readings \cup {None, Failed}] /\ stamp' \in 0..clock'
    BY <1>1 DEF world
  <2> QED
    BY <1>1, <1>5, <2>1 DEF Typed, world, output
<1>7. Heard'
  BY <1>1 DEF Heard
<1> QED
  BY <1>1, <1>3, <1>6, <1>7 DEF world

\* At the start nothing was polled and every ring is empty.
LEMMA InitHolds == Init => IInv
<1> SUFFICES ASSUME Init
             PROVE  IInv
  OBVIOUS
<1> USE DEF Init
<1>1. /\ HistoryLen \in Nat \ {0} /\ Buffer \in Nat /\ MaxClock \in Nat
  BY RatesAssumption DEF RatesAssumption
<1>2. <<>> \in Seq(Int) /\ Len(<<>>) = 0
  BY EmptySeq
<1> DEFINE r == [buf |-> <<>>, head |-> 0, t0 |-> 0]
<1>3. r \in Rings /\ r.buf = <<>> /\ r.head = 0
  BY <1>2 DEF Rings
<1> HIDE DEF r
<1>4. Ring(r, <<>>)
  <2>1. Copy(r) \in Seq(Int) /\ Len(Copy(r)) = 0
    <3>1. 0 \in Nat /\ 0 <= Len(<<>>)
      BY <1>2
    <3>2. Copy(r) \in Seq(Int) /\ Len(Copy(r)) = Len(<<>>)
      BY <1>2, <1>3, <3>1, CopyFacts
    <3> QED
      BY <1>2, <3>2
  <2>2. Copy(r) = <<>>
    BY <2>1, EmptySeq
  <2> QED
    BY <1>1, <1>2, <1>3, <2>2 DEF Ring
<1>5. ring = [e \in Engines |-> r] /\ pushed = [e \in Engines |-> <<>>]
  BY DEF r
<1>6. engine \in [Engines -> Counters]
  <2>1. [count : 0..MaxTokens, epoch : {0}, life : {0}] \subseteq Counters
    BY RatesAssumption DEF RatesAssumption, Counters
  <2> QED
    BY <2>1
<1>7. /\ results \in [Engines -> Readings \cup {None, Failed}]
      /\ prev \in [Engines -> Marks \cup {None}] /\ due \in [Engines -> Dues \cup {None}]
      /\ credit \in [Engines -> Int]
  OBVIOUS
<1>8. ring \in [Engines -> Rings] /\ pushed \in [Engines -> Seq(Int)]
  BY <1>2, <1>3, <1>5
<1>9. queued \in 0..Buffer /\ clock \in 0..MaxClock /\ stamp \in 0..clock
  BY <1>1
<1>10. Typed
  BY <1>6, <1>7, <1>8, <1>9 DEF Typed
<1> QED
  BY <1>4, <1>5, <1>10 DEF IInv, Heard

\* Every step of the loop, the pollers, the engines and the readers keeps the invariant.
LEMMA NextKeeps == IInv /\ [Next]_vars => IInv'
<1> SUFFICES ASSUME IInv, [Next]_vars
             PROVE  IInv'
  OBVIOUS
<1>1. CASE \/ Tick \/ Cancel \/ Consume \/ Post \/ RecordAgent \/ Warm \/ Refresh
           \/ PollsDone \/ Unlock \/ Send \/ Emit \/ Stop \/ UNCHANGED vars
  <2>1. UNCHANGED <<engine, results, state>>
    BY <1>1 DEF Tick, Cancel, Consume, Post, RecordAgent, Warm, Refresh, PollsDone, Unlock,
                Send, Emit, Stop, vars
  <2> QED
    BY <1>1, <2>1, AsideKeeps
<1>2. ASSUME NEW e \in Engines, Generate(e) \/ Restart(e)
      PROVE  IInv'
  <2>1. UNCHANGED <<world, loop, vitals, results, mu, stamp, output, state>>
    BY <1>2 DEF Generate, Restart
  <2>2. engine' \in [Engines -> Counters]
    BY <1>2, EngineFacts DEF IInv
  <2>3. Typed'
    BY <2>1, <2>2 DEF IInv, Typed, world, output, state
  <2> QED
    BY <2>1, <2>3 DEF IInv, Heard, world, state
<1>3. ASSUME NEW e \in Engines, Poll(e)
      PROVE  IInv'
  <2>1. UNCHANGED <<world, engine, loop, vitals, mu, stamp, output, state>> /\ loop = "polling"
    BY <1>3 DEF Poll
  <2>2. results' \in [Engines -> Readings \cup {None, Failed}]
    BY <1>3, PollFacts DEF IInv, Typed
  <2>3. Typed'
    BY <2>1, <2>2 DEF IInv, Typed, world, output, state
  <2> QED
    BY <2>1, <2>3 DEF IInv, Heard, world, state
<1>4. CASE Build
  BY <1>4, BuildKeeps
<1> QED
  BY <1>1, <1>2, <1>3, <1>4 DEF Next

(***************************************************************************)
(* Credit                                                                  *)
(***************************************************************************)
\* What one engine is credited with, and what that rests on.
Sound(e) == Read(e) /\ Marked(e) /\ Credited(e)

\* A reading stays before what its engine counts, whatever the engine does next.
LEMMA BeforeKeeps ==
  ASSUME NEW a, a.out \in Nat, a.epoch \in Nat, a.life \in Nat,
         NEW count \in Nat, NEW epoch \in Nat, NEW life \in Nat,
         Before(a, count, epoch, life),
         NEW c, NEW p, NEW l,
         \/ c = count + 1 /\ p = epoch /\ l = life + 1
         \/ c = 0 /\ p = epoch + 1 /\ l = life
  PROVE  Before(a, c, p, l)
BY DEF Before

\* A reading is before itself, and what is before it is before what comes later.
LEMMA BeforeSelf ==
  ASSUME NEW a, a.out \in Nat, a.epoch \in Nat, a.life \in Nat
  PROVE  Before(a, a.out, a.epoch, a.life)
BY DEF Before

\* What an engine does next leaves the readings, the baseline and the credit sound.
LEMMA EngineSound ==
  ASSUME IInv, NEW f \in Engines, Generate(f) \/ Restart(f), NEW e \in Engines, Sound(e)
  PROVE  Sound(e)'
<1>1. /\ Typed /\ UNCHANGED <<clock, results, prev, due, credit>>
      /\ engine[e].count \in Nat /\ engine[e].epoch \in Nat /\ engine[e].life \in Nat
  BY DEF IInv, Generate, Restart, world, state, Typed, Counters
<1>2. CASE e # f
  <2>1. engine'[e] = engine[e]
    BY <1>1, <1>2, EngineFacts
  <2> QED
    BY <1>1, <2>1 DEF Sound, Read, Marked, Credited, IsRead, Mark
<1>3. CASE e = f
  <2>1. \/ /\ engine'[e].count = engine[e].count + 1
           /\ engine'[e].epoch = engine[e].epoch
           /\ engine'[e].life = engine[e].life + 1
        \/ /\ engine'[e].count = 0
           /\ engine'[e].epoch = engine[e].epoch + 1
           /\ engine'[e].life = engine[e].life
    BY <1>1, <1>3, EngineFacts
  <2>2. Read(e)'
    <3> SUFFICES ASSUME IsRead(e)
                 PROVE  Before(results[e], engine'[e].count, engine'[e].epoch, engine'[e].life)
      BY <1>1 DEF Read, IsRead
    <3>1. /\ results[e].out \in Nat /\ results[e].epoch \in Nat /\ results[e].life \in Nat
          /\ Before(results[e], engine[e].count, engine[e].epoch, engine[e].life)
      BY DEF IsRead, Readings, Sound, Read
    <3> QED
      BY <1>1, <2>1, <3>1, BeforeKeeps
  <2>3. Marked(e)'
    <3>1. ASSUME due[e] # None
          PROVE  Before(Mark(e), engine'[e].count, engine'[e].epoch, engine'[e].life)
      <4>1. prev[e] \in Marks /\ due[e] \in Dues
        BY <1>1, <3>1 DEF Typed, Sound, Marked
      <4>2. Mark(e).out \in Nat /\ Mark(e).epoch \in Nat /\ Mark(e).life \in Nat
        BY <4>1 DEF Mark, Marks, Dues
      <4>3. Before(Mark(e), engine[e].count, engine[e].epoch, engine[e].life)
        BY <3>1 DEF Sound, Marked
      <4> QED
        BY <1>1, <2>1, <4>2, <4>3, BeforeKeeps
    <3>2. Mark(e)' = Mark(e) /\ (IsRead(e)' <=> IsRead(e))
      BY <1>1 DEF Mark, IsRead
    <3> QED
      BY <1>1, <3>1, <3>2 DEF Sound, Marked
  <2>4. Credited(e)'
    BY <1>1 DEF Sound, Credited
  <2> QED
    BY <2>2, <2>3, <2>4 DEF Sound
<1> QED
  BY <1>2, <1>3

\* A poll of an engine that is nothing without its counters returns them as they are.
LEMMA PollSound ==
  ASSUME IInv, NEW f \in Engines, Poll(f), NEW e \in Engines, Kind[e] = "vllm", Sound(e)
  PROVE  Sound(e)'
<1>1. /\ Typed /\ UNCHANGED <<clock, engine, prev, due, credit>>
      /\ engine[e].count \in Nat /\ engine[e].epoch \in Nat /\ engine[e].life \in Nat
      /\ results \in [Engines -> Readings \cup {None, Failed}]
  BY DEF IInv, Poll, world, state, Typed, Counters
<1>2. PICK r \in Readings \cup {Failed} :
        /\ results' = [results EXCEPT ![f] = r]
        /\ r # Failed => r.epoch = engine[f].epoch /\ r.life = engine[f].life
        /\ r # Failed /\ Kind[f] = "vllm" => r.out = engine[f].count
  BY <1>1, PollFacts
<1>3. CASE e # f
  <2>1. results'[e] = results[e]
    BY <1>1, <1>2, <1>3
  <2> QED
    BY <1>1, <2>1 DEF Sound, Read, Marked, Credited, IsRead, Mark
<1>4. CASE e = f
  <2>1. results'[e] = r
    BY <1>1, <1>2, <1>4
  <2>2. IsRead(e)' => /\ r.out = engine[e].count /\ r.epoch = engine[e].epoch
                      /\ r.life = engine[e].life
    BY <1>2, <1>4, <2>1, Kinds DEF IsRead
  <2>3. Read(e)'
    BY <1>1, <2>1, <2>2, BeforeSelf DEF Read
  <2>4. Marked(e)'
    <3>1. Mark(e)' = Mark(e)
      BY <1>1 DEF Mark
    <3> QED
      BY <1>1, <2>1, <2>2, <3>1 DEF Sound, Marked
  <2>5. Credited(e)'
    BY <1>1 DEF Sound, Credited
  <2> QED
    BY <2>3, <2>4, <2>5 DEF Sound
<1> QED
  BY <1>3, <1>4

\* A reading that took time since the last one is credited with the growth, and becomes
\* the baseline that the next one is held against.
LEMMA BuildSound ==
  ASSUME IInv, Build, NEW e \in Engines, Sound(e)
  PROVE  Sound(e)'
<1>1. /\ Typed /\ UNCHANGED <<clock, engine>> /\ loop = "building"
      /\ clock \in Nat /\ stamp \in Nat /\ stamp <= clock
      /\ results' = [f \in Engines |-> None]
  BY DEF IInv, Build, world, Typed
<1>2. ~IsRead(e)' /\ Read(e)'
  BY <1>1, Kinds DEF IsRead, Read
<1>3. CASE results[e] = Failed
  <2>1. prev'[e] = prev[e] /\ due'[e] = due[e] /\ credit'[e] = credit[e]
    BY <1>3, BuildFacts
  <2>2. Mark(e)' = Mark(e)
    BY <2>1 DEF Mark
  <2> QED
    BY <1>1, <1>2, <2>1, <2>2 DEF Sound, Marked, Credited
<1>4. CASE results[e] # Failed
  <2>1. /\ prev'[e] = Baseline(e) /\ due'[e] = Owed(e) /\ credit'[e] = credit[e] + Increment(e)
    BY <1>4, BuildFacts
  <2>2. results[e] \in Readings /\ IsRead(e)
    BY <1>1, <1>4 DEF IInv, Heard, Typed, IsRead
  <2>3. /\ results[e].out \in Nat /\ results[e].epoch \in Nat /\ results[e].life \in Nat
        /\ results[e].gauge \in Nat /\ credit[e] \in Int
    BY <1>1, <2>2 DEF Readings, Typed
  <2>4. Before(results[e], engine[e].count, engine[e].epoch, engine[e].life)
    BY <2>2 DEF Sound, Read
  <2>5. ASSUME prev'[e] = [at |-> stamp, out |-> results[e].out],
               due'[e].at = stamp, due'[e].epoch = results[e].epoch,
               due'[e].life = results[e].life, due'[e] \in Dues,
               credit'[e] \in due'[e].least..due'[e].most
        PROVE  Sound(e)'
    <3>1. /\ Mark(e)' = [out |-> results[e].out, epoch |-> results[e].epoch,
                         life |-> results[e].life]
          /\ prev'[e].at = stamp /\ prev'[e] \in Marks
      BY <1>1, <2>3, <2>5 DEF Mark, Marks
    <3>2. Before(Mark(e)', engine[e].count, engine[e].epoch, engine[e].life)
      BY <2>4, <3>1 DEF Before
    <3>3. prev'[e] # None /\ due'[e] # None
      BY <2>5, <3>1, Kinds
    <3>4. Marked(e)'
      BY <1>1, <1>2, <2>5, <3>1, <3>2, <3>3 DEF Marked
    <3> QED
      BY <1>2, <2>5, <3>4 DEF Sound, Credited
  <2>6. CASE due[e] = None
    <3>1. prev[e] = None /\ credit[e] = 0
      BY <2>6 DEF Sound, Marked
    <3>2. /\ prev'[e] = [at |-> stamp, out |-> results[e].out] /\ credit'[e] = 0
      BY <2>1, <3>1 DEF Baseline, Increment
    <3>3. due'[e] = [at |-> stamp, epoch |-> results[e].epoch, life |-> results[e].life,
                     least |-> 0, most |-> 0] /\ due'[e] \in Dues
      BY <1>1, <2>1, <2>2, <2>6, OwedFacts
    <3> QED
      BY <2>5, <3>2, <3>3
  <2>7. CASE due[e] # None /\ stamp <= due[e].at
    <3>1. due'[e] = due[e]
      BY <1>1, <2>1, <2>2, <2>7, OwedFacts
    <3>2. prev[e] # None /\ prev[e].at = due[e].at /\ prev[e].at \in Nat
      BY <1>1, <2>7 DEF Sound, Marked, Typed, Marks
    <3>3. ~(stamp > prev[e].at)
      BY <1>1, <2>7, <3>2
    <3>4. prev'[e] = prev[e]
      BY <2>1, <3>2, <3>3 DEF Baseline
    <3>5. credit'[e] = credit[e]
      <4>1. Increment(e) = 0
        BY <2>7, <3>2 DEF Increment
      <4> QED
        BY <2>1, <2>3, <4>1
    <3>6. Mark(e)' = Mark(e)
      BY <3>1, <3>4 DEF Mark
    <3> QED
      BY <1>1, <1>2, <3>1, <3>4, <3>5, <3>6 DEF Sound, Marked, Credited
  <2>8. CASE due[e] # None /\ ~(stamp <= due[e].at)
    <3> DEFINE d == due[e]
               r == results[e]
               grown == r.out - prev[e].out
               least == Least(e)
               most == Most(e)
    <3>1. /\ due'[e] = [at |-> stamp, epoch |-> r.epoch, life |-> r.life,
                        least |-> d.least + least, most |-> d.most + most]
          /\ due'[e] \in Dues
      BY <1>1, <2>1, <2>2, <2>8, OwedFacts
    <3>2. prev[e] # None /\ prev[e].at = d.at /\ prev[e] \in Marks /\ d \in Dues
      BY <1>1, <2>8 DEF Sound, Marked, Typed
    <3>3. /\ prev[e].at \in Nat /\ prev[e].out \in Nat /\ d.epoch \in Nat /\ d.life \in Nat
          /\ d.least \in Int /\ d.most \in Int /\ credit[e] \in d.least..d.most
      BY <2>8, <3>2 DEF Marks, Dues, Sound, Credited
    <3>4. stamp > prev[e].at /\ ~(stamp <= prev[e].at)
      BY <1>1, <2>8, <3>2, <3>3
    <3>5. prev'[e] = [at |-> stamp, out |-> r.out]
      BY <2>1, <3>4 DEF Baseline
    <3>6. /\ d.epoch <= r.epoch /\ d.life <= r.life
          /\ d.epoch = r.epoch => grown = r.life - d.life
          /\ d.epoch # r.epoch => r.out <= r.life - d.life
      BY <2>2, <2>8 DEF Sound, Marked, Before, Mark
    <3>7. Increment(e) \in least..most /\ least \in Int /\ most \in Int
      <4>1. CASE r.gauge > 0
        <5>1. Increment(e) = Shown(e, prev[e].at)
          BY <3>2, <3>4, <4>1 DEF Increment
        <5>2. least = Shown(e, d.at) /\ most = Shown(e, d.at)
          BY <4>1 DEF Least, Most, Made
        <5>3. Shown(e, d.at) \in Int
          BY <1>1, <2>3, <3>2, <3>3, ShownFacts
        <5> QED
          BY <3>2, <5>1, <5>2, <5>3
      <4>2. CASE ~(r.gauge > 0)
        <5>1. Increment(e) = IF grown < 0 THEN 0 ELSE grown
          <6>1. Increment(e) = Grown(e)
            BY <3>2, <3>4, <4>2 DEF Increment
          <6> QED
            BY <2>3, <3>3, <6>1 DEF Grown
        <5>2. /\ least = IF r.epoch = d.epoch THEN r.life - d.life ELSE 0
              /\ most = r.life - d.life
          BY <4>2 DEF Least, Most, Made
        <5>3. /\ grown \in Int /\ grown <= r.out
              /\ r.out \in Nat /\ r.life \in Nat /\ r.epoch \in Nat
          BY <2>3, <3>3
        <5> HIDE DEF d, r, grown, least, most
        <5>4. CASE d.epoch = r.epoch
          BY <3>3, <3>6, <5>1, <5>2, <5>3, <5>4
        <5>5. CASE d.epoch # r.epoch
          BY <3>3, <3>6, <5>1, <5>2, <5>3, <5>5
        <5> QED
          BY <5>4, <5>5
      <4> QED
        BY <4>1, <4>2
    <3> HIDE DEF d, r, grown, least, most
    <3>8. credit'[e] \in d.least + least..d.most + most
      <4>1. credit'[e] = credit[e] + Increment(e)
        BY <2>1
      <4> QED
        BY <2>3, <3>3, <3>7, <4>1
    <3> QED
      BY <2>5, <3>1, <3>5, <3>8 DEF r
  <2> QED
    BY <2>6, <2>7, <2>8
<1> QED
  BY <1>1, <1>3, <1>4 DEF IInv, Heard, Typed

\* Every step keeps the readings, the baseline and the credit of a vLLM engine sound.
LEMMA SoundKeeps ==
  ASSUME IInv, [Next]_vars, NEW e \in Engines, Kind[e] = "vllm", Sound(e)
  PROVE  Sound(e)'
<1>1. CASE \/ Tick \/ Cancel \/ Consume \/ Post \/ RecordAgent \/ Warm \/ Refresh
           \/ PollsDone \/ Unlock \/ Send \/ Emit \/ Stop \/ UNCHANGED vars
  <2>1. UNCHANGED <<engine, results, state>>
    BY <1>1 DEF Tick, Cancel, Consume, Post, RecordAgent, Warm, Refresh, PollsDone, Unlock,
                Send, Emit, Stop, vars
  <2>2. IInv' /\ clock <= clock'
    BY <1>1, <2>1, AsideKeeps
  <2>3. due[e] # None => prev[e].at <= clock'
    BY <2>1, <2>2 DEF IInv, Sound, Marked, state
  <2> QED
    BY <2>1, <2>3 DEF Sound, Read, Marked, Credited, IsRead, Mark, state
<1>2. CASE \E f \in Engines : Generate(f) \/ Restart(f)
  BY <1>2, EngineSound
<1>3. CASE \E f \in Engines : Poll(f)
  BY <1>3, PollSound
<1>4. CASE Build
  BY <1>4, BuildSound
<1> QED
  BY <1>1, <1>2, <1>3, <1>4 DEF Next

(***************************************************************************)
(* Theorems                                                                *)
(***************************************************************************)
THEOREM Invariant == Spec => []IInv
BY InitHolds, NextKeeps, PTL DEF Spec

\* Whatever is pushed at whatever intervals, a history reads as its last HistoryLen
\* samples, oldest first, and its axis ends at the newest of them (timedRing).
THEOREM HistoriesRead == Spec => []RingInOrder
<1>1. ASSUME IInv
      PROVE  RingInOrder
  <2>1. TypeOK
    <3>1. ASSUME NEW e \in Engines
          PROVE  /\ results[e] = None \/ results[e] = Failed \/ results[e].out \in Nat
                 /\ prev[e] = None \/ (prev[e].at \in 0..clock /\ prev[e].out \in Nat)
                 /\ Len(ring[e].buf) <= HistoryLen /\ ring[e].head \in 0..HistoryLen - 1
      <4>1. /\ results[e] \in Readings \cup {None, Failed} /\ prev[e] \in Marks \cup {None}
            /\ clock \in Nat /\ Ring(ring[e], pushed[e])
            /\ prev[e] # None => prev[e].at <= clock
        BY <1>1 DEF IInv, Typed
      <4>2. prev[e] = None \/ (prev[e].at \in 0..clock /\ prev[e].out \in Nat)
        BY <4>1 DEF Marks
      <4> QED
        BY <4>1, <4>2 DEF Readings, Ring
    <3> QED
      BY <1>1, <3>1 DEF IInv, Typed, TypeOK
  <2> QED
    BY <1>1, <2>1 DEF IInv, Ring, RingInOrder
<1> QED
  BY <1>1, Invariant, PTL

\* An engine that is nothing without its counters is credited with what it generated, in
\* full between two readings without a restart and never with more across one, and with
\* what its own gauge says over the intervals that end with one (rates).
THEOREM CounterCredit ==
  Spec => [](\A e \in Engines : Kind[e] = "vllm" /\ due[e] # None =>
               credit[e] \in due[e].least..due[e].most)
<1>1. Init => RatesInv
  <2> SUFFICES ASSUME Init, NEW e \in Engines
               PROVE  Sound(e)
    BY InitHolds DEF RatesInv, Sound
  <2>1. results[e] = None /\ due[e] = None /\ prev[e] = None /\ credit[e] = 0
    BY DEF Init
  <2> QED
    BY <2>1, Kinds DEF Sound, Read, Marked, Credited, IsRead
<1>2. RatesInv /\ [Next]_vars => RatesInv'
  BY NextKeeps, SoundKeeps DEF RatesInv, Sound
<1>3. RatesInv => \A e \in Engines : Kind[e] = "vllm" /\ due[e] # None =>
                    credit[e] \in due[e].least..due[e].most
  BY DEF RatesInv, Credited
<1> QED
  BY <1>1, <1>2, <1>3, PTL DEF Spec

\* If all engines are of that kind, CreditExact holds; EngineGaps shows that it needs this.
THEOREM AllCredited ==
  ASSUME \A e \in Engines : Kind[e] = "vllm"
  PROVE  Spec => []CreditExact
<1>1. (\A e \in Engines : Kind[e] = "vllm" /\ due[e] # None =>
         credit[e] \in due[e].least..due[e].most) => CreditExact
  BY DEF CreditExact
<1> QED
  BY <1>1, CounterCredit, PTL

=============================================================================

------------------------- MODULE UsageSourcesProofs -------------------------
(***************************************************************************)
(* What the watchers of databases guarantee for any databases, directory   *)
(* spellings and bounds: a reading shows nothing that was not spent, and   *)
(* all that was.  Readings are sums over rows, so the sums come first.     *)
(***************************************************************************)
EXTENDS UsageSources, TLAPS, FiniteSetTheorems, WellFoundedInduction

(***************************************************************************)
(* Sums over a finite set                                                  *)
(*                                                                         *)
(* MapThenSumSet is a fold: the value, for the whole set, of a function    *)
(* defined by recursion on its subsets.                                    *)
(***************************************************************************)
Some(s) == CHOOSE x \in s : TRUE

\* it gives the sum of fun over each subset of D, taking out some element at a time.
Adds(fun, it, D) ==
  it = [s \in SUBSET D |-> IF s = {} THEN 0 ELSE fun[Some(s)] + it[s \ {Some(s)}]]

\* The same, for subsets of at most n elements.
AddsUpTo(fun, it, D, n) ==
  it = [s \in {t \in SUBSET D : Cardinality(t) <= n} |->
          IF s = {} THEN 0 ELSE fun[Some(s)] + it[s \ {Some(s)}]]

SumOver(fun, D) == (CHOOSE it : Adds(fun, it, D))[D]

\* The smallest of a set of numbers.
LEMMA SmallestOf ==
  ASSUME NEW S, S \subseteq Nat, S # {}
  PROVE  \E m \in S : \A y \in S : m <= y
<1>1. PICK m \in S : \A y \in S : ~(<<y, m>> \in OpToRel(<, Nat))
  BY NatLessThanWellFounded, WFMin
<1>2. \A y \in S : ~(y < m)
  BY <1>1 DEF OpToRel
<1> QED
  BY <1>2

\* A set of numbers that holds zero, and the successor of each of its members, holds
\* them all.
LEMMA AllNumbers ==
  ASSUME NEW S, 0 \in S, \A n \in Nat : n \in S => n + 1 \in S
  PROVE  Nat \subseteq S
<1> SUFFICES ASSUME Nat \ S # {}
             PROVE  FALSE
  OBVIOUS
<1>1. PICK m \in Nat \ S : \A n \in Nat \ S : m <= n
  BY SmallestOf
<1>2. m # 0 /\ m - 1 \in Nat
  BY <1>1
<1>3. m - 1 \in Nat \ S
  BY <1>1, <1>2
<1> QED
  BY <1>1, <1>2, <1>3

\* A family that holds a set once it holds it less any one element holds all subsets
\* of a finite set.
LEMMA AllSubsets ==
  ASSUME NEW D, IsFiniteSet(D), NEW G,
         \A s \in SUBSET D : (\A x \in s : s \ {x} \in G) => s \in G
  PROVE  SUBSET D \subseteq G
<1> DEFINE Bad == {Cardinality(s) : s \in (SUBSET D) \ G}
<1>0. \A s \in SUBSET D : IsFiniteSet(s) /\ Cardinality(s) \in Nat
  BY FS_Subset, FS_CardinalityType
<1> SUFFICES ASSUME Bad # {}
             PROVE  FALSE
  OBVIOUS
<1>1. PICK m \in Bad : \A y \in Bad : m <= y
  <2>1. Bad \subseteq Nat
    BY <1>0
  <2> HIDE DEF Bad
  <2> QED
    BY <2>1, SmallestOf
<1>2. PICK s \in (SUBSET D) \ G : m = Cardinality(s)
  BY <1>1
<1>3. PICK x \in s : s \ {x} \notin G
  BY <1>2
<1>4. s \ {x} \in (SUBSET D) \ G
  BY <1>2, <1>3
<1>5. Cardinality(s \ {x}) = m - 1 /\ m \in Nat
  BY <1>0, <1>2, <1>3, FS_RemoveElement
<1>6. Cardinality(s \ {x}) \in Bad
  BY <1>4
<1> HIDE DEF Bad
<1>7. m <= m - 1
  BY <1>1, <1>5, <1>6
<1> QED
  BY <1>5, <1>7

\* Taking an element out of a set takes one off its size.
LEMMA TakenOut ==
  ASSUME NEW D, IsFiniteSet(D), NEW s \in SUBSET D, s # {}
  PROVE  /\ Some(s) \in s /\ s \ {Some(s)} \in SUBSET D
         /\ Cardinality(s) \in Nat /\ Cardinality(s) > 0
         /\ Cardinality(s \ {Some(s)}) = Cardinality(s) - 1
<1>1. IsFiniteSet(s)
  BY FS_Subset
<1>2. Some(s) \in s
  BY DEF Some
<1>3. Cardinality(s) \in Nat /\ Cardinality(s) # 0
  BY <1>1, FS_CardinalityType, FS_EmptySet
<1>4. Cardinality(s \ {Some(s)}) = Cardinality(s) - 1
  BY <1>1, <1>2, FS_RemoveElement
<1> QED
  BY <1>2, <1>3, <1>4

\* There is one, if there are finitely many elements: with it for subsets of n
\* elements, the equation itself defines it for those of one more.
LEMMA SumExists ==
  ASSUME NEW D, IsFiniteSet(D), NEW fun
  PROVE  \E it : Adds(fun, it, D)
<1> DEFINE S == {n \in Nat : \E it : AddsUpTo(fun, it, D, n)}
           Upto(n) == {t \in SUBSET D : Cardinality(t) <= n}
<1>0. \A t \in SUBSET D : IsFiniteSet(t) /\ Cardinality(t) \in Nat /\ (Cardinality(t) = 0 <=> t = {})
  BY FS_Subset, FS_CardinalityType, FS_EmptySet
<1>1. 0 \in S
  <2>1. \A t \in Upto(0) : t = {}
    BY <1>0
  <2>2. AddsUpTo(fun, [t \in Upto(0) |-> 0], D, 0)
    BY <2>1 DEF AddsUpTo
  <2> QED
    BY <2>2
<1>2. ASSUME NEW n \in Nat, n \in S
      PROVE  n + 1 \in S
  <2>1. PICK it : AddsUpTo(fun, it, D, n)
    BY <1>2
  <2>2. PICK jt : jt = [s \in Upto(n + 1) |->
                          IF s = {} THEN 0 ELSE fun[Some(s)] + it[s \ {Some(s)}]]
    OBVIOUS
  <2>3. ASSUME NEW s \in Upto(n + 1), s # {}
        PROVE  jt[s \ {Some(s)}] = it[s \ {Some(s)}]
    <3> DEFINE t == s \ {Some(s)}
    <3>1. t \in Upto(n) /\ t \in Upto(n + 1)
      BY <2>3, TakenOut
    <3>2. it[t] = IF t = {} THEN 0 ELSE fun[Some(t)] + it[t \ {Some(t)}]
      BY <2>1, <3>1, Zenon DEF AddsUpTo
    <3>3. jt[t] = IF t = {} THEN 0 ELSE fun[Some(t)] + it[t \ {Some(t)}]
      BY <2>2, <3>1, Zenon
    <3> QED
      BY <3>2, <3>3
  <2>4. jt = [s \in Upto(n + 1) |-> IF s = {} THEN 0 ELSE fun[Some(s)] + jt[s \ {Some(s)}]]
    BY <2>2, <2>3
  <2>5. AddsUpTo(fun, jt, D, n + 1)
    BY <2>4, Zenon DEF AddsUpTo
  <2> QED
    BY <2>5
<1>3. Nat \subseteq S
  <2> HIDE DEF S
  <2> QED
    BY <1>1, <1>2, AllNumbers
<1>4. Cardinality(D) \in Nat
  BY FS_CardinalityType
<1>5. PICK it : AddsUpTo(fun, it, D, Cardinality(D))
  BY <1>3, <1>4
<1>6. Upto(Cardinality(D)) = SUBSET D
  BY FS_Subset
<1> QED
  BY <1>5, <1>6, Zenon DEF AddsUpTo, Adds

\* There is no other.
LEMMA SumUnique ==
  ASSUME NEW D, IsFiniteSet(D), NEW fun, NEW it, NEW jt, Adds(fun, it, D), NEW T \in SUBSET D,
         Adds(fun, jt, T)
  PROVE  \A s \in SUBSET T : it[s] = jt[s]
<1> DEFINE G == {s \in SUBSET T : it[s] = jt[s]}
<1>1. ASSUME NEW s \in SUBSET T, \A x \in s : s \ {x} \in G
      PROVE  s \in G
  <2>1. s \in SUBSET D
    OBVIOUS
  <2>2. /\ it[s] = IF s = {} THEN 0 ELSE fun[Some(s)] + it[s \ {Some(s)}]
        /\ jt[s] = IF s = {} THEN 0 ELSE fun[Some(s)] + jt[s \ {Some(s)}]
    BY <2>1, Zenon DEF Adds
  <2>3. s # {} => it[s \ {Some(s)}] = jt[s \ {Some(s)}]
    BY <1>1 DEF Some
  <2> QED
    BY <2>2, <2>3
<1>2. IsFiniteSet(T)
  BY FS_Subset
<1>3. SUBSET T \subseteq G
  <2> HIDE DEF G
  <2> QED
    BY <1>1, <1>2, AllSubsets
<1> QED
  BY <1>3

\* A sum is that of one element and that of the others.
LEMMA SumStep ==
  ASSUME NEW D, IsFiniteSet(D), NEW fun
  PROVE  SumOver(fun, D) = IF D = {} THEN 0 ELSE fun[Some(D)] + SumOver(fun, D \ {Some(D)})
<1> DEFINE T == D \ {Some(D)}
<1>1. IsFiniteSet(T) /\ T \in SUBSET D
  BY FS_Subset
<1>2. PICK it : Adds(fun, it, D) /\ SumOver(fun, D) = it[D]
  BY SumExists DEF SumOver
<1>3. PICK jt : Adds(fun, jt, T) /\ SumOver(fun, T) = jt[T]
  BY <1>1, SumExists DEF SumOver
<1>4. it[T] = jt[T]
  BY <1>1, <1>2, <1>3, SumUnique
<1>5. it[D] = IF D = {} THEN 0 ELSE fun[Some(D)] + it[T]
  BY <1>2, Zenon DEF Adds
<1> QED
  BY <1>2, <1>3, <1>4, <1>5

\* A sum of integers is one.
LEMMA SumType ==
  ASSUME NEW D, IsFiniteSet(D), NEW fun \in [D -> Int]
  PROVE  \A s \in SUBSET D : SumOver(fun, s) \in Int
<1> DEFINE G == {s \in SUBSET D : SumOver(fun, s) \in Int}
<1>1. ASSUME NEW s \in SUBSET D, \A x \in s : s \ {x} \in G
      PROVE  s \in G
  <2>1. SumOver(fun, s) = IF s = {} THEN 0 ELSE fun[Some(s)] + SumOver(fun, s \ {Some(s)})
    BY FS_Subset, SumStep
  <2>2. s # {} => fun[Some(s)] \in Int /\ SumOver(fun, s \ {Some(s)}) \in Int
    BY <1>1 DEF Some
  <2> QED
    BY <2>1, <2>2
<1>2. SUBSET D \subseteq G
  <2> HIDE DEF G
  <2> QED
    BY <1>1, AllSubsets
<1> QED
  BY <1>2

\* It does not matter which element is taken out.
LEMMA SumTake ==
  ASSUME NEW D, IsFiniteSet(D), NEW fun \in [D -> Int]
  PROVE  \A s \in SUBSET D : \A x \in s : SumOver(fun, s) = fun[x] + SumOver(fun, s \ {x})
<1> DEFINE G == {s \in SUBSET D : \A x \in s : SumOver(fun, s) = fun[x] + SumOver(fun, s \ {x})}
<1>1. ASSUME NEW s \in SUBSET D, \A x \in s : s \ {x} \in G
      PROVE  s \in G
  <2> SUFFICES ASSUME NEW x \in s
               PROVE  SumOver(fun, s) = fun[x] + SumOver(fun, s \ {x})
    OBVIOUS
  <2>1. PICK y : y = Some(s)
    OBVIOUS
  <2>2. y \in s /\ SumOver(fun, s) = fun[y] + SumOver(fun, s \ {y})
    <3>1. y \in s
      BY <2>1 DEF Some
    <3>2. SumOver(fun, s) = IF s = {} THEN 0 ELSE fun[y] + SumOver(fun, s \ {y})
      BY <2>1, FS_Subset, SumStep
    <3> QED
      BY <3>1, <3>2
  <2>3. CASE x # y
    <3>1. SumOver(fun, s \ {y}) = fun[x] + SumOver(fun, (s \ {y}) \ {x})
      BY <1>1, <2>2, <2>3
    <3>2. SumOver(fun, s \ {x}) = fun[y] + SumOver(fun, (s \ {x}) \ {y})
      BY <1>1, <2>2, <2>3
    <3>3. (s \ {y}) \ {x} = (s \ {x}) \ {y}
      OBVIOUS
    <3>4. PICK k : k = SumOver(fun, (s \ {y}) \ {x})
      OBVIOUS
    <3>5. k \in Int
      <4>1. (s \ {y}) \ {x} \in SUBSET D
        OBVIOUS
      <4> QED
        BY <3>4, <4>1, SumType
    <3>6. fun[x] \in Int /\ fun[y] \in Int
      BY <2>2
    <3>7. SumOver(fun, s) = fun[y] + (fun[x] + k) /\ SumOver(fun, s \ {x}) = fun[y] + k
      BY <2>2, <3>1, <3>2, <3>3, <3>4
    <3> QED
      BY <3>5, <3>6, <3>7
  <2> QED
    BY <2>2, <2>3
<1>2. SUBSET D \subseteq G
  <2> HIDE DEF G
  <2> QED
    BY <1>1, AllSubsets
<1> QED
  BY <1>2

\* A sum is not greater than another that has more of each element.
LEMMA SumBelow ==
  ASSUME NEW D, IsFiniteSet(D), NEW g \in [D -> Int], NEW h \in [D -> Int],
         NEW A \in SUBSET D, NEW B \in SUBSET D,
         \A x \in A \cap B : g[x] <= h[x],
         \A x \in A \ B : g[x] <= 0,
         \A x \in B \ A : 0 <= h[x]
  PROVE  SumOver(g, A) <= SumOver(h, B)
<1> DEFINE G == {s \in SUBSET D : SumOver(g, A \cap s) <= SumOver(h, B \cap s)}
<1>0. \A s \in SUBSET D : SumOver(g, A \cap s) \in Int /\ SumOver(h, B \cap s) \in Int
  BY SumType
<1>1. ASSUME NEW s \in SUBSET D, \A x \in s : s \ {x} \in G
      PROVE  s \in G
  <2>1. CASE s = {}
    <3>1. SumOver(g, {}) = 0 /\ SumOver(h, {}) = 0
      BY FS_EmptySet, SumStep
    <3>2. A \cap s = {} /\ B \cap s = {}
      BY <2>1
    <3> QED
      BY <3>1, <3>2
  <2>2. ASSUME NEW x \in s
        PROVE  s \in G
    <3>1. SumOver(g, A \cap (s \ {x})) <= SumOver(h, B \cap (s \ {x}))
      BY <1>1
    <3>2. /\ x \in A => SumOver(g, A \cap s) = g[x] + SumOver(g, A \cap (s \ {x}))
          /\ x \notin A => SumOver(g, A \cap s) = SumOver(g, A \cap (s \ {x}))
      <4>1. (A \cap s) \ {x} = A \cap (s \ {x})
        OBVIOUS
      <4>2. x \in A => SumOver(g, A \cap s) = g[x] + SumOver(g, (A \cap s) \ {x})
        BY SumTake
      <4>3. x \notin A => A \cap s = A \cap (s \ {x})
        OBVIOUS
      <4> QED
        BY <4>1, <4>2, <4>3
    <3>3. /\ x \in B => SumOver(h, B \cap s) = h[x] + SumOver(h, B \cap (s \ {x}))
          /\ x \notin B => SumOver(h, B \cap s) = SumOver(h, B \cap (s \ {x}))
      <4>1. (B \cap s) \ {x} = B \cap (s \ {x})
        OBVIOUS
      <4>2. x \in B => SumOver(h, B \cap s) = h[x] + SumOver(h, (B \cap s) \ {x})
        BY SumTake
      <4>3. x \notin B => B \cap s = B \cap (s \ {x})
        OBVIOUS
      <4> QED
        BY <4>1, <4>2, <4>3
    <3>4. g[x] \in Int /\ h[x] \in Int
      OBVIOUS
    <3>5. SumOver(g, A \cap (s \ {x})) \in Int /\ SumOver(h, B \cap (s \ {x})) \in Int
      BY <1>0
    <3> QED
      BY <3>1, <3>2, <3>3, <3>4, <3>5
  <2> QED
    BY <2>1, <2>2
<1>2. D \in G
  <2>1. SUBSET D \subseteq G
    <3> HIDE DEF G
    <3> QED
      BY <1>1, AllSubsets
  <2> QED
    BY <2>1
<1>3. A \cap D = A /\ B \cap D = B
  OBVIOUS
<1> QED
  BY <1>2, <1>3

\* Two sums over a set are, together, the sum of both.
LEMMA SumBoth ==
  ASSUME NEW D, IsFiniteSet(D), NEW g \in [D -> Int], NEW h \in [D -> Int],
         NEW A \in SUBSET D
  PROVE  SumOver(g, A) + SumOver(h, A) = SumOver([x \in D |-> g[x] + h[x]], A)
<1>0. PICK k : k = [x \in D |-> g[x] + h[x]]
  OBVIOUS
<1>1. k \in [D -> Int]
  BY <1>0
<1> DEFINE G == {s \in SUBSET D : SumOver(g, s) + SumOver(h, s) = SumOver(k, s)}
<1>2. ASSUME NEW s \in SUBSET D, \A x \in s : s \ {x} \in G
      PROVE  s \in G
  <2>1. CASE s = {}
    <3>1. SumOver(g, {}) = 0 /\ SumOver(h, {}) = 0 /\ SumOver(k, {}) = 0
      BY FS_EmptySet, SumStep
    <3> QED
      BY <2>1, <3>1
  <2>2. ASSUME NEW x \in s
        PROVE  s \in G
    <3>1. PICK t : t = s \ {x}
      OBVIOUS
    <3>2. SumOver(g, t) + SumOver(h, t) = SumOver(k, t)
      BY <1>2, <3>1
    <3>3. /\ SumOver(g, s) = g[x] + SumOver(g, t)
          /\ SumOver(h, s) = h[x] + SumOver(h, t)
          /\ SumOver(k, s) = k[x] + SumOver(k, t)
      BY <1>1, <3>1, SumTake
    <3>4. /\ SumOver(g, t) \in Int /\ SumOver(h, t) \in Int /\ SumOver(k, t) \in Int
          /\ g[x] \in Int /\ h[x] \in Int /\ k[x] = g[x] + h[x]
      BY <1>0, <1>1, <3>1, SumType
    <3>5. SumOver(g, s) + SumOver(h, s) = SumOver(k, s)
      BY <3>2, <3>3, <3>4
    <3> QED
      BY <3>5
  <2> QED
    BY <2>1, <2>2
<1>3. SUBSET D \subseteq G
  <2> HIDE DEF G
  <2> QED
    BY <1>2, AllSubsets
<1> QED
  BY <1>0, <1>3

(***************************************************************************)
(* What the operators of the model add up                                  *)
(***************************************************************************)
\* The numbers that are added up for one counter.
Column(d, c) == [r \in Rows |-> d[r][c]]
Growth(c) == [r \in Rows |-> Grown(r)[c]]
Late(c) == [r \in Rows |-> due[r][c] - forgiven[r][c]]

\* The counters of rows, added up (readSource).
LEMMA TotalTokens ==
  ASSUME NEW S \in SUBSET Rows, NEW c \in Counters
  PROVE  Total(Tokens, S)[c] = SumOver(Column(rows, c), S)
BY ZenonT(60) DEF Total, MapThenSumSet, MapThenFoldSet, Adds, Some, SumOver, Column, Tokens

\* What sessions gained, added up (readSessionSource).
LEMMA TotalGrown ==
  ASSUME NEW S \in SUBSET Rows, NEW c \in Counters
  PROVE  Total(Grown, S)[c] = SumOver(Growth(c), S)
BY ZenonT(60) DEF Total, MapThenSumSet, MapThenFoldSet, Adds, Some, SumOver, Growth

\* What was written since the attach, added up, before and after a step.
LEMMA TotalSpent ==
  ASSUME NEW c \in Counters
  PROVE  /\ Spent[c] = SumOver(Column(due, c), Rows)
         /\ Spent'[c] = SumOver(Column(due', c), Rows)
<1>1. Spent[c] = SumOver(Column(due, c), Rows)
  BY DEF Spent, Total, MapThenSumSet, MapThenFoldSet, Adds, Some, SumOver, Column
<1>2. Spent'[c] = SumOver(Column(due', c), Rows)
  <2>1. PICK d : d = due'
    OBVIOUS
  <2>2. Spent'[c] = (CHOOSE it : Adds(Column(d, c), it, Rows))[Rows]
    BY <2>1 DEF Spent, Total, MapThenSumSet, MapThenFoldSet, Adds, Some, Column
  <2> QED
    BY <2>1, <2>2 DEF SumOver
<1> QED
  BY <1>1, <1>2

\* What a complete reading shows at least.
LEMMA OwedSum ==
  ASSUME NEW S \in SUBSET Rows, \A c \in Counters : sample[c] >= SumOver(Late(c), S)
  PROVE  Owed(S)
<1>1. ASSUME NEW c \in Counters
      PROVE  MapThenSumSet(LAMBDA r : due[r][c] - forgiven[r][c], S) = SumOver(Late(c), S)
  <2> DEFINE Owing(s) == due[Some(s)][c] - forgiven[Some(s)][c]
             Sums(it) == it = [s \in SUBSET S |-> IF s = {} THEN 0 ELSE Owing(s) + it[s \ {Some(s)}]]
  <2>1. MapThenSumSet(LAMBDA r : due[r][c] - forgiven[r][c], S) = (CHOOSE it : Sums(it))[S]
    BY DEF MapThenSumSet, MapThenFoldSet, Some
  <2>2. \A s \in SUBSET S : s # {} => Late(c)[Some(s)] = Owing(s)
    BY DEF Late, Some
  <2>3. \A it : Adds(Late(c), it, S) <=> Sums(it)
    <3> HIDE DEF Owing
    <3> QED
      BY <2>2 DEF Adds
  <2> HIDE DEF Sums
  <2> QED
    BY <2>1, <2>3 DEF SumOver
<1> QED
  BY <1>1 DEF Owed

(***************************************************************************)
(* The invariant                                                           *)
(***************************************************************************)
None == [r \in Rows |-> Zero]

Base(r, c) == IF r \in DOMAIN sourceBase THEN sourceBase[r][c] ELSE 0

\* m holds what the snapshot did not see of each row: with it, the baseline and what
\* was written since, the counters of every row are accounted for.
Accounts(m) ==
  /\ m \in [Rows -> [Counters -> Nat]]
  /\ \A c \in Counters : SumOver(Column(m, c), Rows) <= missed[c]
  /\ \A r \in Rows, c \in Counters : rows[r][c] <= due[r][c] + Base(r, c) + m[r][c]

\* Nothing of what was written since the attach, or the baseline, is gone.
Intact ==
  /\ \A r \in Rows, c \in Counters : due[r][c] <= rows[r][c]
  /\ agent = "crush" => \A r \in Rows, c \in Counters : due[r][c] > 0 => rows[r].at >= since
  /\ hasSessionBase =>
       \A r \in Rows, c \in Counters : due[r][c] - forgiven[r][c] <= rows[r][c] - Base(r, c)

SourceInv ==
  /\ TypeOK
  /\ since <= clock
  /\ \A r \in Rows : rows[r].at <= clock
  /\ ~Attached => ~hasSessionBase /\ due = None
  /\ ~hasSessionBase => missed = Zero /\ forgiven = None
  /\ hasSessionBase => agent = "crush" /\ \E m : Accounts(m)
  /\ agent = "opencode" /\ Attached =>
       \A r \in Rows, c \in Counters : rows[r].at > since => rows[r][c] <= due[r][c]
  /\ ~faded => Intact

\* There are finitely many rows.
LEMMA RowsFinite == IsFiniteSet(Rows)
BY SourceAssumption, FS_Product DEF SourceAssumption, Rows

\* A sum of numbers is one.
LEMMA SumNat ==
  ASSUME NEW g \in [Rows -> Nat], NEW S \in SUBSET Rows
  PROVE  SumOver(g, S) \in Nat
<1>1. g \in [Rows -> Int]
  OBVIOUS
<1>2. SumOver(g, S) \in Int
  BY <1>1, RowsFinite, SumType
<1>3. SumOver(g, {}) <= SumOver(g, S)
  <2>1. \A x \in S \ {} : 0 <= g[x]
    OBVIOUS
  <2> QED
    BY <1>1, <2>1, RowsFinite, SumBelow
<1>4. SumOver(g, {}) = 0
  BY FS_EmptySet, SumStep
<1> QED
  BY <1>2, <1>3, <1>4

\* The columns of the state hold numbers.
LEMMA ColumnTypes ==
  ASSUME NEW d \in [Rows -> [Counters -> Nat]], NEW c \in Counters
  PROVE  Column(d, c) \in [Rows -> Nat] /\ \A r \in Rows : Column(d, c)[r] = d[r][c]
BY DEF Column

\* The counters of a row are numbers.
LEMMA RowTypes ==
  ASSUME TypeOK
  PROVE  /\ \A r \in Rows, c \in Counters : rows[r][c] \in Nat
         /\ \A c \in Counters : Column(rows, c) \in [Rows -> Nat]
         /\ \A r \in Rows : rows[r].at \in Int
<1>1. ASSUME NEW r \in Rows
      PROVE  rows[r].output \in Nat /\ rows[r].input \in Nat /\ rows[r].at \in Int
  BY DEF TypeOK
<1>2. \A r \in Rows, c \in Counters : rows[r][c] \in Nat
  BY <1>1 DEF Counters
<1> QED
  BY <1>1, <1>2 DEF Column

\* A walk finds databases (crushDBPath).
LEMMA PathsAreDbs == crushDBPaths \subseteq Dbs
<1> SUFFICES ASSUME NEW w \in Walks
             PROVE  crushDBPath(w) \subseteq Dbs
  BY DEF crushDBPaths
<1>1. PICK found : found = {k \in DOMAIN w : crushDBIn(w[k])}
  OBVIOUS
<1>2. w \in Seq(Dbs) /\ found \subseteq DOMAIN w
  BY <1>1, SourceAssumption DEF SourceAssumption
<1>3. DOMAIN w \subseteq Nat
  BY <1>2
<1>4. found # {} => Min(found) \in found
  <2> SUFFICES ASSUME found # {}
               PROVE  Min(found) \in found
    OBVIOUS
  <2>1. \E m \in found : \A y \in found : m <= y
    BY <1>2, <1>3, SmallestOf
  <2> QED
    BY <2>1 DEF Min
<1>5. found # {} => w[Min(found)] \in Dbs
  BY <1>2, <1>4
<1> QED
  BY <1>1, <1>5 DEF crushDBPath

\* What is read are rows, and what a session gained is a number.
LEMMA ReadTypes ==
  ASSUME TypeOK
  PROVE  /\ \A t : readCrushSessions(t) \in SUBSET Rows
         /\ openCodeRows \in SUBSET Rows
         /\ Visible \in SUBSET Rows
         /\ DOMAIN Snapshot \in SUBSET Rows
         /\ \A r \in DOMAIN Snapshot : Snapshot[r] \in [Counters -> Nat]
         /\ \A r \in DOMAIN Snapshot, c \in Counters : Snapshot[r][c] = rows[r][c]
         /\ \A c \in Counters : Growth(c) \in [Rows -> Nat]
<1>1. crushDBPaths \X Ids \subseteq Rows
  BY PathsAreDbs DEF Rows
<1>2. \A r \in Rows, c \in Counters : rows[r][c] \in Nat
  BY RowTypes
<1>3. /\ \A t : readCrushSessions(t) \in SUBSET Rows
      /\ openCodeRows \in SUBSET Rows
      /\ Visible \in SUBSET Rows
      /\ DOMAIN Snapshot \in SUBSET Rows
  BY <1>1 DEF readCrushSessions, openCodeRows, Visible, Snapshot
<1>4. \A r \in DOMAIN Snapshot : Snapshot[r] = Tokens(r)
  BY DEF Snapshot
<1>5. \A r \in Rows : Tokens(r) \in [Counters -> Nat] /\ \A c \in Counters : Tokens(r)[c] = rows[r][c]
  BY <1>2 DEF Tokens
<1>6. ASSUME NEW r \in Rows, NEW c \in Counters
      PROVE  Grown(r)[c] \in Nat
  <2>1. r \in DOMAIN sourceBase => sourceBase[r][c] \in Nat
    BY DEF TypeOK
  <2> QED
    BY <1>2, <2>1 DEF Grown
<1> QED
  BY <1>3, <1>4, <1>5, <1>6 DEF Growth

\* A reading consists of numbers.
LEMMA ReadingType ==
  ASSUME TypeOK
  PROVE  Reading \in [Counters -> Nat] /\ \A S \in SUBSET Rows : Total(Tokens, S) \in [Counters -> Nat]
<1>1. ASSUME NEW S \in SUBSET Rows
      PROVE  /\ Total(Tokens, S) \in [Counters -> Nat]
             /\ Total(Grown, S) \in [Counters -> Nat]
  <2>1. \A c \in Counters : Total(Tokens, S)[c] \in Nat
    BY TotalTokens, RowTypes, SumNat
  <2>2. \A c \in Counters : Total(Grown, S)[c] \in Nat
    BY TotalGrown, ReadTypes, SumNat
  <2>3. /\ Total(Tokens, S) = [c \in Counters |-> Total(Tokens, S)[c]]
        /\ Total(Grown, S) = [c \in Counters |-> Total(Grown, S)[c]]
    BY DEF Total
  <2> QED
    BY <2>1, <2>2, <2>3
<1> QED
  BY <1>1, ReadTypes DEF Reading

(***************************************************************************)
(* A reading                                                               *)
(***************************************************************************)
\* A reading shows no more than what was spent since the attach, or was in a database
\* that the snapshot could not see (Grown, openCodeRows).
LEMMA ReadingBound ==
  ASSUME SourceInv, Attached, agent = "opencode" \/ hasSessionBase, NEW c \in Counters
  PROVE  Reading[c] <= Spent[c] + missed[c]
<1>1. /\ TypeOK /\ due \in [Rows -> [Counters -> Nat]] /\ missed[c] \in Nat /\ agent \in Agents
      /\ agent \in {"crush", "opencode"}
  BY SourceAssumption DEF SourceInv, TypeOK, SourceAssumption
<1>2. /\ Column(due, c) \in [Rows -> Nat] /\ \A r \in Rows : Column(due, c)[r] = due[r][c]
      /\ Column(rows, c) \in [Rows -> Nat] /\ \A r \in Rows : Column(rows, c)[r] = rows[r][c]
  BY <1>1, ColumnTypes, RowTypes DEF Column
<1>3. Spent[c] = SumOver(Column(due, c), Rows) /\ Spent[c] \in Nat
  BY <1>2, TotalSpent, SumNat
<1>4. CASE agent = "crush"
  <2>1. PICK m : Accounts(m)
    BY <1>4 DEF SourceInv
  <2>2. PICK S \in SUBSET Rows : Reading[c] = SumOver(Growth(c), S)
    <3>1. readCrushSessions(since) \in SUBSET Rows
      BY <1>1, ReadTypes
    <3>2. Reading[c] = Total(Grown, readCrushSessions(since))[c]
      BY <1>4 DEF Reading
    <3> QED
      BY <3>1, <3>2, TotalGrown
  <2>3. Growth(c) \in [Rows -> Nat]
    BY <1>1, ReadTypes
  <2>4. Column(m, c) \in [Rows -> Nat] /\ \A r \in Rows : Column(m, c)[r] = m[r][c]
    BY <2>1, ColumnTypes DEF Accounts
  <2> DEFINE k == [r \in Rows |-> Column(due, c)[r] + Column(m, c)[r]]
  <2>5. k \in [Rows -> Int] /\ \A r \in Rows : 0 <= k[r]
    BY <1>2, <2>4
  <2>6. ASSUME NEW r \in Rows
        PROVE  Growth(c)[r] <= k[r]
    <3>1. Growth(c)[r] = IF r \notin DOMAIN sourceBase THEN rows[r][c]
                         ELSE IF rows[r][c] > sourceBase[r][c] THEN rows[r][c] - sourceBase[r][c] ELSE 0
      BY DEF Growth, Grown
    <3>2. rows[r][c] <= due[r][c] + Base(r, c) + m[r][c]
      BY <2>1 DEF Accounts
    <3>3. rows[r][c] \in Nat /\ due[r][c] \in Nat /\ m[r][c] \in Nat
          /\ (r \in DOMAIN sourceBase => sourceBase[r][c] \in Nat)
      BY <1>1, <2>1, RowTypes DEF Accounts, TypeOK
    <3>4. k[r] = due[r][c] + m[r][c]
      BY <1>2, <2>4
    <3> HIDE DEF k
    <3> QED
      BY <3>1, <3>2, <3>3, <3>4 DEF Base
  <2>7. SumOver(Growth(c), S) <= SumOver(k, Rows)
    <3>1. Growth(c) \in [Rows -> Int] /\ S \ Rows = {}
      BY <2>3
    <3> HIDE DEF k
    <3> QED
      BY <2>5, <2>6, <3>1, RowsFinite, SumBelow
  <2>8. SumOver(k, Rows) = SumOver(Column(due, c), Rows) + SumOver(Column(m, c), Rows)
    <3>1. Column(due, c) \in [Rows -> Int] /\ Column(m, c) \in [Rows -> Int]
      BY <1>2, <2>4
    <3> QED
      BY <3>1, RowsFinite, SumBoth
  <2>9. SumOver(Column(m, c), Rows) <= missed[c] /\ SumOver(Column(m, c), Rows) \in Nat
    BY <2>1, <2>4, SumNat DEF Accounts
  <2>10. SumOver(Growth(c), S) \in Nat
    BY <2>3, SumNat
  <2> HIDE DEF k
  <2> QED
    BY <1>1, <1>3, <2>2, <2>7, <2>8, <2>9, <2>10
<1>5. CASE agent = "opencode"
  <2>1. openCodeRows \in SUBSET Rows
    BY <1>1, ReadTypes
  <2>2. Reading[c] = SumOver(Column(rows, c), openCodeRows)
    BY <1>5, <2>1, TotalTokens DEF Reading
  <2>3. \A r \in openCodeRows : Column(rows, c)[r] <= Column(due, c)[r]
    BY <1>2, <1>5 DEF openCodeRows, SourceInv
  <2>4. SumOver(Column(rows, c), openCodeRows) <= SumOver(Column(due, c), Rows)
    <3>1. Column(rows, c) \in [Rows -> Int] /\ Column(due, c) \in [Rows -> Int]
          /\ (\A r \in Rows : 0 <= Column(due, c)[r])
      BY <1>2
    <3>2. openCodeRows \ Rows = {}
      BY <2>1
    <3> QED
      BY <2>1, <2>3, <3>1, <3>2, RowsFinite, SumBelow
  <2>5. SumOver(Column(rows, c), openCodeRows) \in Nat
    BY <1>2, <2>1, SumNat
  <2> QED
    BY <1>1, <1>3, <2>2, <2>4, <2>5
<1> QED
  BY <1>1, <1>4, <1>5

\* A row written since the attach is in what crush reads, unless its stamp is one of
\* the second of the attach (touchedSince).
LEMMA TouchedWhenCovered ==
  ASSUME TypeOK, Attached, agent = "crush", NEW r \in Rows, Covered(r), rows[r].at >= since
  PROVE  TouchedSince(r, since)
<1>1. rows[r].at \in Int /\ since \in Int
  BY RowTypes DEF TypeOK
<1>2. CASE rows[r].unit = "ms"
  BY <1>2 DEF TouchedSince
<1>3. CASE rows[r].unit # "ms"
  <2>1. rows[r].at \div 2 > since \div 2
    BY <1>3 DEF Covered
  <2>2. (since + 1) \div 2 <= since \div 2 + 1
    BY <1>1
  <2> QED
    BY <1>1, <1>3, <2>1, <2>2 DEF TouchedSince
<1> QED
  BY <1>2, <1>3

\* A reading that found every database shows all there is to be shown.
LEMMA ReadingCovers ==
  ASSUME SourceInv, Attached, agent = "opencode" \/ hasSessionBase, hidden = {}, ~faded,
         NEW c \in Counters
  PROVE  SumOver(Late(c), {r \in Visible : Covered(r)}) <= Reading[c]
<1> DEFINE A == {r \in Visible : Covered(r)}
<1>1. /\ TypeOK /\ Intact /\ due \in [Rows -> [Counters -> Nat]] /\ since \in Int /\ since >= 0
      /\ forgiven \in [Rows -> [Counters -> Nat]]
      /\ agent \in {"crush", "opencode"} /\ A \in SUBSET Rows
  BY SourceAssumption, ReadTypes DEF SourceInv, TypeOK, SourceAssumption, Attached
<1>2. \A r \in Rows : rows[r][c] \in Nat /\ due[r][c] \in Nat /\ forgiven[r][c] \in Nat
                      /\ Late(c)[r] = due[r][c] - forgiven[r][c] /\ rows[r].at \in Int
  BY <1>1, RowTypes DEF Late
<1>3. Late(c) \in [Rows -> Int]
  BY <1>2 DEF Late
<1>4. CASE agent = "crush"
  <2> DEFINE B == readCrushSessions(since)
  <2>1. B \in SUBSET Rows /\ Reading[c] = SumOver(Growth(c), B) /\ Growth(c) \in [Rows -> Nat]
    BY <1>1, <1>4, ReadTypes, TotalGrown DEF Reading
  <2>2. ASSUME NEW r \in Rows
        PROVE  Late(c)[r] <= rows[r][c] - Base(r, c) /\ Base(r, c) \in Nat
    <3>1. hasSessionBase
      BY <1>4
    <3>2. due[r][c] - forgiven[r][c] <= rows[r][c] - Base(r, c)
      BY <1>1, <3>1 DEF Intact
    <3>3. r \in DOMAIN sourceBase => sourceBase[r][c] \in Nat
      BY <1>1 DEF TypeOK
    <3> QED
      BY <1>2, <3>2, <3>3 DEF Base
  <2>3. ASSUME NEW r \in Rows
        PROVE  Late(c)[r] <= Growth(c)[r]
    <3>1. Growth(c)[r] = IF r \notin DOMAIN sourceBase THEN rows[r][c]
                         ELSE IF rows[r][c] > sourceBase[r][c] THEN rows[r][c] - sourceBase[r][c] ELSE 0
      BY DEF Growth, Grown
    <3>2. Late(c)[r] <= rows[r][c] - Base(r, c) /\ Base(r, c) \in Nat
          /\ rows[r][c] \in Nat /\ Late(c)[r] \in Int
      BY <1>2, <2>2
    <3> QED
      BY <3>1, <3>2 DEF Base
  <2>4. ASSUME NEW r \in A \ B
        PROVE  Late(c)[r] <= 0
    <3>1. SUFFICES ASSUME due[r][c] - forgiven[r][c] > 0
                   PROVE  FALSE
      BY <1>1, <1>2
    <3>2. r \in Rows /\ due[r][c] > 0 /\ Covered(r) /\ r \in crushDBPaths \X Ids
      BY <1>1, <1>2, <1>4, <3>1 DEF Visible
    <3>3. rows[r].at >= since
      BY <1>1, <1>4, <3>2 DEF Intact
    <3>4. TouchedSince(r, since)
      BY <1>1, <1>4, <3>2, <3>3, TouchedWhenCovered
    <3>5. rows[r][c] > 0
      BY <1>1, <1>2, <3>2 DEF Intact
    <3>6. Tokens(r) # Zero
      <4>1. Tokens(r)[c] = rows[r][c] /\ Zero[c] = 0
        BY DEF Tokens, Zero
      <4> QED
        BY <1>2, <3>2, <3>5, <4>1
    <3> QED
      BY <3>2, <3>4, <3>6 DEF readCrushSessions
  <2>5. Growth(c) \in [Rows -> Int] /\ \A r \in B \ A : 0 <= Growth(c)[r]
    BY <2>1
  <2>6. SumOver(Late(c), A) <= SumOver(Growth(c), B)
    <3>1. \A r \in A \cap B : Late(c)[r] <= Growth(c)[r]
      BY <1>1, <2>3
    <3> HIDE DEF A, B
    <3> QED
      BY <1>1, <1>3, <2>1, <2>4, <2>5, <3>1, RowsFinite, SumBelow
  <2> QED
    BY <2>1, <2>6
<1>5. CASE agent = "opencode"
  <2> DEFINE B == openCodeRows
  <2>1. B \in SUBSET Rows /\ Reading[c] = SumOver(Column(rows, c), B)
        /\ Column(rows, c) \in [Rows -> Nat]
    BY <1>1, <1>5, ReadTypes, TotalTokens, RowTypes DEF Reading
  <2>2. A \subseteq B
    <3> SUFFICES ASSUME NEW r \in A
                 PROVE  r \in B
      OBVIOUS
    <3>1. r \in Rows /\ rows[r].at > since
      BY <1>1, <1>5 DEF Covered
    <3>2. r[1] \notin hidden
      OBVIOUS
    <3>3. rows[r] # NoRow
      <4>1. NoRow.at = 0
        BY DEF NoRow
      <4> QED
        BY <1>1, <3>1, <4>1
    <3> QED
      BY <3>1, <3>2, <3>3 DEF openCodeRows
  <2>3. \A r \in A \cap B : Late(c)[r] <= Column(rows, c)[r]
    <3> SUFFICES ASSUME NEW r \in Rows
                 PROVE  Late(c)[r] <= Column(rows, c)[r]
      BY <1>1
    <3>1. due[r][c] <= rows[r][c] /\ Column(rows, c)[r] = rows[r][c]
      BY <1>1 DEF Intact, Column
    <3> QED
      BY <1>2, <3>1
  <2>4. Column(rows, c) \in [Rows -> Int] /\ \A r \in B \ A : 0 <= Column(rows, c)[r]
    BY <2>1
  <2>5. SumOver(Late(c), A) <= SumOver(Column(rows, c), B)
    <3>1. A \ B = {}
      BY <2>2
    <3> HIDE DEF A, B
    <3> QED
      BY <1>1, <1>3, <2>1, <2>3, <2>4, <3>1, RowsFinite, SumBelow
  <2> QED
    BY <2>1, <2>5
<1> QED
  BY <1>1, <1>4, <1>5

(***************************************************************************)
(* The steps                                                               *)
(***************************************************************************)
\* A write adds one to one counter of a row, and to what is due once attached.
LEMMA WriteAdds ==
  ASSUME TypeOK, NEW r \in Rows, NEW c \in Counters, NEW unit \in {"s", "ms"}, Write(r, c, unit)
  PROVE  /\ \A q \in Rows, d \in Counters :
              /\ rows'[q][d] = IF q = r /\ d = c THEN rows[q][d] + 1 ELSE rows[q][d]
              /\ due'[q][d] = IF Attached /\ q = r /\ d = c THEN due[q][d] + 1 ELSE due[q][d]
         /\ \A q \in Rows : q # r => rows'[q] = rows[q]
         /\ rows'[r].at = IF agent = "opencode" /\ rows[r] # NoRow THEN rows[r].at ELSE clock
         /\ rows' \in [Rows -> [output : Nat, input : Nat, at : Nat \cup {-1}, unit : {"s", "ms"}]]
         /\ due' \in [Rows -> [Counters -> Nat]]
<1>0. Counters = {"output", "input"}
  BY DEF Counters
<1>1. /\ rows[r] \in [output : Nat, input : Nat, at : Nat \cup {-1}, unit : {"s", "ms"}]
      /\ clock \in Nat /\ due \in [Rows -> [Counters -> Nat]]
      /\ rows \in [Rows -> [output : Nat, input : Nat, at : Nat \cup {-1}, unit : {"s", "ms"}]]
  <2>1. clock \in 0..MaxClock
    BY DEF TypeOK
  <2>2. clock \in Nat
    BY <2>1, SourceAssumption DEF SourceAssumption
  <2> QED
    BY <2>2 DEF TypeOK
<1>2. PICK new : new = [output |-> rows[r].output + IF c = "output" THEN 1 ELSE 0,
                        input |-> rows[r].input + IF c = "input" THEN 1 ELSE 0,
                        at |-> Stamp(r, unit).at, unit |-> Stamp(r, unit).unit]
  OBVIOUS
<1>3. rows' = [rows EXCEPT ![r] = new]
  BY <1>2 DEF Write
<1>4. /\ Stamp(r, unit).at = IF agent = "opencode" /\ rows[r] # NoRow THEN rows[r].at ELSE clock
      /\ Stamp(r, unit).unit \in {"s", "ms"}
      /\ Stamp(r, unit).at \in Nat \cup {-1}
  BY <1>1 DEF Stamp
<1>5. new \in [output : Nat, input : Nat, at : Nat \cup {-1}, unit : {"s", "ms"}]
  <2>1. (rows[r].output + IF c = "output" THEN 1 ELSE 0) \in Nat
        /\ (rows[r].input + IF c = "input" THEN 1 ELSE 0) \in Nat
    BY <1>1
  <2> QED
    BY <1>2, <1>4, <2>1
<1>6. rows'[r] = new /\ \A q \in Rows : q # r => rows'[q] = rows[q]
  BY <1>1, <1>3
<1>7. \A d \in Counters : new[d] = IF d = c THEN rows[r][d] + 1 ELSE rows[r][d]
  <2>1. new["output"] = IF c = "output" THEN rows[r].output + 1 ELSE rows[r].output
    BY <1>1, <1>2
  <2>2. new["input"] = IF c = "input" THEN rows[r].input + 1 ELSE rows[r].input
    BY <1>1, <1>2
  <2>3. rows[r].output = rows[r]["output"] /\ rows[r].input = rows[r]["input"]
    OBVIOUS
  <2> QED
    BY <1>0, <2>1, <2>2, <2>3
<1>8. /\ \A q \in Rows, d \in Counters :
           due'[q][d] = IF Attached /\ q = r /\ d = c THEN due[q][d] + 1 ELSE due[q][d]
      /\ due' \in [Rows -> [Counters -> Nat]]
  BY <1>1 DEF Write
<1>9. rows'[r].at = IF agent = "opencode" /\ rows[r] # NoRow THEN rows[r].at ELSE clock
  BY <1>2, <1>4, <1>6
<1>10. \A q \in Rows, d \in Counters :
         rows'[q][d] = IF q = r /\ d = c THEN rows[q][d] + 1 ELSE rows[q][d]
  BY <1>6, <1>7
<1>11. rows' \in [Rows -> [output : Nat, input : Nat, at : Nat \cup {-1}, unit : {"s", "ms"}]]
  BY <1>1, <1>3, <1>5
<1> QED
  BY <1>6, <1>8, <1>9, <1>10, <1>11

\* The agent writes: what it spends is due (Write).
LEMMA WriteKeeps ==
  ASSUME SourceInv, NEW r \in Rows, NEW c \in Counters, NEW unit \in {"s", "ms"}, Write(r, c, unit)
  PROVE  SourceInv'
<1>1. TypeOK /\ since <= clock /\ clock \in Int /\ since \in Int
  BY DEF SourceInv, TypeOK
<1>2. UNCHANGED <<agent, clock, hidden, since, sourceBase, hasSessionBase, sample,
                  forgiven, missed, faded>>
      /\ fresh' = FALSE /\ writes' = writes + 1 /\ writes < MaxWrites /\ rows[r].at >= 0
  BY DEF Write, watcher
<1>3. /\ \A q \in Rows, d \in Counters :
           /\ rows'[q][d] = IF q = r /\ d = c THEN rows[q][d] + 1 ELSE rows[q][d]
           /\ due'[q][d] = IF Attached /\ q = r /\ d = c THEN due[q][d] + 1 ELSE due[q][d]
      /\ \A q \in Rows : q # r => rows'[q] = rows[q]
      /\ rows'[r].at = IF agent = "opencode" /\ rows[r] # NoRow THEN rows[r].at ELSE clock
      /\ rows' \in [Rows -> [output : Nat, input : Nat, at : Nat \cup {-1}, unit : {"s", "ms"}]]
      /\ due' \in [Rows -> [Counters -> Nat]]
  BY <1>1, WriteAdds
<1>4. TypeOK'
  <2>1. writes' \in 0..MaxWrites
    <3>1. writes \in 0..MaxWrites /\ MaxWrites \in Nat
      BY <1>1, SourceAssumption DEF TypeOK, SourceAssumption
    <3> QED
      BY <1>2, <3>1
  <2>2. /\ agent' \in Agents /\ clock' \in 0..MaxClock /\ hidden' \subseteq Dbs
        /\ since' \in -1..MaxClock /\ hasSessionBase' \in BOOLEAN /\ faded' \in BOOLEAN
        /\ fresh' \in BOOLEAN /\ forgiven' \in [Rows -> [Counters -> Nat]]
        /\ sample' \in [Counters -> Nat] /\ missed' \in [Counters -> Nat]
    BY <1>1, <1>2 DEF TypeOK
  <2>3. DOMAIN sourceBase' \subseteq Rows /\ \A q \in DOMAIN sourceBase' : sourceBase'[q] \in [Counters -> Nat]
    BY <1>1, <1>2 DEF TypeOK
  <2> QED
    BY <1>3, <2>1, <2>2, <2>3 DEF TypeOK
<1>5. \A q \in Rows, d \in Counters : rows[q][d] \in Nat /\ due[q][d] \in Nat
  BY <1>1, RowTypes DEF TypeOK
<1>6. \A q \in Rows : rows[q].at <= clock /\ rows[q].at \in Int
  BY <1>1, RowTypes DEF SourceInv
<1>7. \A q \in Rows : rows'[q].at <= clock'
  BY <1>1, <1>2, <1>3, <1>6
<1>8. (Attached' <=> Attached) /\ (\A q, d : Base(q, d)' = Base(q, d))
  BY <1>2 DEF Attached, Base
<1>9. ~Attached' => ~hasSessionBase' /\ due' = None
  <2> SUFFICES ASSUME ~Attached
               PROVE  due' = None /\ ~hasSessionBase
    BY <1>2, <1>8
  <2>1. due = None /\ ~hasSessionBase
    BY DEF SourceInv
  <2>2. due' = due
    BY DEF Write
  <2> QED
    BY <2>1, <2>2
<1>10. hasSessionBase => Attached
  BY DEF SourceInv
<1>11. ASSUME hasSessionBase, NEW m, Accounts(m)
       PROVE  Accounts(m)'
  <2>1. ASSUME NEW q \in Rows, NEW d \in Counters
        PROVE  rows'[q][d] <= due'[q][d] + Base(q, d)' + m[q][d]
    <3>1. rows[q][d] <= due[q][d] + Base(q, d) + m[q][d] /\ m[q][d] \in Nat
      BY <1>11 DEF Accounts
    <3>2. Base(q, d) \in Nat
      BY <1>1 DEF Base, TypeOK
    <3> QED
      BY <1>3, <1>5, <1>8, <1>10, <1>11, <3>1, <3>2
  <2> QED
    BY <1>2, <1>11, <2>1 DEF Accounts, Column
<1>12. hasSessionBase' => agent' = "crush" /\ \E m : Accounts(m)'
  BY <1>2, <1>11 DEF SourceInv
<1>13. agent' = "opencode" /\ Attached' =>
         \A q \in Rows, d \in Counters : rows'[q].at > since' => rows'[q][d] <= due'[q][d]
  <2> SUFFICES ASSUME agent = "opencode", Attached, NEW q \in Rows, NEW d \in Counters,
                      rows'[q].at > since
               PROVE  rows'[q][d] <= due'[q][d]
    BY <1>2, <1>8
  <2>1. rows[q].at > since => rows[q][d] <= due[q][d]
    BY DEF SourceInv
  <2>2. rows[q] = NoRow => rows[q][d] = 0
    BY DEF NoRow, Counters
  <2> QED
    BY <1>3, <1>5, <2>1, <2>2
<1>14. ASSUME ~faded
       PROVE  Intact'
  <2>0. Intact
    BY <1>14 DEF SourceInv
  <2>1. \A q \in Rows, d \in Counters : due'[q][d] <= rows'[q][d]
    <3> SUFFICES ASSUME NEW q \in Rows, NEW d \in Counters
                 PROVE  due'[q][d] <= rows'[q][d]
      OBVIOUS
    <3>1. due[q][d] <= rows[q][d]
      BY <2>0 DEF Intact
    <3> QED
      BY <1>3, <1>5, <3>1
  <2>2. agent = "crush" => \A q \in Rows, d \in Counters : due'[q][d] > 0 => rows'[q].at >= since
    <3> SUFFICES ASSUME agent = "crush", NEW q \in Rows, NEW d \in Counters, due'[q][d] > 0
                 PROVE  rows'[q].at >= since
      OBVIOUS
    <3>1. due[q][d] > 0 => rows[q].at >= since
      BY <2>0 DEF Intact
    <3>2. CASE q = r
      BY <1>1, <1>3, <3>2
    <3>3. CASE q # r
      BY <1>3, <3>1, <3>3
    <3> QED
      BY <3>2, <3>3
  <2>3. ASSUME hasSessionBase, NEW q \in Rows, NEW d \in Counters
        PROVE  due'[q][d] - forgiven[q][d] <= rows'[q][d] - Base(q, d)
    <3>1. due[q][d] - forgiven[q][d] <= rows[q][d] - Base(q, d)
      BY <2>0, <2>3 DEF Intact
    <3>2. Base(q, d) \in Nat /\ forgiven[q][d] \in Nat
      BY <1>1 DEF Base, TypeOK
    <3> QED
      BY <1>3, <1>5, <1>10, <2>3, <3>1, <3>2
  <2> QED
    BY <1>2, <1>8, <2>1, <2>2, <2>3 DEF Intact
<1>15. ~hasSessionBase' => missed' = Zero /\ forgiven' = None
  BY <1>2 DEF SourceInv
<1>16. since' <= clock'
  BY <1>1, <1>2
<1> QED
  BY <1>2, <1>4, <1>7, <1>9, <1>12, <1>13, <1>14, <1>15, <1>16 DEF SourceInv

\* A deleted row is accounted for, and nothing is said of what it held (Delete).
LEMMA DeleteKeeps ==
  ASSUME SourceInv, NEW r \in Rows, Delete(r)
  PROVE  SourceInv'
<1>1. TypeOK /\ since <= clock /\ since \in Int /\ clock \in Int
  BY DEF SourceInv, TypeOK
<1>2. UNCHANGED <<agent, clock, writes, hidden, since, sourceBase, hasSessionBase, sample,
                  due, forgiven, missed>>
      /\ fresh' = FALSE /\ faded' = TRUE
  BY DEF Delete, watcher
<1>3. PICK gone : gone = [output |-> 0, input |-> 0, at |-> -1, unit |-> "ms"]
  OBVIOUS
<1>4. rows' = [rows EXCEPT ![r] = gone]
  <2>1. rows' = [rows EXCEPT ![r] = [NoRow EXCEPT !.at = -1]]
    BY DEF Delete
  <2>2. [NoRow EXCEPT !.at = -1] = gone
    <3>1. NoRow = [output |-> 0, input |-> 0, at |-> 0, unit |-> "ms"]
      BY DEF NoRow
    <3> QED
      BY <1>3, <3>1
  <2> QED
    BY <2>1, <2>2
<1>5. /\ rows \in [Rows -> [output : Nat, input : Nat, at : Nat \cup {-1}, unit : {"s", "ms"}]]
      /\ gone \in [output : Nat, input : Nat, at : Nat \cup {-1}, unit : {"s", "ms"}]
  BY <1>1, <1>3 DEF TypeOK
<1>6. rows'[r] = gone /\ (\A q \in Rows : q # r => rows'[q] = rows[q])
      /\ rows' \in [Rows -> [output : Nat, input : Nat, at : Nat \cup {-1}, unit : {"s", "ms"}]]
  BY <1>4, <1>5
<1>7. TypeOK'
  BY <1>1, <1>2, <1>6 DEF TypeOK
<1>8. (Attached' <=> Attached) /\ (\A q, d : Base(q, d)' = Base(q, d)) /\ (Attached => since >= 0)
  BY <1>2 DEF Attached, Base
<1>9. \A d \in Counters : gone[d] = 0
  BY <1>3 DEF Counters
<1>10. \A q \in Rows : rows'[q].at <= clock'
  <2>1. clock \in 0..MaxClock
    BY <1>1 DEF TypeOK
  <2>2. -1 <= clock
    BY <2>1, SourceAssumption DEF SourceAssumption
  <2> QED
    BY <1>2, <1>3, <1>6, <2>2 DEF SourceInv
<1>11. ASSUME NEW m, Accounts(m)
       PROVE  Accounts(m)'
  <2>1. ASSUME NEW q \in Rows, NEW d \in Counters
        PROVE  rows'[q][d] <= due'[q][d] + Base(q, d)' + m[q][d]
    <3>1. rows[q][d] <= due[q][d] + Base(q, d) + m[q][d] /\ m[q][d] \in Nat
      BY <1>11 DEF Accounts
    <3>2. Base(q, d) \in Nat /\ due[q][d] \in Nat
      BY <1>1 DEF Base, TypeOK
    <3> QED
      BY <1>2, <1>6, <1>8, <1>9, <3>1, <3>2
  <2> QED
    BY <1>2, <1>11, <2>1 DEF Accounts, Column
<1>12. hasSessionBase' => agent' = "crush" /\ \E m : Accounts(m)'
  BY <1>2, <1>11 DEF SourceInv
<1>13. agent' = "opencode" /\ Attached' =>
         \A q \in Rows, d \in Counters : rows'[q].at > since' => rows'[q][d] <= due'[q][d]
  <2> SUFFICES ASSUME agent = "opencode", Attached, NEW q \in Rows, NEW d \in Counters,
                      rows'[q].at > since
               PROVE  rows'[q][d] <= due[q][d]
    BY <1>2, <1>8
  <2>1. q # r
    BY <1>1, <1>3, <1>6, <1>8
  <2> QED
    BY <1>6, <2>1 DEF SourceInv
<1> QED
  BY <1>1, <1>2, <1>7, <1>8, <1>10, <1>12, <1>13 DEF SourceInv
\* What a snapshot does not see is missed, and with it every row is accounted for;
\* what it sees is what there is (readCrushSessions for the baseline).
LEMMA SnapshotAccounts ==
  ASSUME SourceInv, sourceBase' = BaseNow, missed' = Missed(DOMAIN Snapshot),
         rows' = rows, due' = due
  PROVE  /\ DOMAIN sourceBase' \subseteq Rows
         /\ \A r \in DOMAIN sourceBase' : sourceBase'[r] \in [Counters -> Nat]
         /\ missed' \in [Counters -> Nat]
         /\ (\E m : Accounts(m))'
         /\ \A r \in Rows, c \in Counters : Base(r, c)' \in Nat /\ Base(r, c)' <= rows[r][c]
<1>1. /\ TypeOK /\ rows \in [Rows -> [output : Nat, input : Nat, at : Nat \cup {-1}, unit : {"s", "ms"}]]
      /\ due \in [Rows -> [Counters -> Nat]]
  BY DEF SourceInv, TypeOK
<1>2. PICK seen : seen = DOMAIN Snapshot
  OBVIOUS
<1>3. /\ seen \in SUBSET Rows /\ \A r \in seen : Snapshot[r] \in [Counters -> Nat]
      /\ \A r \in seen, c \in Counters : Snapshot[r][c] = rows[r][c]
  BY <1>1, <1>2, ReadTypes
<1>4. sourceBase' = Snapshot
  BY DEF BaseNow
<1>5. DOMAIN sourceBase' = seen
  BY <1>2, <1>4
<1>6. PICK m : m = [r \in Rows |-> [c \in Counters |-> IF r \in seen THEN 0 ELSE rows[r][c]]]
  OBVIOUS
<1>7. \A r \in Rows, c \in Counters : rows[r][c] \in Nat
  BY <1>1, RowTypes
<1>8. /\ m \in [Rows -> [Counters -> Nat]]
      /\ \A r \in Rows, c \in Counters : m[r][c] = IF r \in seen THEN 0 ELSE rows[r][c]
  BY <1>6, <1>7
<1>9. PICK rest : rest = {r \in Rows : r \notin seen}
  OBVIOUS
<1>10. missed' = Total(Tokens, rest)
  BY <1>2, <1>9 DEF Missed
<1>11. rest \in SUBSET Rows
  BY <1>9
<1>12. missed' \in [Counters -> Nat]
  BY <1>1, <1>10, <1>11, ReadingType
<1>13. ASSUME NEW c \in Counters
       PROVE  SumOver(Column(m, c), Rows) <= missed'[c]
  <2>1. missed'[c] = SumOver(Column(rows, c), rest)
    BY <1>10, <1>11, TotalTokens
  <2>2. Column(m, c) \in [Rows -> Int] /\ \A r \in Rows : Column(m, c)[r] = m[r][c]
    BY <1>8, ColumnTypes
  <2>3. Column(rows, c) \in [Rows -> Int] /\ \A r \in Rows : Column(rows, c)[r] = rows[r][c]
    BY <1>7 DEF Column
  <2>4. \A r \in Rows \cap rest : Column(m, c)[r] <= Column(rows, c)[r]
    BY <1>7, <1>8, <1>9, <2>2, <2>3
  <2>5. \A r \in Rows \ rest : Column(m, c)[r] <= 0
    BY <1>8, <1>9, <2>2
  <2>6. \A r \in rest \ Rows : 0 <= Column(rows, c)[r]
    BY <1>11
  <2>7. PICK g : g = Column(m, c)
    OBVIOUS
  <2>8. PICK h : h = Column(rows, c)
    OBVIOUS
  <2>9. SumOver(g, Rows) <= SumOver(h, rest)
    BY <1>11, <2>2, <2>3, <2>4, <2>5, <2>6, <2>7, <2>8, SumBelow, RowsFinite
  <2> QED
    BY <2>1, <2>7, <2>8, <2>9
<1>14. \A r, c : Base(r, c)' = IF r \in seen THEN Snapshot[r][c] ELSE 0
  BY <1>4, <1>5 DEF Base
<1>15. \A r \in Rows, c \in Counters : Base(r, c)' \in Nat /\ Base(r, c)' <= rows[r][c]
  BY <1>3, <1>7, <1>14
<1>16. ASSUME NEW r \in Rows, NEW c \in Counters
       PROVE  rows'[r][c] <= due'[r][c] + Base(r, c)' + m[r][c]
  <2>1. rows[r][c] \in Nat /\ due[r][c] \in Nat
    BY <1>1, <1>7
  <2> QED
    BY <1>3, <1>8, <1>14, <2>1
<1>17. (\E n : Accounts(n))'
  BY <1>8, <1>13, <1>16 DEF Accounts, Column
<1> QED
  BY <1>3, <1>4, <1>5, <1>12, <1>15, <1>17

\* The attach owes nothing yet, with its baseline or without (attach).
LEMMA AttachKeeps ==
  ASSUME SourceInv, Attach
  PROVE  SourceInv'
<1>1. TypeOK /\ since <= clock /\ ~Attached /\ ~hasSessionBase /\ due = None
  BY DEF SourceInv, Attach
<1>2. missed = Zero /\ forgiven = None
  BY <1>1 DEF SourceInv
<1>3. /\ agent' = agent /\ clock' = clock /\ writes' = writes /\ rows' = rows /\ hidden' = hidden
      /\ since' = clock /\ sample' = sample /\ due' = due /\ forgiven' = forgiven
      /\ faded' = faded /\ fresh' = FALSE
  BY DEF Attach, store
<1>4. clock \in 0..MaxClock /\ MaxClock \in Nat
  BY <1>1, SourceAssumption DEF TypeOK, SourceAssumption
<1>5. Attached'
  BY <1>3, <1>4 DEF Attached
<1>6. \A r \in Rows : rows[r].at <= clock
  BY DEF SourceInv
<1>7. \A r \in Rows, c \in Counters : rows[r][c] \in Nat /\ rows[r].at \in Int
  BY <1>1, RowTypes
<1>8. \A r \in Rows, c \in Counters : due[r][c] = 0 /\ forgiven[r][c] = 0
  BY <1>1, <1>2 DEF None, Zero
<1>9. agent' = "opencode" /\ Attached' =>
         \A r \in Rows, c \in Counters : rows'[r].at > since' => rows'[r][c] <= due'[r][c]
  BY <1>3, <1>4, <1>6, <1>7
<1>10. /\ \A r \in Rows, c \in Counters : due'[r][c] <= rows'[r][c]
       /\ agent' = "crush" => \A r \in Rows, c \in Counters : due'[r][c] > 0 => rows'[r].at >= since'
  BY <1>3, <1>7, <1>8
<1>11. /\ agent' \in Agents /\ clock' \in 0..MaxClock /\ writes' \in 0..MaxWrites
       /\ rows' \in [Rows -> [output : Nat, input : Nat, at : Nat \cup {-1}, unit : {"s", "ms"}]]
       /\ hidden' \subseteq Dbs /\ since' \in -1..MaxClock
       /\ faded' \in BOOLEAN /\ fresh' \in BOOLEAN
       /\ due' \in [Rows -> [Counters -> Nat]] /\ forgiven' \in [Rows -> [Counters -> Nat]]
       /\ sample' \in [Counters -> Nat]
  <2>1. since' \in -1..MaxClock
    BY <1>3, <1>4
  <2> QED
    BY <1>1, <1>3, <2>1 DEF TypeOK
<1>12. since' <= clock' /\ \A r \in Rows : rows'[r].at <= clock'
  BY <1>3, <1>4, <1>6
<1>13. CASE agent = "crush" /\ hasSessionBase' = TRUE /\ sourceBase' = BaseNow
            /\ missed' = Missed(DOMAIN Snapshot)
  <2>1. /\ DOMAIN sourceBase' \subseteq Rows
        /\ \A r \in DOMAIN sourceBase' : sourceBase'[r] \in [Counters -> Nat]
        /\ missed' \in [Counters -> Nat] /\ (\E m : Accounts(m))'
        /\ \A r \in Rows, c \in Counters : Base(r, c)' \in Nat /\ Base(r, c)' <= rows[r][c]
    BY <1>3, <1>13, SnapshotAccounts
  <2>2. \A r \in Rows, c \in Counters : due'[r][c] - forgiven'[r][c] <= rows'[r][c] - Base(r, c)'
    BY <1>3, <1>7, <1>8, <2>1
  <2>3. Intact'
    BY <1>10, <2>2 DEF Intact
  <2>4. TypeOK'
    BY <1>11, <1>13, <2>1 DEF TypeOK
  <2> QED
    BY <1>3, <1>5, <1>9, <1>12, <1>13, <2>1, <2>3, <2>4 DEF SourceInv
<1>14. CASE UNCHANGED <<hasSessionBase, sourceBase, missed>>
  <2>1. hasSessionBase' = FALSE /\ missed' = missed /\ sourceBase' = sourceBase
    BY <1>1, <1>14 DEF TypeOK
  <2>2. Intact'
    BY <1>10, <2>1 DEF Intact
  <2>3. TypeOK'
    BY <1>1, <1>11, <2>1 DEF TypeOK
  <2> QED
    BY <1>2, <1>3, <1>5, <1>9, <1>12, <2>1, <2>2, <2>3 DEF SourceInv
<1> QED
  BY <1>13, <1>14 DEF Attach

\* A late baseline forgives what was written before it (readSessionSource).
LEMMA LateBaseKeeps ==
  ASSUME SourceInv, LateBase
  PROVE  SourceInv'
<1>1. TypeOK /\ since <= clock /\ Attached /\ ~hasSessionBase /\ agent = "crush"
  BY DEF SourceInv, LateBase
<1>2. /\ agent' = agent /\ clock' = clock /\ writes' = writes /\ rows' = rows /\ hidden' = hidden
      /\ since' = since /\ sample' = sample /\ due' = due /\ forgiven' = due
      /\ faded' = faded /\ fresh' = FALSE /\ hasSessionBase' = TRUE
  BY DEF LateBase, store
<1>3. /\ DOMAIN sourceBase' \subseteq Rows
      /\ \A r \in DOMAIN sourceBase' : sourceBase'[r] \in [Counters -> Nat]
      /\ missed' \in [Counters -> Nat] /\ (\E m : Accounts(m))'
      /\ \A r \in Rows, c \in Counters : Base(r, c)' \in Nat /\ Base(r, c)' <= rows[r][c]
  BY <1>2, SnapshotAccounts DEF LateBase
<1>4. TypeOK'
  BY <1>1, <1>2, <1>3 DEF TypeOK
<1>5. \A r \in Rows, c \in Counters : rows[r][c] \in Nat /\ due[r][c] \in Nat
  BY <1>1, RowTypes DEF TypeOK
<1>6. Attached'
  BY <1>1, <1>2 DEF Attached
<1>7. ASSUME ~faded
      PROVE  Intact'
  <2>1. Intact
    BY <1>7 DEF SourceInv
  <2>2. \A r \in Rows, c \in Counters : due'[r][c] - forgiven'[r][c] <= rows'[r][c] - Base(r, c)'
    BY <1>2, <1>3, <1>5
  <2> QED
    BY <1>2, <2>1, <2>2 DEF Intact
<1>8. \A r \in Rows : rows'[r].at <= clock'
  BY <1>2 DEF SourceInv
<1> QED
  BY <1>1, <1>2, <1>3, <1>4, <1>6, <1>7, <1>8 DEF SourceInv

\* Whatever else happens leaves the databases, the baseline and the history alone.
LEMMA OthersKeep ==
  ASSUME SourceInv, TypeOK', clock <= clock',
         UNCHANGED <<agent, rows, since, sourceBase, hasSessionBase, due, forgiven, missed, faded>>
  PROVE  SourceInv'
<1>1. TypeOK /\ clock \in Int /\ clock' \in Int /\ since \in Int
  BY DEF SourceInv, TypeOK
<1>2. since' <= clock'
  BY <1>1 DEF SourceInv
<1>3. \A r \in Rows : rows'[r].at <= clock'
  <2> SUFFICES ASSUME NEW r \in Rows
               PROVE  rows[r].at <= clock'
    OBVIOUS
  <2>1. rows[r].at <= clock /\ rows[r].at \in Int
    BY <1>1, RowTypes DEF SourceInv
  <2> QED
    BY <1>1, <2>1
<1>4. (Attached' <=> Attached) /\ (Intact' <=> Intact)
  BY DEF Attached, Intact, Base
<1>5. \A m : Accounts(m) => Accounts(m)'
  BY DEF Accounts, Base, Column
<1> QED
  BY <1>2, <1>3, <1>4, <1>5 DEF SourceInv

\* A poll changes the sample alone (readSource, readSessionSource).
LEMMA PollKeeps ==
  ASSUME SourceInv, Poll
  PROVE  SourceInv'
<1>1. TypeOK /\ clock \in Int
  BY DEF SourceInv, TypeOK
<1>2. /\ UNCHANGED <<agent, clock, writes, rows, hidden>>
      /\ UNCHANGED <<since, sourceBase, hasSessionBase, due, forgiven, missed, faded>>
      /\ fresh' = TRUE /\ sample' = IF grew THEN Reading ELSE sample
  BY DEF Poll, store
<1>3. sample' \in [Counters -> Nat]
  BY <1>1, <1>2, ReadingType DEF TypeOK
<1>4. TypeOK'
  BY <1>1, <1>2, <1>3 DEF TypeOK
<1> QED
  BY <1>1, <1>2, <1>4, OthersKeep

\* Neither a hidden database nor time changes what is accounted for.
LEMMA HideKeeps ==
  ASSUME SourceInv, (\E d \in Dbs : Hide(d)) \/ Tick
  PROVE  SourceInv'
<1>1. TypeOK /\ clock \in 0..MaxClock /\ MaxClock \in Nat
  BY SourceAssumption DEF SourceInv, TypeOK, SourceAssumption
<1>2. /\ UNCHANGED <<agent, writes, rows, since, sourceBase, hasSessionBase, sample>>
      /\ UNCHANGED <<due, forgiven, missed, faded>> /\ fresh' = FALSE
  BY DEF Hide, Tick, watcher
<1>3. hidden' \subseteq Dbs
  BY <1>1 DEF Hide, Tick, TypeOK
<1>4. clock' \in 0..MaxClock /\ clock <= clock'
  BY <1>1 DEF Hide, Tick
<1>5. TypeOK'
  BY <1>1, <1>2, <1>3, <1>4 DEF TypeOK
<1> QED
  BY <1>2, <1>4, <1>5, OthersKeep

\* Nothing was spent, and nothing is known, at the start.
LEMMA SourceInit ==
  ASSUME Init
  PROVE  SourceInv
<1>1. MaxClock \in Nat /\ MaxWrites \in Nat
  BY SourceAssumption DEF SourceAssumption
<1>2. NoRow \in [output : Nat, input : Nat, at : Nat \cup {-1}, unit : {"s", "ms"}] /\ NoRow.at = 0
      /\ \A c \in Counters : NoRow[c] = 0
  BY DEF NoRow, Counters
<1>3. None \in [Rows -> [Counters -> Nat]] /\ Zero \in [Counters -> Nat]
      /\ \A r \in Rows, c \in Counters : None[r][c] = 0
  BY DEF None, Zero
<1>4. due = None /\ forgiven = None /\ missed = Zero /\ sample = Zero
      /\ rows \in [Rows -> [output : Nat, input : Nat, at : Nat \cup {-1}, unit : {"s", "ms"}]]
      /\ \A r \in Rows : rows[r] = NoRow
  BY <1>2 DEF Init, None
<1>5. clock = 0 /\ writes = 0 /\ since = -1 /\ hidden = {} /\ DOMAIN sourceBase = {} /\ agent \in Agents
      /\ hasSessionBase = FALSE /\ faded = FALSE /\ fresh = FALSE
  BY DEF Init
<1>6. TypeOK
  <2>1. clock \in 0..MaxClock /\ writes \in 0..MaxWrites /\ since \in -1..MaxClock
    BY <1>1, <1>5
  <2> QED
    BY <1>3, <1>4, <1>5, <2>1 DEF TypeOK
<1>7. ~Attached
  BY <1>5 DEF Attached
<1>8. Intact
  <2>1. \A r \in Rows, c \in Counters : due[r][c] = 0 /\ rows[r][c] = 0
    BY <1>2, <1>3, <1>4
  <2> QED
    BY <1>5, <2>1 DEF Intact
<1>9. since <= clock /\ \A r \in Rows : rows[r].at <= clock
  BY <1>2, <1>4, <1>5
<1> QED
  BY <1>4, <1>5, <1>6, <1>7, <1>8, <1>9 DEF SourceInv

\* Every step keeps the accounts.
LEMMA SourceNext ==
  ASSUME SourceInv, [Next]_vars
  PROVE  SourceInv'
<1>1. CASE Next
  BY <1>1, WriteKeeps, DeleteKeeps, HideKeeps, AttachKeeps, LateBaseKeeps, PollKeeps DEF Next
<1>2. CASE UNCHANGED vars
  <2>1. TypeOK' /\ clock \in Int /\ clock' = clock
    BY <1>2 DEF SourceInv, TypeOK, vars, store, watcher, history
  <2> QED
    BY <1>2, <2>1, OthersKeep DEF vars, store, watcher, history
<1> QED
  BY <1>1, <1>2

\* The rows, the baseline and what was written since the attach account for each other
\* at all times, in types too: whatever a counter of a row holds was written since, was
\* in the baseline, or is counted as missed; and as long as no row was deleted, what was
\* written since is there to be read (attach, readSource, readSessionSource).
THEOREM SourceInvariant == Spec => []SourceInv
<1>1. Init => SourceInv
  BY SourceInit
<1>2. SourceInv /\ [Next]_vars => SourceInv'
  BY SourceNext
<1> QED
  BY <1>1, <1>2, PTL DEF Spec

(***************************************************************************)
(* A reading is complete                                                   *)
(***************************************************************************)
Shown ==
  fresh /\ hidden = {} /\ ~faded =>
    \A c \in Counters : SumOver(Late(c), {r \in Visible : Covered(r)}) <= sample[c]

\* A poll leaves no less in the sample than what it read; any other step makes the
\* sample old (readSource, readSessionSource).
LEMMA ShownNext ==
  ASSUME SourceInv, Shown, [Next]_vars
  PROVE  Shown'
<1>1. ASSUME fresh' = FALSE
      PROVE  Shown'
  BY <1>1 DEF Shown
<1>2. ASSUME Poll
      PROVE  Shown'
  <2>1. UNCHANGED <<agent, rows, hidden, since, due, forgiven, faded>>
        /\ sample' = IF grew THEN Reading ELSE sample
    BY <1>2 DEF Poll, store
  <2>2. \A c : (SumOver(Late(c), {r \in Visible : Covered(r)}))'
               = SumOver(Late(c), {r \in Visible : Covered(r)})
    BY <2>1 DEF Late, Visible, Covered, crushDBPaths, crushDBPath, crushDBIn
  <2>3. \A c \in Counters : Reading[c] \in Nat /\ sample[c] \in Nat
    BY ReadingType DEF SourceInv, TypeOK
  <2>4. \A c \in Counters : Reading[c] <= sample'[c]
    BY <2>1, <2>3 DEF grew
  <2> SUFFICES ASSUME hidden = {}, ~faded, NEW c \in Counters
               PROVE  SumOver(Late(c), {r \in Visible : Covered(r)}) <= sample'[c]
    BY <2>1, <2>2 DEF Shown
  <2>5. SumOver(Late(c), {r \in Visible : Covered(r)}) <= Reading[c]
    BY <1>2, ReadingCovers DEF Poll
  <2>6. SumOver(Late(c), {r \in Visible : Covered(r)}) \in Int
    <3>1. due \in [Rows -> [Counters -> Nat]] /\ forgiven \in [Rows -> [Counters -> Nat]]
      BY DEF SourceInv, TypeOK
    <3>2. Late(c) \in [Rows -> Int]
      <4>1. \A r \in Rows : due[r][c] \in Nat /\ forgiven[r][c] \in Nat
        BY <3>1
      <4> QED
        BY <4>1 DEF Late
    <3>3. {r \in Visible : Covered(r)} \in SUBSET Rows
      BY ReadTypes DEF SourceInv
    <3> QED
      BY <3>2, <3>3, SumType, RowsFinite
  <2>7. sample'[c] \in Nat
    BY <2>1, <2>3
  <2> QED
    BY <2>3, <2>4, <2>5, <2>6, <2>7
<1>3. CASE Next
  BY <1>1, <1>2, <1>3 DEF Next, Delete, Write, Hide, Tick, Attach, LateBase
<1>4. CASE UNCHANGED vars
  <2>1. UNCHANGED <<agent, rows, hidden, since, due, forgiven, faded, fresh, sample>>
    BY <1>4 DEF vars, store, watcher, history
  <2>2. \A c : (SumOver(Late(c), {r \in Visible : Covered(r)}))'
               = SumOver(Late(c), {r \in Visible : Covered(r)})
    BY <2>1 DEF Late, Visible, Covered, crushDBPaths, crushDBPath, crushDBIn
  <2> QED
    BY <2>1, <2>2 DEF Shown
<1> QED
  BY <1>3, <1>4

\* A reading that found every database shows all that was written since the baseline to
\* the rows it covers, for any number of databases, sessions and writes (readSource,
\* readSessionSource, usageQuery).
THEOREM ReadingsComplete == Spec => []ReadingComplete
<1>1. Init => SourceInv /\ Shown
  BY SourceInit DEF Init, Shown
<1>2. SourceInv /\ Shown /\ [Next]_vars => (SourceInv /\ Shown)'
  BY SourceNext, ShownNext
<1>3. SourceInv /\ Shown => ReadingComplete
  <2> SUFFICES ASSUME SourceInv, Shown, fresh, hidden = {}, ~faded
               PROVE  Owed({r \in Visible : Covered(r)})
    BY DEF ReadingComplete, SourceInv
  <2>1. {r \in Visible : Covered(r)} \in SUBSET Rows
    BY ReadTypes DEF SourceInv
  <2>2. PICK S \in SUBSET Rows : S = {r \in Visible : Covered(r)}
    BY <2>1
  <2>3. ASSUME NEW c \in Counters
        PROVE  sample[c] >= SumOver(Late(c), S)
    <3>1. SumOver(Late(c), S) <= sample[c]
      BY <2>2 DEF Shown
    <3> QED
      BY <3>1
  <2> QED
    BY <2>2, <2>3, OwedSum
<1> QED
  BY <1>1, <1>2, <1>3, PTL DEF Spec

(***************************************************************************)
(* The sources are meters                                                  *)
(***************************************************************************)
\* What was spent, added up, is a number.
LEMMA SpentType ==
  ASSUME TypeOK
  PROVE  \A c \in Counters : Spent[c] \in Nat /\ missed[c] \in Nat
<1> SUFFICES ASSUME NEW c \in Counters
             PROVE  Spent[c] \in Nat /\ missed[c] \in Nat
  OBVIOUS
<1>1. Column(due, c) \in [Rows -> Nat]
  BY ColumnTypes DEF TypeOK
<1>2. SumOver(Column(due, c), Rows) \in Nat
  BY <1>1, SumNat
<1> QED
  BY <1>2, TotalSpent DEF TypeOK

\* Nothing is spent at the start.
LEMMA NothingSpent ==
  ASSUME TypeOK, due = None, NEW c \in Counters
  PROVE  Spent[c] = 0
<1>1. PICK g : g = Column(due, c)
  OBVIOUS
<1>2. g \in [Rows -> Int] /\ \A r \in Rows : g[r] <= 0
  BY <1>1 DEF Column, None, Zero
<1>3. SumOver(g, Rows) <= SumOver(g, {})
  BY <1>2, RowsFinite, SumBelow
<1>4. SumOver(g, {}) = 0
  BY SumStep, FS_EmptySet
<1>5. Spent[c] = SumOver(g, Rows)
  BY <1>1, TotalSpent
<1>6. Spent[c] \in Nat
  BY SpentType
<1> QED
  BY <1>3, <1>4, <1>5, <1>6

\* Only growth is ever added to what is due, or missed (Write, Attach, LateBase).
LEMMA DueGrows ==
  ASSUME TypeOK, TypeOK', NEW c \in Counters,
         \A r \in Rows : due[r][c] <= due'[r][c], missed[c] <= missed'[c]
  PROVE  Plus(Spent, missed)'[c] >= Plus(Spent, missed)[c]
<1>1. PICK g : g = Column(due, c)
  OBVIOUS
<1>2. PICK h : h = Column(due', c)
  OBVIOUS
<1>3. due \in [Rows -> [Counters -> Nat]] /\ due' \in [Rows -> [Counters -> Nat]]
      /\ missed[c] \in Nat /\ missed'[c] \in Nat
  BY DEF TypeOK
<1>4. g \in [Rows -> Nat] /\ h \in [Rows -> Nat]
      /\ \A r \in Rows : g[r] = due[r][c] /\ h[r] = due'[r][c]
  BY <1>1, <1>2, <1>3, ColumnTypes
<1>5. \A r \in Rows : g[r] <= h[r]
  BY <1>4
<1>6. g \in [Rows -> Int] /\ h \in [Rows -> Int]
  BY <1>4
<1>7. SumOver(g, Rows) <= SumOver(h, Rows)
  BY <1>5, <1>6, RowsFinite, SumBelow
<1>8. SumOver(g, Rows) \in Nat /\ SumOver(h, Rows) \in Nat
  BY <1>4, SumNat
<1>9. Spent[c] = SumOver(g, Rows) /\ Spent'[c] = SumOver(h, Rows)
  BY <1>1, <1>2, TotalSpent
<1>10. Plus(Spent, missed)[c] = Spent[c] + missed[c]
       /\ Plus(Spent, missed)'[c] = Spent'[c] + missed'[c]
  BY DEF Plus
<1> QED
  BY <1>3, <1>7, <1>8, <1>9, <1>10

\* Nothing is due and nothing is shown at the start.
LEMMA MeterStarts ==
  ASSUME Init
  PROVE  Meter!MeterInit
<1>1. TypeOK /\ due = None
  BY SourceInit DEF Init, SourceInv, None
<1>2. missed = Zero /\ sample = Zero
  BY DEF Init
<1>3. \A c \in Counters : Spent[c] = 0 /\ missed[c] = 0
  BY <1>1, <1>2, NothingSpent DEF Zero
<1>4. Plus(Spent, missed) = [c \in Counters |-> 0]
  BY <1>3 DEF Plus
<1> QED
  BY <1>2, <1>4 DEF Meter!MeterInit, Zero

\* Each step is the meter's: more is due, more is shown of what is due, or neither
\* changes.
LEMMA MeterSteps ==
  ASSUME SourceInv, SourceInv', [Next]_vars
  PROVE  [Meter!Due \/ Meter!Show]_<<Plus(Spent, missed), sample>>
<1>1. TypeOK /\ TypeOK'
  BY DEF SourceInv
<1>2. ASSUME sample' = sample, \A r \in Rows, c \in Counters : due[r][c] <= due'[r][c],
             \A c \in Counters : missed[c] <= missed'[c]
      PROVE  Meter!Due
  BY <1>1, <1>2, DueGrows DEF Meter!Due
<1>3. \A r \in Rows, c \in Counters : due[r][c] \in Nat
  BY <1>1 DEF TypeOK
<1>4. \A c \in Counters : missed[c] \in Nat /\ missed'[c] \in Nat
  BY <1>1 DEF TypeOK
<1>5. ASSUME NEW r \in Rows, NEW c \in Counters, NEW unit \in {"s", "ms"}, Write(r, c, unit)
      PROVE  Meter!Due
  <2>1. \A q \in Rows, d \in Counters : due[q][d] <= due'[q][d]
    BY <1>1, <1>3, <1>5, WriteAdds
  <2>2. sample' = sample /\ missed' = missed
    BY <1>5 DEF Write, watcher
  <2> QED
    BY <1>2, <1>4, <2>1, <2>2
<1>6. ASSUME Attach \/ LateBase
      PROVE  Meter!Due
  <2>1. ~hasSessionBase
    BY <1>6 DEF SourceInv, Attach, LateBase
  <2>2. \A c \in Counters : missed[c] = 0
    BY <2>1 DEF SourceInv, Zero
  <2>3. sample' = sample /\ due' = due
    BY <1>6 DEF Attach, LateBase
  <2> QED
    BY <1>2, <1>3, <1>4, <2>2, <2>3
<1>7. ASSUME UNCHANGED <<due, missed>>
      PROVE  Plus(Spent, missed)' = Plus(Spent, missed)
  <2>1. \A c \in Counters : Spent'[c] = Spent[c]
    BY <1>7, TotalSpent DEF Column
  <2>2. \A c \in Counters : Spent'[c] + missed'[c] = Spent[c] + missed[c]
    BY <1>7, <2>1
  <2> QED
    BY <2>2 DEF Plus
<1>8. ASSUME UNCHANGED <<due, missed, sample>>
      PROVE  UNCHANGED <<Plus(Spent, missed), sample>>
  BY <1>7, <1>8
<1>9. ASSUME Poll
      PROVE  Meter!Show \/ UNCHANGED <<Plus(Spent, missed), sample>>
  <2>1. UNCHANGED <<due, missed>> /\ sample' = IF grew THEN Reading ELSE sample
    BY <1>9 DEF Poll
  <2>2. CASE ~grew
    BY <1>7, <2>1, <2>2
  <2>3. CASE grew
    <3>1. ASSUME NEW c \in Counters
          PROVE  sample'[c] <= Plus(Spent, missed)[c]
      <4>1. Reading[c] <= Spent[c] + missed[c]
        BY <1>9, ReadingBound DEF Poll
      <4>2. Plus(Spent, missed)[c] = Spent[c] + missed[c]
        BY DEF Plus
      <4> QED
        BY <2>1, <2>3, <4>1, <4>2
    <3>2. \E c \in Counters : sample'[c] > sample[c]
      BY <2>1, <2>3 DEF grew
    <3> QED
      BY <1>7, <2>1, <3>1, <3>2 DEF Meter!Show
  <2> QED
    BY <2>2, <2>3
<1>10. ASSUME (\E r \in Rows : Delete(r)) \/ (\E d \in Dbs : Hide(d)) \/ Tick \/ UNCHANGED vars
       PROVE  UNCHANGED <<due, missed, sample>>
  BY <1>10 DEF Delete, Hide, Tick, vars, store, watcher, history
<1>11. CASE Next
  BY <1>5, <1>6, <1>8, <1>9, <1>10, <1>11 DEF Next
<1>12. CASE UNCHANGED vars
  BY <1>8, <1>10, <1>12
<1> QED
  BY <1>11, <1>12

\* A watcher of databases is a meter: it never shows more than was spent since the
\* attach and what the snapshot could not see, what it shows changes only by growing in
\* a counter, and what is due never shrinks, whatever becomes of the databases
\* (readSource, readSessionSource).
THEOREM SourceIsMeter == Spec => ImplementsMeter
<1>1. Init => SourceInv /\ Meter!MeterInit
  BY SourceInit, MeterStarts
<1>2. SourceInv /\ [Next]_vars => SourceInv'
  BY SourceNext
<1>3. SourceInv /\ SourceInv' /\ [Next]_vars
        => [Meter!Due \/ Meter!Show]_<<Plus(Spent, missed), sample>>
  BY MeterSteps
<1> QED
  BY <1>1, <1>2, <1>3, PTL DEF Spec, ImplementsMeter, Meter!MeterSpec

=============================================================================

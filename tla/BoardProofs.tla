------------------------------ MODULE BoardProofs ------------------------------
(***************************************************************************)
(* `squabble board`, for any owners, repositories, page and batch sizes    *)
(* and any number of changes and failures: nothing that stays open is      *)
(* dropped, and what the board says it has read.  The invariant follows a  *)
(* repository from the listing over the batches to the board: the pages    *)
(* leave no gap before the cursor, and the batches and the reads together  *)
(* are the positions of the list, in order.                                *)
(***************************************************************************)
EXTENDS Board, FiniteSetTheorems, SequenceTheorems, WellFoundedInduction, TLAPS

-----------------------------------------------------------------------------
(***************************************************************************)
(* The invariant.                                                          *)
(***************************************************************************)
IsSeq(s) == \E S : s \in Seq(S)

BoardType ==
  /\ pc \in {"idle", "listing", "reading", "built", "publishing"}
  /\ repos \subseteq Repo
  /\ prs \in [Repo -> OpenPrs] /\ \A r \in Repo : IsFiniteSet(DOMAIN prs[r])
  /\ owner \in DOMAIN Owned /\ cursor \in Nat /\ withPrs \in Seq(Repo)
  /\ faults \in Nat /\ queries \in Nat
  /\ pc # "idle" => exit = "none"
  /\ pc # "reading" => queries = 0
  /\ quiet \in BOOLEAN

\* The pull requests that were open all along are open now, and while nothing
\* changes they are all there are.
SteadyAreOpen == steady \subseteq Open /\ (quiet => steady = Open)

\* Repositories that the listing has passed by: those of the owners before, and
\* those of this owner up to the cursor.
Passed(r) ==
  \/ pc = "reading"
  \/ \E o \in DOMAIN Owned : o < owner /\ r \in Owned[o]
  \/ r \in Owned[owner] /\ r <= cursor

Listed(r) == \E i \in DOMAIN withPrs : withPrs[i] = r

\* The pages leave nothing steady out, and nothing is listed while it is quiet
\* but what is there.
ListingInv ==
  pc \in {"listing", "reading"} =>
    /\ \A d \in steady : Passed(d[1]) => Listed(d[1])
    /\ quiet => \A i \in DOMAIN withPrs : withPrs[i] \in repos
    /\ pc = "listing" => reads = <<>>

\* The batches `w` are those of the positions done + 1 to n, in order: none is
\* empty, and each leaves a position at least to each batch behind it.
OneBatch == [first : Nat \ {0}, last : Nat, retries : {0, 1}]
Batches  == Seq(OneBatch)

InOrder(w, done, n) ==
  /\ w \in Batches
  /\ w # <<>> => w[1].first = done + 1 /\ w[Len(w)].last = n
  /\ w = <<>> => done = n
  /\ \A i \in 1..Len(w) :
       /\ w[i].first <= w[i].last /\ w[i].last <= n
       /\ Len(w) - i <= n - w[i].last
       /\ w[i].retries = 0 => i = 1 /\ w[i].first = w[i].last
       /\ i < Len(w) => w[i + 1].first = w[i].last + 1

Retried == IF work # <<>> /\ work[1].retries = 0 THEN 1 ELSE 0

WorkInv ==
  pc = "reading" =>
    /\ IsSeq(reads)
    /\ InOrder(work, Len(reads), Len(withPrs))
    /\ queries <= 3 * Len(reads) + Len(work) + Retried
    /\ Retried = 1 => withPrs[work[1].first] \in Heavy \/ faults >= 1

\* What a position gave is worth the pull requests that were open all along, and
\* while nothing changes it is what is there.
Now == [steady |-> steady, quiet |-> quiet, gates |-> gates, prs |-> prs, faults |-> faults]

Holds(r, read, now) ==
  /\ read.kind \in {"read", "unavailable"}
  /\ read.kind = "unavailable" /\ read.why = "failed" => r \in Heavy \/ now.faults >= 2
  /\ read.kind = "read" =>
       /\ \A d \in now.steady : d[1] = r => d[2] \in DOMAIN read.found \/ read.truncated
       /\ now.quiet =>
            /\ read.gate = GateOf(now.gates[r])
            /\ \A n \in DOMAIN read.found : n \in DOMAIN now.prs[r] /\ read.found[n] = now.prs[r][n]
            /\ read.truncated <=> Cardinality(DOMAIN now.prs[r]) > PrPage

ReadsInv ==
  pc = "reading" => \A i \in 1..Len(reads) : Holds(withPrs[i], reads[i], Now)

\* The board, and what it owes.
OwedInv ==
  Ready =>
    /\ \A d \in owed :
         \/ \E p \in board.placed : p.repo = d[1] /\ p.number = d[2]
         \/ d[1] \in Gaps(board)
    /\ exit = "0" => Gaps(board) = {}

\* No repository is listed twice when no two owners share one.
OwnersDiffer ==
  \A o, p \in DOMAIN Owned : o # p => Owned[o] \cap Owned[p] = {}

ListedOnce ==
  pc \in {"listing", "reading"} =>
    /\ \A i, j \in DOMAIN withPrs : i # j => withPrs[i] # withPrs[j]
    /\ \A i \in DOMAIN withPrs : Passed(withPrs[i])

-----------------------------------------------------------------------------
(***************************************************************************)
(* Sorted sequences.                                                       *)
(***************************************************************************)
\* A set of naturals that is not empty has a least element.
LEMMA LeastExists ==
  ASSUME NEW set \in SUBSET Nat, set # {}
  PROVE  \E i \in set : \A j \in set : i <= j
<1>1. IsWellFoundedOn(OpToRel(<, Nat), Nat)
  BY NatLessThanWellFounded, Zenon
<1>2. PICK i \in set : \A j \in set : ~ (<<j, i>> \in OpToRel(<, Nat))
  BY <1>1, WFMin, Zenon
<1>3. \A j \in set : ~ (j < i)
  BY <1>2 DEF OpToRel
<1> QED
  BY <1>3

Ascending(S) ==
  {s \in [1..Cardinality(S) -> S] : \A i, j \in 1..Cardinality(S) : i < j => s[i] < s[j]}

\* The least set without an ascending enumeration would get one from that of the
\* set without its least element.
LEMMA AscendingExists ==
  ASSUME NEW U \in SUBSET Nat, IsFiniteSet(U)
  PROVE  Ascending(U) # {}
<1> DEFINE Bad == {S \in SUBSET U : Ascending(S) = {}}
<1>1. SUFFICES ASSUME Bad # {} PROVE FALSE
  BY DEF Ascending
<1>2. IsWellFoundedOn(StrictSubsetOrdering(U), SUBSET U)
  BY FS_StrictSubsetOrderingWellFounded, FS_FiniteSubsetsOfFinite, Zenon
<1>3. PICK S \in Bad : \A T \in Bad : ~ (<<T, S>> \in StrictSubsetOrdering(U))
  BY <1>1, <1>2, WFMin, Zenon
<1>4. IsFiniteSet(S) /\ Cardinality(S) \in Nat
  BY FS_Subset, FS_CardinalityType
<1>5. S # {}
  <2>1. Cardinality({}) = 0
    BY FS_EmptySet
  <2>2. [i \in 1..0 |-> 0] \in Ascending({})
    BY <2>1 DEF Ascending
  <2> QED
    BY <2>2
<1>6. PICK m \in S : \A j \in S : m <= j
  BY <1>5, LeastExists
<1> DEFINE T == S \ {m}
           n == Cardinality(S)
<1>7. Cardinality(T) = n - 1 /\ n - 1 \in Nat
  <2>1. IsFiniteSet(T) /\ Cardinality(T) = n - 1
    BY <1>4, FS_RemoveElement
  <2> QED
    BY <2>1, FS_CardinalityType
<1>8. T \notin Bad
  <2>1. <<T, S>> \in StrictSubsetOrdering(U)
    BY DEF StrictSubsetOrdering
  <2> QED
    BY <1>3, <2>1
<1>9. PICK t \in [1..(n - 1) -> T] : \A i, j \in 1..(n - 1) : i < j => t[i] < t[j]
  BY <1>7, <1>8 DEF Ascending
<1> DEFINE s == [i \in 1..n |-> IF i = 1 THEN m ELSE t[i - 1]]
<1>10. s \in [1..n -> S]
  BY <1>4, <1>9
<1>11. ASSUME NEW i \in 1..n, NEW j \in 1..n, i < j
       PROVE  s[i] < s[j]
  <2>1. j - 1 \in 1..(n - 1) /\ s[j] = t[j - 1] /\ t[j - 1] \in T
    BY <1>4, <1>9, <1>11
  <2>2. CASE i = 1
    <3>1. s[i] = m /\ t[j - 1] # m /\ m <= t[j - 1]
      BY <1>6, <2>1, <2>2
    <3>2. m \in Nat /\ t[j - 1] \in Nat
      BY <2>1
    <3>3. m < t[j - 1]
      BY <3>1, <3>2
    <3> QED
      BY <2>1, <3>1, <3>3
  <2>3. CASE i # 1
    BY <1>4, <1>9, <1>11, <2>1, <2>3
  <2> QED
    BY <2>2, <2>3
<1>12. s \in Ascending(S)
  BY <1>10, <1>11 DEF Ascending
<1> QED
  BY <1>12

\* A finite set of numbers is sorted into a sequence of it, with nothing twice
\* and nothing left out.
LEMMA SortedProperties ==
  ASSUME NEW S \in SUBSET Nat, IsFiniteSet(S)
  PROVE  /\ Cardinality(S) \in Nat
         /\ Sorted(S) \in [1..Cardinality(S) -> S]
         /\ \A i, j \in 1..Cardinality(S) : i < j => Sorted(S)[i] < Sorted(S)[j]
         /\ \A x \in S : \E i \in 1..Cardinality(S) : Sorted(S)[i] = x
<1> DEFINE n == Cardinality(S)
           s == Sorted(S)
<1>1. n \in Nat
  BY FS_CardinalityType
<1>2. s \in [1..n -> S] /\ \A i, j \in 1..n : i < j => s[i] < s[j]
  BY AscendingExists DEF Sorted, Ascending
<1>4. Cardinality(1..n) = n
  BY <1>1, FS_Interval
<1> HIDE DEF s, n
<1>3. s \in Injection(1..n, S)
  <2>1. ASSUME NEW i \in 1..n, NEW j \in 1..n, i # j
        PROVE  s[i] # s[j]
    <3>1. s[i] \in Nat /\ s[j] \in Nat
      BY <1>2
    <3>2. i < j \/ j < i
      BY <1>1, <2>1
    <3> QED
      BY <1>2, <3>1, <3>2
  <2> QED
    BY <1>2, <2>1 DEF Injection, IsInjective
<1>5. s \in Surjection(1..n, S)
  BY <1>3, <1>4, FS_Injection DEF n
<1> QED
  BY <1>1, <1>2, <1>5 DEF Surjection, s, n

\* A finite one has a greatest.
LEMMA GreatestExists ==
  ASSUME NEW S \in SUBSET Nat, IsFiniteSet(S), S # {}
  PROVE  \E r \in S : \A s \in S : s <= r
<1> DEFINE n == Cardinality(S)
<1>1. n \in Nat /\ n # 0
  BY FS_CardinalityType, FS_EmptySet
<1>2. Sorted(S)[n] \in S
  BY <1>1, SortedProperties
<1>3. ASSUME NEW x \in S
      PROVE  x <= Sorted(S)[n]
  <2>1. PICK i \in 1..n : Sorted(S)[i] = x
    BY SortedProperties
  <2>2. i = n \/ Sorted(S)[i] < Sorted(S)[n]
    <3>1. n \in 1..n /\ (i = n \/ i < n)
      BY <1>1
    <3> QED
      BY <3>1, SortedProperties
  <2>3. x \in Nat /\ Sorted(S)[n] \in Nat
    BY <1>2
  <2> QED
    BY <2>1, <2>2, <2>3
<1> QED
  BY <1>2, <1>3

-----------------------------------------------------------------------------
(***************************************************************************)
(* Batches.                                                                *)
(***************************************************************************)
\* What a list of batches is made of.
LEMMA BatchesOf ==
  ASSUME NEW w \in Batches
  PROVE  /\ Len(w) \in Nat
         /\ \A i \in 1..Len(w) : /\ w[i] \in OneBatch
                                  /\ w[i].first \in Nat \ {0} /\ w[i].last \in Nat /\ w[i].retries \in {0, 1}
         /\ w # <<>> => Len(w) >= 1 /\ Head(w) = w[1] /\ Tail(w) \in Batches /\ Len(Tail(w)) = Len(w) - 1
         /\ w # <<>> => \A i \in 1..(Len(w) - 1) : Tail(w)[i] = w[i + 1]
<1> DEFINE B == OneBatch
<1>1. w \in Seq(B) /\ Len(w) \in Nat
  BY LenProperties DEF Batches
<1>2. \A i \in 1..Len(w) : w[i] \in B
  BY <1>1, ElementOfSeq
<1>3. ASSUME w # <<>>
      PROVE  /\ Len(w) >= 1 /\ Tail(w) \in Seq(B) /\ Len(Tail(w)) = Len(w) - 1
             /\ \A i \in 1..(Len(w) - 1) : Tail(w)[i] = w[i + 1]
  <2>1. Len(w) # 0
    BY <1>1, <1>3, EmptySeq
  <2> QED
    BY <1>1, <1>3, <2>1, HeadTailProperties
<1>4. Head(w) = w[1]
  OBVIOUS
<1>5. \A i \in 1..Len(w) : w[i].first \in Nat \ {0} /\ w[i].last \in Nat /\ w[i].retries \in {0, 1}
  BY <1>2 DEF OneBatch
<1> QED
  BY <1>1, <1>2, <1>3, <1>4, <1>5 DEF Batches

\* A batch that is read leaves the ones behind it.
LEMMA TailInOrder ==
  ASSUME NEW w, NEW done \in Nat, NEW n \in Nat, InOrder(w, done, n), w # <<>>
  PROVE  InOrder(Tail(w), w[1].last, n)
<1> DEFINE t == Tail(w)
<1>1. w \in Batches
  BY DEF InOrder
<1>2. /\ Len(w) \in Nat /\ Len(w) >= 1 /\ t \in Batches /\ Len(t) = Len(w) - 1
      /\ \A i \in 1..Len(t) : t[i] = w[i + 1] /\ i + 1 \in 1..Len(w)
  BY <1>1, BatchesOf
<1> HIDE DEF t
<1>3. t # <<>> => Len(t) >= 1
  BY <1>2 DEF Batches
<1>4. t # <<>> => t[1].first = w[1].last + 1 /\ t[Len(t)].last = n
  <2> SUFFICES ASSUME t # <<>> PROVE t[1].first = w[1].last + 1 /\ t[Len(t)].last = n
    OBVIOUS
  <2>1. t[1] = w[2] /\ t[Len(t)] = w[Len(w)]
    BY <1>2, <1>3
  <2> QED
    BY <1>2, <1>3, <2>1 DEF InOrder
<1>5. t = <<>> => w[1].last = n
  <2> SUFFICES ASSUME t = <<>> PROVE w[1].last = n
    OBVIOUS
  <2>1. Len(t) = 0
    OBVIOUS
  <2>2. Len(w) = 1
    BY <1>2, <2>1
  <2>3. w[Len(w)].last = n
    BY DEF InOrder
  <2> QED
    BY <2>2, <2>3
<1>6. ASSUME NEW i \in 1..Len(t)
      PROVE  /\ t[i].first <= t[i].last /\ t[i].last <= n
             /\ Len(t) - i <= n - t[i].last
             /\ t[i].retries = 0 => i = 1 /\ t[i].first = t[i].last
             /\ i < Len(t) => t[i + 1].first = t[i].last + 1
  <2>1. t[i] = w[i + 1] /\ i + 1 \in 1..Len(w) /\ (i < Len(t) => t[i + 1] = w[(i + 1) + 1])
    BY <1>2
  <2>2. PICK j : j = i + 1
    OBVIOUS
  <2>3. j \in 1..Len(w) /\ t[i] = w[j] /\ w[j].last \in Nat
    BY <1>1, <2>1, <2>2, BatchesOf
  <2>4. /\ w[j].first <= w[j].last /\ w[j].last <= n
        /\ Len(w) - j <= n - w[j].last
        /\ w[j].retries = 0 => j = 1 /\ w[j].first = w[j].last
        /\ j < Len(w) => w[j + 1].first = w[j].last + 1
    BY <2>3 DEF InOrder
  <2>5. j # 1 /\ Len(t) - i = Len(w) - j /\ (i < Len(t) <=> j < Len(w))
    BY <1>2, <2>2
  <2>6. i < Len(t) => t[i + 1] = w[j + 1]
    BY <2>1, <2>2
  <2> QED
    BY <2>3, <2>4, <2>5, <2>6
<1> QED
  BY <1>2, <1>4, <1>5, <1>6 DEF InOrder, t

\* The first half of a batch ends before the batch does.
LEMMA HalfFits ==
  ASSUME NEW a \in Nat, NEW b \in Nat, b - a + 1 > 1
  PROVE  LET h == (b - a + 1) \div 2
         IN  h \in Nat /\ h >= 1 /\ a + h <= b
OBVIOUS

\* The bounds of the two halves of an interval.
LEMMA HalfStays ==
  ASSUME NEW a \in Nat, NEW b \in Nat, NEW h \in Nat, NEW n \in Nat, h >= 1, a + h <= b, b <= n
  PROVE  /\ a <= a + h - 1 /\ a + h - 1 <= n
         /\ \A m \in Nat : m - 1 <= n - b => (m + 1) - 1 <= n - (a + h - 1)
         /\ \A m \in Nat : m - 1 <= n - b => (m + 1) - 2 <= n - b
OBVIOUS

\* A batch of several positions gives way to its halves.
LEMMA HalvesInOrder ==
  ASSUME NEW w, NEW done \in Nat, NEW n \in Nat, InOrder(w, done, n), w # <<>>,
         w[1].last - w[1].first + 1 > 1
  PROVE  LET s == Halves(Head(w)) \o Tail(w)
         IN  InOrder(s, done, n) /\ Len(s) = Len(w) + 1 /\ s[1].retries = w[1].retries
<1> DEFINE t    == w[1]
           half == (t.last - t.first + 1) \div 2
           a    == [t EXCEPT !.last = t.first + half - 1]
           b    == [t EXCEPT !.first = t.first + half]
           s    == <<a, b>> \o Tail(w)
<1>1. w \in Batches
  BY DEF InOrder
<1>2. Len(w) \in Nat /\ Len(w) >= 1 /\ Head(w) = t /\ Tail(w) \in Batches /\ Len(Tail(w)) = Len(w) - 1
  BY <1>1, BatchesOf
<1>3. t \in [first : Nat \ {0}, last : Nat, retries : {0, 1}] /\ t.retries = 1
  <2>1. t \in [first : Nat \ {0}, last : Nat, retries : {0, 1}]
    BY <1>1, <1>2, BatchesOf DEF OneBatch
  <2>2. t.retries = 0 => t.first = t.last
    BY <1>2 DEF InOrder
  <2> QED
    BY <2>1, <2>2
<1>12. /\ t.last <= n /\ Len(w) - 1 <= n - t.last /\ t.first = done + 1
       /\ 1 < Len(w) => w[2].first = t.last + 1
       /\ Len(w) = 1 => t.last = n
  BY <1>2 DEF InOrder
<1>13. t.first \in Nat /\ t.last \in Nat /\ t.last - t.first + 1 > 1
  BY <1>3
<1> HIDE DEF t
<1>4. half \in Nat /\ half >= 1 /\ t.first + half <= t.last
  BY <1>13, HalfFits
<1> HIDE DEF half
<1>14. /\ t.first + half - 1 \in Nat /\ t.first + half \in Nat \ {0}
       /\ t.first <= t.first + half - 1 /\ t.first + half - 1 <= n
       /\ Len(w) + 1 - 1 <= n - (t.first + half - 1)
       /\ Len(w) + 1 - 2 <= n - t.last
  BY <1>2, <1>4, <1>12, <1>13, HalfStays
<1>5. /\ a \in [first : Nat \ {0}, last : Nat, retries : {0, 1}]
      /\ b \in [first : Nat \ {0}, last : Nat, retries : {0, 1}]
      /\ a.first = t.first /\ a.last = t.first + half - 1 /\ a.retries = t.retries
      /\ b.first = t.first + half /\ b.last = t.last /\ b.retries = t.retries
  BY <1>3, <1>14
<1> HIDE DEF a, b
<1>6. <<a, b>> \in Batches /\ Len(<<a, b>>) = 2
  BY <1>5 DEF Batches, OneBatch
<1>7. /\ s \in Batches /\ Len(s) = Len(w) + 1
      /\ s[1] = a /\ s[2] = b
      /\ \A i \in 3..Len(s) : s[i] = w[i - 1]
  <2>1. /\ s \in Batches /\ Len(s) = 2 + (Len(w) - 1)
        /\ \A i \in 1..(2 + (Len(w) - 1)) : s[i] = IF i <= 2 THEN <<a, b>>[i] ELSE Tail(w)[i - 2]
    BY <1>2, <1>6, ConcatProperties DEF Batches
  <2>2. \A i \in 3..Len(s) : i - 2 \in 1..(Len(w) - 1) /\ s[i] = Tail(w)[i - 2]
    BY <1>2, <2>1
  <2>3. \A i \in 3..Len(s) : s[i] = w[(i - 2) + 1]
    BY <1>1, <2>2, BatchesOf
  <2> QED
    BY <1>2, <2>1, <2>3
<1> HIDE DEF s
<1>8. s # <<>> /\ s[1].first = done + 1
  BY <1>2, <1>5, <1>7, <1>12
<1>9. s[Len(s)].last = n
  <2>1. CASE Len(w) = 1
    BY <1>2, <1>5, <1>7, <1>12, <2>1
  <2>2. CASE Len(w) > 1
    <3>1. w[Len(w)].last = n
      BY DEF InOrder
    <3> QED
      BY <1>2, <1>7, <2>2, <3>1
  <2> QED
    BY <1>2, <2>1, <2>2
<1>10. ASSUME NEW i \in 1..Len(s)
       PROVE  /\ s[i].first <= s[i].last /\ s[i].last <= n
              /\ Len(s) - i <= n - s[i].last
              /\ s[i].retries = 0 => i = 1 /\ s[i].first = s[i].last
              /\ i < Len(s) => s[i + 1].first = s[i].last + 1
  <2>1. CASE i = 1
    <3>1. /\ s[1].first = t.first /\ s[1].last = t.first + half - 1 /\ s[1].retries = 1
          /\ s[2].first = t.first + half
      BY <1>3, <1>5, <1>7
    <3>2. s[1].first <= s[1].last /\ s[1].last <= n /\ Len(s) - 1 <= n - s[1].last
      BY <1>7, <1>14, <3>1
    <3>3. t.first + half = (t.first + half - 1) + 1
      BY <1>4, <1>13
    <3>4. s[1].retries # 0 /\ s[2].first = s[1].last + 1
      BY <3>1, <3>3
    <3>5. i + 1 = 2
      BY <2>1
    <3> QED
      BY <2>1, <3>2, <3>4, <3>5
  <2>2. CASE i = 2
    <3>1. i < Len(s) => s[3] = w[2] /\ 1 < Len(w)
      BY <1>2, <1>7, <2>2
    <3>2. s[2].first = t.first + half /\ s[2].last = t.last /\ s[2].retries = 1
      BY <1>3, <1>5, <1>7
    <3>3. i < Len(s) => s[i + 1].first = s[i].last + 1
      BY <1>12, <2>2, <3>1, <3>2
    <3>4. s[2].first <= s[2].last /\ s[2].last <= n
      BY <1>4, <1>12, <3>2
    <3>5. Len(s) - 2 <= n - s[2].last
      BY <1>7, <1>14, <3>2
    <3> QED
      BY <2>2, <3>2, <3>3, <3>4, <3>5
  <2>3. CASE i >= 3
    <3>1. /\ i - 1 \in 1..Len(w) /\ s[i] = w[i - 1] /\ i - 1 # 1
          /\ i < Len(s) => s[i + 1] = w[(i - 1) + 1] /\ i - 1 < Len(w)
      BY <1>2, <1>7, <2>3
    <3>2. PICK j : j = i - 1
      OBVIOUS
    <3>3. j \in 1..Len(w) /\ s[i] = w[j] /\ w[j].last \in Nat
      BY <1>1, <3>1, <3>2, BatchesOf
    <3>4. /\ w[j].first <= w[j].last /\ w[j].last <= n
          /\ Len(w) - j <= n - w[j].last
          /\ w[j].retries = 0 => j = 1 /\ w[j].first = w[j].last
          /\ j < Len(w) => w[j + 1].first = w[j].last + 1
      BY <3>3 DEF InOrder
    <3>5. /\ j # 1 /\ Len(s) - i = Len(w) - j
          /\ i < Len(s) => j < Len(w) /\ s[i + 1] = w[j + 1]
      BY <1>2, <1>7, <3>1, <3>2
    <3> QED
      BY <3>3, <3>4, <3>5
  <2> QED
    BY <1>7, <2>1, <2>2, <2>3
<1>11. InOrder(s, done, n)
  BY <1>7, <1>8, <1>9, <1>10 DEF InOrder
<1> QED
  BY <1>2, <1>5, <1>7, <1>11 DEF s, a, b, half, Halves, t

\* A single repository is tried again.
LEMMA RetryInOrder ==
  ASSUME NEW w, NEW done \in Nat, NEW n \in Nat, InOrder(w, done, n), w # <<>>,
         w[1].first = w[1].last, w[1].retries > 0
  PROVE  LET s == <<[Head(w) EXCEPT !.retries = @ - 1]>> \o Tail(w)
         IN  /\ InOrder(s, done, n) /\ Len(s) = Len(w) /\ s # <<>>
             /\ s[1].retries = 0 /\ s[1].first = w[1].first
<1> DEFINE t == w[1]
           a == [t EXCEPT !.retries = @ - 1]
           s == <<a>> \o Tail(w)
<1>1. w \in Batches
  BY DEF InOrder
<1>2. Len(w) \in Nat /\ Len(w) >= 1 /\ Head(w) = t /\ Tail(w) \in Batches /\ Len(Tail(w)) = Len(w) - 1
  BY <1>1, BatchesOf
<1>3. t \in [first : Nat \ {0}, last : Nat, retries : {0, 1}] /\ t.retries = 1
  <2>1. t \in [first : Nat \ {0}, last : Nat, retries : {0, 1}]
    BY <1>1, <1>2, BatchesOf DEF OneBatch
  <2> QED
    BY <2>1
<1>4. /\ a \in [first : Nat \ {0}, last : Nat, retries : {0, 1}]
      /\ a.first = t.first /\ a.last = t.last /\ a.retries = 0
  BY <1>3
<1> HIDE DEF a
<1>5. <<a>> \in Batches /\ Len(<<a>>) = 1
  BY <1>4 DEF Batches, OneBatch
<1>6. /\ s \in Batches /\ Len(s) = Len(w) /\ s[1] = a
      /\ \A i \in 2..Len(s) : s[i] = w[i]
  <2>1. /\ s \in Batches /\ Len(s) = 1 + (Len(w) - 1)
        /\ \A i \in 1..(1 + (Len(w) - 1)) : s[i] = IF i <= 1 THEN <<a>>[i] ELSE Tail(w)[i - 1]
    BY <1>2, <1>5, ConcatProperties DEF Batches
  <2>2. \A i \in 2..Len(s) : i - 1 \in 1..(Len(w) - 1) /\ s[i] = Tail(w)[i - 1]
    BY <1>2, <2>1
  <2>3. \A i \in 2..Len(s) : s[i] = w[(i - 1) + 1]
    BY <1>1, <2>2, BatchesOf
  <2> QED
    BY <1>2, <2>1, <2>3
<1> HIDE DEF s
<1>7. \A i \in 1..Len(s) : s[i].first = w[i].first /\ s[i].last = w[i].last /\ (i # 1 => s[i].retries = w[i].retries)
  BY <1>2, <1>4, <1>6
<1>8. s # <<>>
  BY <1>2, <1>6
<1>9. InOrder(s, done, n)
  BY <1>2, <1>6, <1>7, <1>8 DEF InOrder
<1> QED
  BY <1>2, <1>4, <1>6, <1>8, <1>9 DEF s, a

\* The batches that a listing of n repositories is cut into.
LEMMA ChunksInOrder ==
  ASSUME NEW n \in Nat
  PROVE  /\ InOrder(Chunks(n), 0, n)
         /\ Len(Chunks(n)) <= n
         /\ Chunks(n) # <<>> => Chunks(n)[1].retries = 1
<1> DEFINE m == (n + Batch - 1) \div Batch
           k == (n + Batch - 1) % Batch
           c == Chunks(n)
<1>1. Batch \in Nat /\ Batch >= 1
  BY SizeAssumption
<1>2. m \in Nat /\ m * Batch >= n /\ m * Batch <= n + Batch - 1
  <2>1. m \in Int /\ k \in 0..(Batch - 1) /\ n + Batch - 1 = (Batch * m) + k
    BY <1>1
  <2>2. m \in Nat
    BY <1>1
  <2> QED
    BY <1>1, <2>1, <2>2
<1> HIDE DEF m, k
<1>3. n = 0 => m = 0
  BY <1>1, <1>2
<1>4. m <= n
  BY <1>1, <1>2
<1>5. ASSUME NEW i \in 1..m
      PROVE  /\ (i - 1) * Batch \in Nat /\ (i - 1) * Batch < n
             /\ i * Batch = (i - 1) * Batch + Batch
             /\ i < m => i * Batch < n
             /\ n - i * Batch >= m - i \/ i * Batch >= n
             /\ i = m => i * Batch >= n
  BY <1>1, <1>2, <1>5
<1>6. c = [i \in 1..m |-> [first |-> (i - 1) * Batch + 1, last |-> Least(i * Batch, n), retries |-> 1]]
  BY DEF Chunks, m
<1> HIDE DEF c
<1>7. ASSUME NEW i \in 1..m
      PROVE  /\ c[i].first = (i - 1) * Batch + 1 /\ c[i].retries = 1
             /\ c[i].last = Least(i * Batch, n)
             /\ c[i] \in OneBatch /\ i * Batch \in Nat
  <2>1. i * Batch \in Nat /\ (i - 1) * Batch \in Nat
    BY <1>1, <1>5
  <2>2. Least(i * Batch, n) \in Nat
    BY <2>1 DEF Least
  <2>3. (i - 1) * Batch + 1 \in Nat \ {0}
    BY <2>1
  <2> QED
    BY <1>6, <2>1, <2>2, <2>3 DEF OneBatch
<1>8. c \in [1..m -> OneBatch]
  BY <1>6, <1>7
<1>9. c \in Batches /\ Len(c) = m
  BY <1>2, <1>8 DEF Batches
<1>10. c # <<>> => m >= 1
  BY <1>2, <1>8
<1>11. c = <<>> => m = 0
  BY <1>2, <1>9
<1>12. c = <<>> => n = 0
  BY <1>1, <1>2, <1>11
<1>13. c # <<>> => c[1].first = 1 /\ c[1].retries = 1 /\ c[m].last = n
  <2> SUFFICES ASSUME c # <<>> PROVE c[1].first = 1 /\ c[1].retries = 1 /\ c[m].last = n
    OBVIOUS
  <2>1. 1 \in 1..m /\ m \in 1..m
    BY <1>2, <1>10
  <2>2. m * Batch >= n /\ m * Batch \in Nat
    BY <1>2, <1>7, <2>1
  <2>3. c[m].last = n
    BY <1>7, <2>1, <2>2 DEF Least
  <2>4. (1 - 1) * Batch + 1 = 1
    BY <1>1
  <2> QED
    BY <1>7, <2>1, <2>3, <2>4
<1>14. ASSUME NEW i \in 1..m
       PROVE  /\ c[i].first <= c[i].last /\ c[i].last <= n
              /\ m - i <= n - c[i].last
              /\ c[i].retries # 0
              /\ i < m => c[i + 1].first = c[i].last + 1
  <2> DEFINE b == (i - 1) * Batch
             e == i * Batch
  <2>1. b \in Nat /\ b < n /\ e = b + Batch /\ (i < m => e < n) /\ (n - e >= m - i \/ e >= n) /\ (i = m => e >= n)
    BY <1>5
  <2>2. c[i].first = b + 1 /\ c[i].last = Least(e, n) /\ c[i].retries = 1
    BY <1>7
  <2>3. i < m => i + 1 \in 1..m /\ (i + 1) - 1 = i
    BY <1>2
  <2>4. i < m => c[i + 1].first = e + 1
    BY <1>7, <2>3
  <2> HIDE DEF b, e
  <2>5. c[i].first <= c[i].last /\ c[i].last <= n
    BY <1>1, <2>1, <2>2 DEF Least
  <2>6. m - i <= n - c[i].last
    BY <1>1, <1>2, <2>1, <2>2 DEF Least
  <2>7. i < m => c[i + 1].first = c[i].last + 1
    BY <1>1, <2>1, <2>2, <2>4 DEF Least
  <2> QED
    BY <2>2, <2>5, <2>6, <2>7
<1>15. InOrder(c, 0, n)
  BY <1>2, <1>9, <1>12, <1>13, <1>14 DEF InOrder
<1> QED
  BY <1>4, <1>9, <1>13, <1>15 DEF c

-----------------------------------------------------------------------------
(***************************************************************************)
(* What the steps leave alone.                                             *)
(***************************************************************************)
\* GitHub changes nothing the run keeps, and nothing is steady that was not.
LEMMA GitHubFrame ==
  GitHub => /\ UNCHANGED <<pc, owner, cursor, withPrs, work, reads, exhausted, queries>>
            /\ UNCHANGED <<board, publish, body, exit, owed, faults>>
            /\ quiet' = FALSE /\ steady' \subseteq steady /\ steady' \subseteq Open'
<1>1. Change => /\ UNCHANGED <<pc, owner, cursor, withPrs, work, reads, exhausted, queries>>
                /\ UNCHANGED <<board, publish, body, exit, owed, faults>>
                /\ quiet' = FALSE /\ steady' \subseteq steady /\ steady' \subseteq Open'
  BY DEF Change, listing, reading, result
<1> QED
  BY <1>1 DEF GitHub, ChangePr, EndPr, AddRepo, RemoveRepo, Protect

\* The listing touches neither GitHub nor what later steps produce.
LEMMA ListingFrame ==
  ListRepos \/ ListBreaks \/ ListRefused =>
    /\ pc = "listing"
    /\ UNCHANGED <<repos, prs, gates, quiet, steady, owed, faults>>
    /\ UNCHANGED <<reads, exhausted, queries, board, publish, body>>
    /\ (pc' = "idle" /\ exit' = "2") \/ (pc' \in {"listing", "reading"} /\ exit' = exit)
<1>1. ListRepos =>
        /\ pc = "listing"
        /\ UNCHANGED <<repos, prs, gates, quiet, steady, owed, faults>>
        /\ UNCHANGED <<reads, exhausted, queries, board, publish, body>>
        /\ (pc' = "idle" /\ exit' = "2") \/ (pc' \in {"listing", "reading"} /\ exit' = exit)
  BY DEF ListRepos, Exit, github, past
<1>2. ListBreaks =>
        /\ pc = "listing"
        /\ UNCHANGED <<repos, prs, gates, quiet, steady, owed, faults>>
        /\ UNCHANGED <<reads, exhausted, queries, board, publish, body>>
        /\ (pc' = "idle" /\ exit' = "2") \/ (pc' \in {"listing", "reading"} /\ exit' = exit)
  BY DEF ListBreaks, Exit, github, reading, past
<1>3. ListRefused =>
        /\ pc = "listing"
        /\ UNCHANGED <<repos, prs, gates, quiet, steady, owed, faults>>
        /\ UNCHANGED <<reads, exhausted, queries, board, publish, body>>
        /\ (pc' = "idle" /\ exit' = "2") \/ (pc' \in {"listing", "reading"} /\ exit' = exit)
  BY DEF ListRefused, Exit, github, reading, past
<1> QED
  BY <1>1, <1>2, <1>3, Zenon

\* Reading a batch touches neither GitHub nor the listing.
LEMMA ReadingFrame ==
  SkipBatch \/ ReadBatch \/ BatchFails =>
    /\ pc = "reading"
    /\ UNCHANGED <<repos, prs, gates, quiet, steady, owed>>
    /\ UNCHANGED <<pc, owner, cursor, withPrs, board, publish, body, exit>>
  BY DEF SkipBatch, ReadBatch, BatchFails, github, listing, result, past

\* Building and publishing the board leave GitHub and the listing alone.
LEMMA ResultFrame ==
  \/ Build \/ Output \/ OutputFails
  \/ \E stored \in {Text(board), Foreign("nobody"), Foreign("other")}, answered \in BOOLEAN :
       Publish(stored, answered)
  => /\ UNCHANGED <<repos, prs, gates, quiet, steady, faults, owner, cursor>>
     /\ \/ pc = "reading" /\ pc' = "built"
        \/ pc \in {"built", "publishing"} /\ pc' \in {"publishing", "idle"}
<1> DEFINE Same == UNCHANGED <<repos, prs, gates, quiet, steady, faults, owner, cursor>>
<1>1. Build => Same /\ pc = "reading" /\ pc' = "built"
  BY DEF Build, github, listing
<1>2. Output => Same /\ pc \in {"built", "publishing"} /\ pc' \in {"publishing", "idle"}
  BY DEF Output, Exit, github, listing, past
<1>3. OutputFails => Same /\ pc \in {"built", "publishing"} /\ pc' \in {"publishing", "idle"}
  BY DEF OutputFails, Exit, github, listing, past
<1>4. ASSUME NEW stored, NEW answered, Publish(stored, answered)
      PROVE  Same /\ pc \in {"built", "publishing"} /\ pc' \in {"publishing", "idle"}
  <2>1. pc = "publishing" /\ pc' = "idle"
    BY <1>4, Zenon DEF Publish, Exit
  <2>2. Same
    BY <1>4 DEF Publish, github, listing, past
  <2> QED
    BY <2>1, <2>2
<1> QED
  BY <1>1, <1>2, <1>3, <1>4, Zenon

\* What a stutter leaves alone, written out.
LEMMA StutterFrame ==
  vars' = vars =>
    /\ UNCHANGED <<repos, prs, gates, pc, owner, cursor, withPrs, work, reads, exhausted, queries>>
    /\ UNCHANGED <<board, publish, body, exit, quiet, steady, owed, faults>>
  BY DEF vars, github, listing, reading, result, past

-----------------------------------------------------------------------------
(***************************************************************************)
(* Pages.                                                                  *)
(***************************************************************************)
\* The owners' repositories, as the assumptions on the constants give them.
LEMMA OwnedType ==
  /\ Len(Owned) \in Nat \ {0} /\ DOMAIN Owned = 1..Len(Owned)
  /\ \A o \in DOMAIN Owned : Owned[o] \subseteq Nat \ {0} /\ IsFiniteSet(Owned[o])
  /\ Repo \subseteq Nat \ {0}
  /\ \A r \in Repo : \E o \in DOMAIN Owned : r \in Owned[o]
<1>1. Len(Owned) \in Nat \ {0} /\ DOMAIN Owned = 1..Len(Owned)
  BY OwnedAssumption, EmptySeq, LenProperties
<1>2. \A o \in DOMAIN Owned : Owned[o] \subseteq Nat \ {0} /\ IsFiniteSet(Owned[o])
  BY <1>1, OwnedAssumption, ElementOfSeq
<1> QED
  BY <1>1, <1>2 DEF Repo

\* A page has no gap, and if something is left it has a last repository.
LEMMA PageHasNoGap ==
  ASSUME BoardType
  PROVE  /\ IsFiniteSet(Page) /\ Page \subseteq Rest /\ Rest \subseteq Nat
         /\ Page # Rest =>
              LET last == CHOOSE r \in Page : \A s \in Page : s <= r
              IN /\ last \in Page /\ \A s \in Page : s <= last
                 /\ \A r \in Rest : r <= last => r \in Page
<1>1. Rest \subseteq Nat /\ IsFiniteSet(Rest)
  <2>1. Rest \subseteq Owned[owner] /\ owner \in DOMAIN Owned
    BY DEF BoardType, Rest, Existing
  <2> QED
    BY <2>1, OwnedType, FS_Subset
<1>2. Page \subseteq Rest
  BY DEF Page
<1>3. IsFiniteSet(Page)
  BY <1>1, <1>2, FS_Subset
<1> SUFFICES ASSUME Page # Rest
             PROVE  LET last == CHOOSE r \in Page : \A s \in Page : s <= r
                    IN /\ last \in Page /\ \A s \in Page : s <= last
                       /\ \A r \in Rest : r <= last => r \in Page
  BY <1>1, <1>2, <1>3
<1>4. Page # {}
  <2>1. Rest # {}
    BY <1>2
  <2>2. PICK r \in Rest : \A s \in Rest : r <= s
    BY <1>1, <2>1, LeastExists
  <2>3. {s \in Rest : s <= r} = {r}
    <3>1. ASSUME NEW s \in Rest, s <= r PROVE s = r
      <4>1. s \in Nat /\ r \in Nat /\ r <= s
        BY <1>1, <2>2
      <4> QED
        BY <3>1, <4>1
    <3>2. r <= r
      BY <1>1
    <3> QED
      BY <3>1, <3>2
  <2>4. Cardinality({r}) = 1
    BY FS_Singleton
  <2>5. ListPage \in Nat /\ ListPage >= 1
    BY SizeAssumption
  <2> QED
    BY <2>2, <2>3, <2>4, <2>5 DEF Page
<1> DEFINE last == CHOOSE r \in Page : \A s \in Page : s <= r
<1>5. last \in Page /\ \A s \in Page : s <= last
  BY <1>1, <1>2, <1>3, <1>4, GreatestExists
<1> HIDE DEF last
<1>6. ASSUME NEW r \in Rest, r <= last
      PROVE  r \in Page
  <2> DEFINE U == {s \in Rest : s <= last}
             V == {s \in Rest : s <= r}
  <2>1. ASSUME NEW s \in V PROVE s \in U
    <3>1. s \in Nat /\ r \in Nat /\ last \in Nat
      BY <1>1, <1>2, <1>5
    <3> QED
      BY <1>6, <3>1
  <2>2. IsFiniteSet(U)
    BY <1>1, FS_Subset
  <2>3. Cardinality(V) <= Cardinality(U) /\ Cardinality(V) \in Nat /\ Cardinality(U) \in Nat
    BY <2>1, <2>2, FS_Subset, FS_CardinalityType
  <2>4. Cardinality(U) <= ListPage /\ ListPage \in Nat
    BY <1>5, SizeAssumption DEF Page
  <2>5. Cardinality(V) <= ListPage
    BY <2>3, <2>4
  <2> QED
    BY <2>5 DEF Page
<1> QED
  BY <1>5, <1>6 DEF last

\* The repositories that a page adds to the list.
Found == {r \in Page : DOMAIN prs[r] # {}}

\* A page adds what it found, in order and each once, at the end of the list.
LEMMA PageIsAppended ==
  ASSUME BoardType, ListRepos
  PROVE  LET n == Len(withPrs)
             k == Cardinality(Found)
         IN /\ n \in Nat /\ k \in Nat /\ Found \in SUBSET Nat /\ IsFiniteSet(Found) /\ Found \subseteq Repo
            /\ withPrs' \in Seq(Repo) /\ Len(withPrs') = n + k
            /\ \A i \in 1..n : withPrs'[i] = withPrs[i]
            /\ \A i \in 1..k : withPrs'[n + i] = Sorted(Found)[i] /\ withPrs'[n + i] \in Found
            /\ \A r \in Found : \E i \in 1..k : withPrs'[n + i] = r
<1> DEFINE n == Len(withPrs)
           k == Cardinality(Found)
           f == Sorted(Found)
<1>1. Found \in SUBSET Nat /\ IsFiniteSet(Found)
  <2>1. Found \subseteq Page
    BY DEF Found
  <2> QED
    BY <2>1, PageHasNoGap, FS_Subset
<1>2. Found \subseteq Repo
  BY DEF Found, Page, Rest, Existing, BoardType
<1>3. k \in Nat /\ f \in [1..k -> Found] /\ \A r \in Found : \E i \in 1..k : f[i] = r
  BY <1>1, SortedProperties
<1>4. withPrs' = withPrs \o f
  BY DEF ListRepos, Found
<1>5. withPrs \in Seq(Repo) /\ n \in Nat
  BY LenProperties DEF BoardType
<1> HIDE DEF f, k
<1>6. f \in Seq(Repo) /\ Len(f) = k
  BY <1>2, <1>3
<1>7. /\ withPrs' \in Seq(Repo) /\ Len(withPrs') = n + k
      /\ \A i \in 1..(n + k) : withPrs'[i] = IF i <= n THEN withPrs[i] ELSE f[i - n]
  BY <1>4, <1>5, <1>6, ConcatProperties
<1> HIDE DEF n
<1>8. ASSUME NEW i \in 1..k PROVE withPrs'[n + i] = f[i] /\ f[i] \in Found
  <2>1. n + i \in 1..(n + k) /\ ~ (n + i <= n) /\ (n + i) - n = i
    BY <1>3, <1>5
  <2> QED
    BY <1>3, <1>7, <2>1
<1>9. \A i \in 1..n : withPrs'[i] = withPrs[i]
  BY <1>3, <1>5, <1>7
<1>10. \A r \in Found : \E i \in 1..k : withPrs'[n + i] = r
  BY <1>3, <1>8
<1> QED
  BY <1>1, <1>2, <1>3, <1>5, <1>7, <1>8, <1>9, <1>10 DEF n, k, f

-----------------------------------------------------------------------------
(***************************************************************************)
(* Every step keeps the invariant.                                         *)
(***************************************************************************)
\* The types hold at first.
LEMMA BoardTypeInit == Init => BoardType
<1> SUFFICES ASSUME Init PROVE BoardType
  OBVIOUS
<1>1. repos \subseteq Repo /\ prs \in [Repo -> OpenPrs] /\ \A r \in Repo : IsFiniteSet(DOMAIN prs[r])
  BY OwnedAssumption DEF Init
<1>2. owner \in DOMAIN Owned
  BY OwnedType DEF Init
<1>3. withPrs \in Seq(Repo)
  BY EmptySeq DEF Init
<1> QED
  BY <1>1, <1>2, <1>3 DEF Init, BoardType

\* Every step keeps the types.
LEMMA BoardTypeStep == BoardType /\ [Next]_vars => BoardType'
<1> SUFFICES ASSUME BoardType, [Next]_vars PROVE BoardType'
  OBVIOUS
<1>1. CASE GitHub
  <2>1. repos' \subseteq Repo
    BY <1>1 DEF GitHub, ChangePr, EndPr, AddRepo, RemoveRepo, Protect, BoardType
  <2>2. prs' \in [Repo -> OpenPrs] /\ \A r \in Repo : IsFiniteSet(DOMAIN prs'[r])
    <3>1. ASSUME NEW r \in repos, NEW n \in Number, NEW a \in Attributes, ChangePr(r, n, a)
          PROVE  prs' \in [Repo -> OpenPrs] /\ \A q \in Repo : IsFiniteSet(DOMAIN prs'[q])
      <4> DEFINE open == [m \in DOMAIN prs[r] \cup {n} |-> IF m = n THEN a ELSE prs[r][m]]
      <4>1. prs' = [prs EXCEPT ![r] = open] /\ r \in Repo
        BY <3>1 DEF ChangePr, BoardType
      <4>2. prs[r] \in OpenPrs /\ IsFiniteSet(DOMAIN prs[r])
        BY <4>1 DEF BoardType
      <4>3. PICK D \in SUBSET Number : prs[r] \in [D -> Attributes]
        BY <4>2 DEF OpenPrs
      <4>4. open \in [D \cup {n} -> Attributes] /\ D \cup {n} \in SUBSET Number
        BY <4>3
      <4>5. open \in OpenPrs
        BY <4>4 DEF OpenPrs
      <4>6. IsFiniteSet(DOMAIN open)
        BY <4>2, FS_AddElement
      <4> HIDE DEF open
      <4> QED
        BY <4>1, <4>5, <4>6 DEF BoardType
    <3>2. ASSUME NEW r \in repos, NEW n \in DOMAIN prs[r], EndPr(r, n)
          PROVE  prs' \in [Repo -> OpenPrs] /\ \A q \in Repo : IsFiniteSet(DOMAIN prs'[q])
      <4> DEFINE open == [m \in DOMAIN prs[r] \ {n} |-> prs[r][m]]
      <4>1. prs' = [prs EXCEPT ![r] = open] /\ r \in Repo
        BY <3>2 DEF EndPr, BoardType
      <4>2. prs[r] \in OpenPrs /\ IsFiniteSet(DOMAIN prs[r])
        BY <4>1 DEF BoardType
      <4>3. PICK D \in SUBSET Number : prs[r] \in [D -> Attributes]
        BY <4>2 DEF OpenPrs
      <4>4. open \in [D \ {n} -> Attributes] /\ D \ {n} \in SUBSET Number
        BY <4>3
      <4>5. open \in OpenPrs
        BY <4>4 DEF OpenPrs
      <4>6. IsFiniteSet(DOMAIN open)
        BY <4>2, FS_RemoveElement
      <4> HIDE DEF open
      <4> QED
        BY <4>1, <4>5, <4>6 DEF BoardType
    <3>3. (\E r \in Repo : AddRepo(r)) \/ (\E r \in repos : RemoveRepo(r))
            \/ (\E r \in repos, p \in Gates : Protect(r, p)) => prs' = prs
      BY DEF AddRepo, RemoveRepo, Protect
    <3>4. prs' = prs => prs' \in [Repo -> OpenPrs] /\ \A q \in Repo : IsFiniteSet(DOMAIN prs'[q])
      BY DEF BoardType
    <3> QED
      BY <1>1, <3>1, <3>2, <3>3, <3>4 DEF GitHub
  <2>3. UNCHANGED <<pc, owner, cursor, withPrs, faults, queries, exit>> /\ quiet' \in BOOLEAN
    BY <1>1, GitHubFrame
  <2> QED
    BY <2>1, <2>2, <2>3 DEF BoardType
<1>2. CASE Begin
  <2>1. 1 \in DOMAIN Owned /\ <<>> \in Seq(Repo)
    BY OwnedType, EmptySeq
  <2>2. /\ pc' = "listing" /\ owner' = 1 /\ cursor' = 0 /\ withPrs' = <<>> /\ queries' = 0
        /\ exit' = "none" /\ quiet' = TRUE /\ UNCHANGED <<repos, prs, faults>>
    BY <1>2 DEF Begin, github
  <2> QED
    BY <2>1, <2>2 DEF BoardType
<1>3. CASE ListRepos \/ ListBreaks \/ ListRefused
  <2>1. /\ pc' \in {"idle", "listing", "reading"} /\ (pc' # "idle" => exit' = exit) /\ pc = "listing"
        /\ UNCHANGED <<repos, prs, quiet, faults, queries>>
    BY <1>3, ListingFrame
  <2>2. owner' \in DOMAIN Owned /\ cursor' \in Nat /\ withPrs' \in Seq(Repo)
    <3>1. CASE ListRepos
      <4>1. withPrs' \in Seq(Repo)
        BY <3>1, PageIsAppended
      <4>2. owner' \in DOMAIN Owned
        <5>1. owner' = owner \/ (owner < Len(Owned) /\ owner' = owner + 1)
          BY <3>1 DEF ListRepos
        <5> QED
          BY <5>1, OwnedType DEF BoardType
      <4>3. cursor' \in Nat
        <5> DEFINE last == CHOOSE r \in Page : \A s \in Page : s <= r
        <5>1. Page # Rest => last \in Nat
          BY PageHasNoGap
        <5>2. \/ Page # Rest /\ cursor' = last
              \/ cursor' = 0
              \/ cursor' = cursor
          BY <3>1 DEF ListRepos
        <5> HIDE DEF last
        <5> QED
          BY <5>1, <5>2 DEF BoardType
      <4> QED
        BY <4>1, <4>2, <4>3
    <3>2. CASE ListBreaks \/ ListRefused
      BY <3>2 DEF ListBreaks, ListRefused, listing, BoardType
    <3> QED
      BY <1>3, <3>1, <3>2
  <2>3. pc' # "idle" => exit' = "none"
    BY <2>1 DEF BoardType
  <2> QED
    BY <2>1, <2>2, <2>3 DEF BoardType
<1>4. CASE SkipBatch \/ ReadBatch \/ BatchFails
  <2>1. faults' \in Nat /\ queries' \in Nat
    BY <1>4 DEF SkipBatch, ReadBatch, BatchFails, result, past, BoardType
  <2> QED
    BY <1>4, <2>1, ReadingFrame DEF BoardType
<1>5. CASE Build
  <2>1. /\ pc' = "built" /\ pc = "reading" /\ withPrs' = <<>> /\ queries' = 0 /\ exit' = exit
        /\ UNCHANGED <<repos, prs, owner, cursor, quiet, faults>>
    BY <1>5 DEF Build, github, listing
  <2>2. <<>> \in Seq(Repo)
    BY EmptySeq
  <2> QED
    BY <2>1, <2>2 DEF BoardType
<1>6. CASE Output \/ OutputFails \/ \E stored \in {Text(board), Foreign("nobody"), Foreign("other")}, answered \in BOOLEAN : Publish(stored, answered)
  <2>1. /\ pc \in {"built", "publishing"}
        /\ pc' = "idle" \/ (pc' = "publishing" /\ exit' = exit)
    BY <1>6, Zenon DEF Output, OutputFails, Publish, Exit
  <2>2. UNCHANGED <<repos, prs, owner, cursor, quiet, faults, withPrs, queries>>
    BY <1>6 DEF Output, OutputFails, Publish, github, listing, reading, past
  <2> QED
    BY <2>1, <2>2 DEF BoardType
<1>7. CASE UNCHANGED vars
  BY <1>7, StutterFrame DEF BoardType
<1> QED
  BY <1>1, <1>2, <1>3, <1>4, <1>5, <1>6, <1>7, Zenon DEF Next, Run

\* A repository steady in having pull requests has them now.
LEMMA SteadyStep ==
  ASSUME BoardType, SteadyAreOpen, [Next]_vars
  PROVE  SteadyAreOpen'
<1>1. CASE GitHub
  BY <1>1, GitHubFrame DEF SteadyAreOpen
<1>2. CASE Begin
  BY <1>2 DEF Begin, SteadyAreOpen, Open, github
<1>3. ASSUME UNCHANGED <<repos, prs, quiet, steady>> PROVE SteadyAreOpen'
  BY <1>3 DEF SteadyAreOpen, Open
<1>4. CASE ListRepos \/ ListBreaks \/ ListRefused
  BY <1>3, <1>4, ListingFrame
<1>5. CASE SkipBatch \/ ReadBatch \/ BatchFails
  BY <1>3, <1>5, ReadingFrame
<1>6. CASE \/ Build \/ Output \/ OutputFails
           \/ \E stored \in {Text(board), Foreign("nobody"), Foreign("other")}, answered \in BOOLEAN :
                Publish(stored, answered)
  <2>1. UNCHANGED <<repos, prs, quiet, steady>>
    BY <1>6, ResultFrame, Zenon
  <2> QED
    BY <1>3, <2>1
<1>7. CASE UNCHANGED vars
  BY <1>3, <1>7, StutterFrame
<1> QED
  BY <1>1, <1>2, <1>4, <1>5, <1>6, <1>7, Zenon DEF Next, Run

\* What a page passes by was passed before, or is on the page.
LEMMA PageAdvances ==
  ASSUME BoardType, ListRepos, pc' # "idle"
  PROVE  /\ \A r \in repos : Passed(r)' => Passed(r) \/ r \in Page
         /\ \A r \in Page : Passed(r)'
         /\ \A r : Passed(r) => Passed(r)'
<1> DEFINE last == CHOOSE r \in Page : \A s \in Page : s <= r
<1>1. /\ IsFiniteSet(Page) /\ Page \subseteq Rest /\ Rest \subseteq Nat
      /\ Page # Rest => /\ last \in Page /\ \A s \in Page : s <= last
                        /\ \A r \in Rest : r <= last => r \in Page
  BY PageHasNoGap
<1>2. /\ pc = "listing" /\ repos' = repos
      /\ \/ Page # Rest /\ cursor' = last /\ owner' = owner /\ pc' = pc
         \/ Page = Rest /\ cursor' = 0 /\ owner < Len(Owned) /\ owner' = owner + 1 /\ pc' = pc
         \/ Page = Rest /\ owner = Len(Owned) /\ pc' = "reading"
  BY DEF ListRepos, Exit, github
<1> HIDE DEF last
<1>3. owner \in 1..Len(Owned) /\ Len(Owned) \in Nat /\ DOMAIN Owned = 1..Len(Owned) /\ cursor \in Nat
  BY OwnedType DEF BoardType
<1>4. \A r : r \in Rest <=> r \in Owned[owner] /\ r \in repos /\ r > cursor
  BY DEF Rest, Existing
<1>5. \A o \in DOMAIN Owned : \A r \in Owned[o] : r \in Nat /\ r # 0
  BY OwnedType
<1>6. \A r \in Repo : \E o \in DOMAIN Owned : r \in Owned[o]
  BY OwnedType
<1>7. repos \subseteq Repo
  BY DEF BoardType
<1>8. CASE Page # Rest
  <2>1. cursor' = last /\ owner' = owner /\ pc' = pc /\ last \in Page
    BY <1>1, <1>2, <1>8
  <2>2. last \in Nat /\ last > cursor
    BY <1>1, <1>4, <2>1
  <2>3. \A r \in Owned[owner] : r \in Nat
    BY <1>3, <1>5
  <2>4. \A r : Passed(r)' <=> (\E o \in DOMAIN Owned : o < owner /\ r \in Owned[o]) \/ (r \in Owned[owner] /\ r <= last)
    BY <1>2, <2>1 DEF Passed
  <2>5. \A r : Passed(r) <=> (\E o \in DOMAIN Owned : o < owner /\ r \in Owned[o]) \/ (r \in Owned[owner] /\ r <= cursor)
    BY <1>2 DEF Passed
  <2>6. \A r \in Owned[owner] : (r <= cursor => r <= last) /\ (r <= cursor \/ r > cursor)
    BY <1>3, <2>2, <2>3
  <2>7. \A r \in repos : r \in Owned[owner] /\ r <= last => r <= cursor \/ r \in Page
    BY <1>1, <1>4, <1>8, <2>6
  <2>8. \A r \in Page : r \in Owned[owner] /\ r <= last
    BY <1>1, <1>4, <1>8
  <2>9. \A r : Passed(r) => Passed(r)'
    BY <2>4, <2>5, <2>6
  <2>10. \A r \in Page : Passed(r)'
    BY <2>4, <2>8
  <2>11. \A r \in repos : Passed(r)' => Passed(r) \/ r \in Page
    BY <2>4, <2>5, <2>7
  <2> QED
    BY <2>9, <2>10, <2>11
<1>9. CASE Page = Rest
  <2>1. \A r \in Owned[owner] : r \in repos => r <= cursor \/ r \in Page
    <3>1. \A r \in Owned[owner] : r <= cursor \/ r > cursor
      BY <1>3, <1>5
    <3> QED
      BY <1>4, <1>9, <3>1
  <2>2. \A r : Passed(r) <=> (\E o \in DOMAIN Owned : o < owner /\ r \in Owned[o]) \/ (r \in Owned[owner] /\ r <= cursor)
    BY <1>2 DEF Passed
  <2>3. ASSUME NEW r \in repos, NEW o \in DOMAIN Owned, o <= owner, r \in Owned[o]
        PROVE  Passed(r) \/ r \in Page
    <3>1. o < owner \/ o = owner
      BY <1>3, <2>3
    <3> QED
      BY <2>1, <2>2, <2>3, <3>1
  <2>4. CASE owner < Len(Owned) /\ cursor' = 0 /\ owner' = owner + 1 /\ pc' = pc
    <3>1. \A r : Passed(r)' <=> (\E o \in DOMAIN Owned : o < owner + 1 /\ r \in Owned[o]) \/ (r \in Owned[owner + 1] /\ r <= 0)
      BY <1>2, <2>4 DEF Passed
    <3>2. owner + 1 \in DOMAIN Owned /\ owner < owner + 1
      BY <1>3, <2>4
    <3>3. \A r : ~ (r \in Owned[owner + 1] /\ r <= 0)
      BY <1>5, <3>2
    <3>4. \A o \in DOMAIN Owned : (o < owner + 1 <=> o <= owner) /\ (o < owner => o < owner + 1)
      BY <1>3
    <3>5. \A r \in repos : Passed(r)' => Passed(r) \/ r \in Page
      BY <2>3, <3>1, <3>3, <3>4
    <3>6. owner \in DOMAIN Owned /\ \A r \in Page : r \in Owned[owner]
      BY <1>1, <1>3, <1>4
    <3>7. \A r \in Owned[owner] : Passed(r)'
      BY <3>1, <3>2, <3>6
    <3>8. \A r : Passed(r) => Passed(r)'
      BY <2>2, <3>1, <3>4, <3>7
    <3> QED
      BY <3>5, <3>6, <3>7, <3>8
  <2>5. CASE owner = Len(Owned) /\ pc' = "reading"
    <3>1. \A r : Passed(r)'
      BY <2>5 DEF Passed
    <3>2. \A o \in DOMAIN Owned : o <= owner
      BY <1>3, <2>5
    <3>3. \A r \in repos : Passed(r) \/ r \in Page
      BY <1>6, <1>7, <2>3, <3>2
    <3> QED
      BY <3>1, <3>3
  <2> QED
    BY <1>2, <1>9, <2>4, <2>5
<1> QED
  BY <1>8, <1>9

\* No step makes the listing pass over a steady repository.
LEMMA ListingStep ==
  ASSUME BoardType, SteadyAreOpen, ListingInv, [Next]_vars
  PROVE  ListingInv'
<1>1. CASE GitHub
  <2>1. /\ UNCHANGED <<pc, owner, cursor, withPrs, reads>>
        /\ quiet' = FALSE /\ steady' \subseteq steady
    BY <1>1, GitHubFrame
  <2> QED
    BY <2>1 DEF ListingInv, Passed, Listed
<1>2. CASE Begin
  <2>1. pc' = "listing" /\ owner' = 1 /\ cursor' = 0 /\ withPrs' = <<>> /\ reads' = <<>>
    BY <1>2 DEF Begin
  <2>2. \A r : ~ Passed(r)'
    <3>1. 1 \in DOMAIN Owned /\ \A o \in DOMAIN Owned : ~ (o < 1)
      BY OwnedType
    <3>2. \A r \in Owned[1] : ~ (r <= 0)
      BY <3>1, OwnedType
    <3> QED
      BY <2>1, <3>1, <3>2 DEF Passed
  <2>3. DOMAIN withPrs' = {}
    BY <2>1
  <2> QED
    BY <2>1, <2>2, <2>3 DEF ListingInv
<1>3. CASE ListRepos
  <2> SUFFICES ASSUME pc' # "idle" PROVE ListingInv'
    BY DEF ListingInv
  <2> DEFINE n == Len(withPrs)
             k == Cardinality(Found)
  <2>1. /\ n \in Nat /\ k \in Nat
        /\ withPrs' \in Seq(Repo) /\ Len(withPrs') = n + k
        /\ \A i \in 1..n : withPrs'[i] = withPrs[i]
        /\ \A i \in 1..k : withPrs'[n + i] \in Found
        /\ \A r \in Found : \E i \in 1..k : withPrs'[n + i] = r
    BY <1>3, PageIsAppended
  <2> HIDE DEF n, k
  <2>2. DOMAIN withPrs = 1..n /\ DOMAIN withPrs' = 1..(n + k)
    BY <2>1, LenProperties DEF BoardType, n
  <2>3. pc = "listing" /\ UNCHANGED <<repos, prs, quiet, steady, reads>>
    BY <1>3, ListingFrame
  <2>4. ASSUME NEW d \in steady, Passed(d[1])' PROVE Listed(d[1])'
    <3>1. d \in Open
      BY DEF SteadyAreOpen
    <3>2. d[1] \in repos /\ DOMAIN prs[d[1]] # {}
      BY <3>1 DEF Open
    <3>3. CASE Passed(d[1])
      <4>1. PICK i \in 1..n : withPrs[i] = d[1]
        BY <2>2, <2>3, <3>3 DEF ListingInv, Listed
      <4> QED
        BY <2>1, <2>2, <4>1 DEF Listed
    <3>4. CASE d[1] \in Page
      <4>1. PICK i \in 1..k : withPrs'[n + i] = d[1]
        BY <2>1, <3>2, <3>4 DEF Found
      <4>2. n + i \in 1..(n + k)
        BY <2>1
      <4> QED
        BY <2>2, <4>1, <4>2 DEF Listed
    <3> QED
      BY <1>3, <2>4, <3>2, <3>3, <3>4, PageAdvances
  <2>5. ASSUME quiet, NEW i \in DOMAIN withPrs' PROVE withPrs'[i] \in repos
    <3>1. i \in 1..n \/ (i - n \in 1..k /\ i = n + (i - n))
      BY <2>1, <2>2
    <3>2. CASE i \in 1..n
      BY <2>1, <2>2, <2>3, <2>5, <3>2 DEF ListingInv
    <3>3. CASE i - n \in 1..k /\ i = n + (i - n)
      <4>1. withPrs'[i] \in Found
        BY <2>1, <3>3
      <4> QED
        BY <4>1 DEF Found, Page, Rest, Existing
    <3> QED
      BY <3>1, <3>2, <3>3
  <2>6. reads' = <<>>
    BY <2>3 DEF ListingInv
  <2> QED
    BY <2>3, <2>4, <2>5, <2>6 DEF ListingInv
<1>4. CASE ListBreaks \/ ListRefused
  <2>1. pc' = "idle" \/ UNCHANGED <<pc, owner, cursor, withPrs, reads, repos, quiet, steady>>
    BY <1>4 DEF ListBreaks, ListRefused, Exit, github, reading, past
  <2> QED
    BY <2>1 DEF ListingInv, Passed, Listed
<1>5. CASE SkipBatch \/ ReadBatch \/ BatchFails
  <2>1. pc = "reading" /\ UNCHANGED <<pc, owner, cursor, withPrs, repos, quiet, steady>>
    BY <1>5, ReadingFrame
  <2> QED
    BY <2>1 DEF ListingInv, Passed, Listed
<1>6. CASE \/ Build \/ Output \/ OutputFails
           \/ \E stored \in {Text(board), Foreign("nobody"), Foreign("other")}, answered \in BOOLEAN :
                Publish(stored, answered)
  <2>1. pc' \in {"built", "publishing", "idle"}
    BY <1>6, ResultFrame
  <2> QED
    BY <2>1 DEF ListingInv
<1>7. CASE UNCHANGED vars
  BY <1>7, StutterFrame DEF ListingInv, Passed, Listed
<1> QED
  BY <1>1, <1>2, <1>3, <1>4, <1>5, <1>6, <1>7, Zenon DEF Next, Run

\* What is read of a batch goes behind what was read before.
LEMMA ReadsAreAppended ==
  ASSUME NEW S, NEW s \in Seq(S), NEW n \in Nat, NEW F, NEW f \in [1..n -> F]
  PROVE  /\ IsSeq(s \o f) /\ Len(s) \in Nat /\ Len(s \o f) = Len(s) + n
         /\ \A i \in 1..Len(s) : (s \o f)[i] = s[i]
         /\ \A i \in 1..n : (s \o f)[Len(s) + i] = f[i]
<1> DEFINE T == S \cup F
<1>2. s \in Seq(T) /\ Len(s) \in Nat
  BY SeqMonotonic, LenProperties
<1>3. f \in [1..n -> T]
  OBVIOUS
<1> HIDE DEF T
<1>4. f \in Seq(T) /\ Len(f) = n
  BY <1>3
<1>5. /\ s \o f \in Seq(T) /\ Len(s \o f) = Len(s) + n
      /\ \A i \in 1..(Len(s) + n) : (s \o f)[i] = IF i <= Len(s) THEN s[i] ELSE f[i - Len(s)]
  BY <1>2, <1>4, ConcatProperties
<1> DEFINE m == Len(s)
           c == s \o f
<1> HIDE DEF m, c
<1>6. m \in Nat /\ \A i \in 1..(m + n) : c[i] = IF i <= m THEN s[i] ELSE f[i - m]
  BY <1>2, <1>5 DEF m, c
<1>7. \A i \in 1..n : m + i \in 1..(m + n) /\ ~ (m + i <= m) /\ (m + i) - m = i
  BY <1>6
<1>8. ASSUME NEW i \in 1..m PROVE c[i] = s[i]
  <2>1. i \in 1..(m + n) /\ i <= m
    BY <1>6
  <2> QED
    BY <1>6, <2>1
<1>9. \A i \in 1..n : c[m + i] = f[i]
  BY <1>6, <1>7
<1> QED
  BY <1>2, <1>5, <1>8, <1>9 DEF IsSeq, m, c

\* The batch to read begins where the reads end.
LEMMA TaskIsNext ==
  ASSUME BoardType, WorkInv, pc = "reading", work # <<>>
  PROVE  /\ Len(reads) \in Nat /\ Len(withPrs) \in Nat /\ Len(work) \in Nat /\ Len(work) >= 1
         /\ work[1] \in OneBatch /\ Task = work[1]
         /\ Task.first = Len(reads) + 1 /\ Task.last \in Nat
         /\ Task.first <= Task.last /\ Task.last <= Len(withPrs)
         /\ Size \in Nat /\ Size >= 1 /\ Task.last = Len(reads) + Size
         /\ \A i \in 1..Size : Task.first + i - 1 \in 1..Len(withPrs) /\ Task.first + i - 1 \in Task.first..Task.last
                               /\ Task.first + i - 1 = Len(reads) + i
<1>1. IsSeq(reads) /\ InOrder(work, Len(reads), Len(withPrs))
  BY DEF WorkInv
<1>2. Len(reads) \in Nat /\ Len(withPrs) \in Nat
  BY <1>1, LenProperties DEF IsSeq, BoardType
<1>3. Len(work) \in Nat /\ Len(work) >= 1 /\ Task = work[1] /\ 1 \in 1..Len(work) /\ work[1] \in OneBatch
  <2>1. work \in Batches
    BY <1>1 DEF InOrder
  <2>2. Len(work) \in Nat /\ Len(work) >= 1 /\ Head(work) = work[1] /\ \A i \in 1..Len(work) : work[i] \in OneBatch
    BY <2>1, BatchesOf
  <2> QED
    BY <2>2 DEF Task
<1>4. /\ Task.first = Len(reads) + 1 /\ Task.last \in Nat
      /\ Task.first <= Task.last /\ Task.last <= Len(withPrs)
  BY <1>1, <1>3 DEF InOrder, OneBatch
<1> QED
  BY <1>2, <1>3, <1>4 DEF Size

\* A batch that is read or skipped: the batches behind it stay in order.
LEMMA BatchIsRead ==
  ASSUME BoardType, WorkInv, pc = "reading", work # <<>>,
         NEW F, NEW new \in [1..Size -> F],
         reads' = reads \o new, work' = Tail(work), UNCHANGED <<pc, withPrs>>,
         queries \in Nat, queries' \in Nat, queries' <= queries + 1
  PROVE  /\ WorkInv'
         /\ Len(reads') = Len(reads) + Size
         /\ \A i \in 1..Len(reads) : reads'[i] = reads[i]
         /\ \A i \in 1..Size : reads'[Len(reads) + i] = new[i]
<1>1. /\ Len(reads) \in Nat /\ Len(withPrs) \in Nat /\ Len(work) \in Nat /\ Len(work) >= 1
      /\ Task = work[1] /\ Size \in Nat /\ Size >= 1 /\ Task.last = Len(reads) + Size
  BY TaskIsNext
<1>2. /\ IsSeq(reads) /\ InOrder(work, Len(reads), Len(withPrs))
      /\ queries <= 3 * Len(reads) + Len(work) + Retried
  BY DEF WorkInv
<1>3. /\ IsSeq(reads') /\ Len(reads') = Len(reads) + Size
      /\ \A i \in 1..Len(reads) : reads'[i] = reads[i]
      /\ \A i \in 1..Size : reads'[Len(reads) + i] = new[i]
  <2>1. /\ IsSeq(reads \o new) /\ Len(reads \o new) = Len(reads) + Size
        /\ \A i \in 1..Len(reads) : (reads \o new)[i] = reads[i]
        /\ \A i \in 1..Size : (reads \o new)[Len(reads) + i] = new[i]
    <3>1. Size \in Nat /\ IsSeq(reads)
      BY <1>1, <1>2
    <3>2. PICK S : reads \in Seq(S)
      BY <3>1 DEF IsSeq
    <3>3. IsSeq(reads \o new)
      BY <3>1, <3>2, ReadsAreAppended
    <3>4. Len(reads \o new) = Len(reads) + Size
      BY <3>1, <3>2, ReadsAreAppended
    <3>5. \A i \in 1..Len(reads) : (reads \o new)[i] = reads[i]
      BY <3>1, <3>2, ReadsAreAppended
    <3>6. \A i \in 1..Size : (reads \o new)[Len(reads) + i] = new[i]
      BY <3>1, <3>2, ReadsAreAppended
    <3> QED
      BY <3>3, <3>4, <3>5, <3>6
  <2> QED
    BY <2>1, Zenon
<1>4. InOrder(work', Len(reads'), Len(withPrs'))
  BY <1>1, <1>2, <1>3, TailInOrder
<1>5. Len(work') = Len(work) - 1
  BY <1>2, BatchesOf DEF InOrder
<1>6. Retried' = 0
  <2>1. work \in Batches /\ \A i \in 1..Len(work) : work[i].retries = 0 => i = 1
    BY <1>2 DEF InOrder
  <2>2. work' # <<>> => work'[1] = work[2] /\ 2 \in 1..Len(work)
    <3>1. work' \in Batches /\ Len(work') = Len(work) - 1
          /\ \A i \in 1..(Len(work) - 1) : work'[i] = work[i + 1]
      BY <2>1, BatchesOf
    <3>2. work' # <<>> => Len(work') >= 1
      BY <3>1, BatchesOf
    <3> QED
      BY <1>1, <3>1, <3>2
  <2>3. work' # <<>> => work'[1].retries # 0
    BY <2>1, <2>2
  <2> QED
    BY <2>3 DEF Retried
<1>7. queries' <= 3 * Len(reads') + Len(work') + Retried'
  <2>1. Retried \in {0, 1}
    BY DEF Retried
  <2> QED
    BY <1>1, <1>2, <1>3, <1>5, <1>6, <2>1
<1>8. ~ (Retried' = 1)
  BY <1>6
<1>9. WorkInv'
  BY <1>3, <1>4, <1>7, <1>8, Zenon DEF WorkInv
<1> QED
  BY <1>3, <1>9

\* What was read keeps its worth while the process reads on, whatever changes.
LEMMA HoldsLater ==
  ASSUME NEW r, NEW read, NEW m, NEW n, Holds(r, read, m),
         m.faults >= 2 => n.faults >= 2,
         n.steady \subseteq m.steady,
         ~ n.quiet \/ (n.quiet = m.quiet /\ n.gates = m.gates /\ n.prs = m.prs)
  PROVE  Holds(r, read, n)
<1>1. read.kind \in {"read", "unavailable"}
  BY DEF Holds
<1>2. read.kind = "unavailable" /\ read.why = "failed" => r \in Heavy \/ n.faults >= 2
  BY DEF Holds
<1>3. ASSUME read.kind = "read", NEW d \in n.steady, d[1] = r
      PROVE  d[2] \in DOMAIN read.found \/ read.truncated
  BY <1>3 DEF Holds
<1>4. ASSUME read.kind = "read", n.quiet
      PROVE  /\ read.gate = GateOf(n.gates[r])
             /\ \A k \in DOMAIN read.found : k \in DOMAIN n.prs[r] /\ read.found[k] = n.prs[r][k]
             /\ read.truncated <=> Cardinality(DOMAIN n.prs[r]) > PrPage
  <2>1. m.quiet /\ n.gates = m.gates /\ n.prs = m.prs
    BY <1>4
  <2>2. read.gate = GateOf(m.gates[r])
    BY <1>4, <2>1, Zenon DEF Holds
  <2>3. \A k \in DOMAIN read.found : k \in DOMAIN m.prs[r] /\ read.found[k] = m.prs[r][k]
    BY <1>4, <2>1, Zenon DEF Holds
  <2>4. read.truncated <=> Cardinality(DOMAIN m.prs[r]) > PrPage
    BY <1>4, <2>1, Zenon DEF Holds
  <2> QED
    BY <2>1, <2>2, <2>3, <2>4, Zenon
<1> QED
  BY <1>1, <1>2, <1>3, <1>4, Zenon DEF Holds

\* A read stays as good as the world was while it was made.
LEMMA HoldsOn ==
  ASSUME NEW r, NEW read, Holds(r, read, Now), faults \in Nat, faults' \in Nat, faults' >= faults,
         \/ steady' \subseteq steady /\ quiet' = FALSE
         \/ UNCHANGED <<steady, quiet, gates, prs>>
  PROVE  Holds(r, read, Now')
<1>1. /\ Now.faults = faults /\ Now'.faults = faults' /\ Now.steady = steady /\ Now'.steady = steady'
      /\ Now.quiet = quiet /\ Now'.quiet = quiet' /\ Now.gates = gates /\ Now'.gates = gates'
      /\ Now.prs = prs /\ Now'.prs = prs'
  BY DEF Now
<1>2. Now.faults >= 2 => Now'.faults >= 2
  BY <1>1
<1>3. Now'.steady \subseteq Now.steady
  BY <1>1
<1>4. ~ Now'.quiet \/ (Now'.quiet = Now.quiet /\ Now'.gates = Now.gates /\ Now'.prs = Now.prs)
  BY <1>1
<1> QED
  BY <1>2, <1>3, <1>4, HoldsLater, Zenon

\* A page of a repository is short of a pull request only if it is truncated.
LEMMA PageHolds ==
  ASSUME BoardType, SteadyAreOpen, NEW r \in Repo, NEW shown \in SUBSET Number,
         shown \subseteq DOMAIN prs[r],
         Cardinality(shown) = Least(PrPage, Cardinality(DOMAIN prs[r]))
  PROVE  Holds(r, ReadOf(r, shown), Now)
<1> DEFINE all  == DOMAIN prs[r]
           read == ReadOf(r, shown)
<1>1. IsFiniteSet(all) /\ Cardinality(all) \in Nat /\ PrPage \in Nat
  BY SizeAssumption, FS_CardinalityType DEF BoardType
<1>2. /\ read.kind = "read" /\ read.gate = GateOf(gates[r])
      /\ DOMAIN read.found = shown /\ \A n \in shown : read.found[n] = prs[r][n]
      /\ read.truncated = (Cardinality(all) > Cardinality(shown))
  BY DEF ReadOf
<1>3. IsFiniteSet(shown) /\ Cardinality(shown) \in Nat /\ Cardinality(shown) <= Cardinality(all)
      /\ (shown # all => Cardinality(shown) < Cardinality(all))
  <2>1. IsFiniteSet(shown) /\ Cardinality(shown) <= Cardinality(all)
        /\ (shown # all => Cardinality(shown) # Cardinality(all))
    BY <1>1, FS_Subset
  <2>2. Cardinality(shown) \in Nat
    BY <2>1, FS_CardinalityType
  <2> QED
    BY <1>1, <2>1, <2>2
<1>4. read.truncated <=> Cardinality(all) > PrPage
  <2>1. Cardinality(shown) = IF PrPage < Cardinality(all) THEN PrPage ELSE Cardinality(all)
    BY DEF Least
  <2>2. (Cardinality(all) > Cardinality(shown)) <=> (Cardinality(all) > PrPage)
    BY <1>1, <2>1
  <2> QED
    BY <1>2, <2>2
<1>5. ASSUME NEW d \in steady, d[1] = r
      PROVE  d[2] \in DOMAIN read.found \/ read.truncated
  <2>1. d[2] \in all
    BY <1>5 DEF SteadyAreOpen, Open
  <2>2. d[2] \in shown \/ shown # all
    BY <2>1
  <2>3. d[2] \in shown \/ read.truncated
    BY <1>1, <1>2, <1>3, <2>2
  <2> QED
    BY <1>2, <2>3
<1> HIDE DEF read
<1>6. \A n \in DOMAIN read.found : n \in DOMAIN prs[r] /\ read.found[n] = prs[r][n]
  BY <1>2
<1>7. read.kind # "unavailable"
  BY <1>2
<1> DEFINE now == Now
<1>8. now.steady = steady /\ now.gates = gates /\ now.prs = prs
  BY DEF Now
<1> HIDE DEF now
<1>9. Holds(r, read, now)
  BY <1>2, <1>4, <1>5, <1>6, <1>7, <1>8, Zenon DEF Holds
<1> QED
  BY <1>9 DEF read, now

\* A failure that is owed to size or budget is a read as good as any.
LEMMA UnreadHolds ==
  ASSUME NEW r, NEW why, why = "failed" => r \in Heavy \/ faults >= 2
  PROVE  Holds(r, Unread(why), Now)
BY DEF Holds, Unread, Now

\* The reads go on in order, with at most three queries for each.
LEMMA ReadingStep ==
  ASSUME BoardType, SteadyAreOpen, ListingInv, WorkInv, ReadsInv, [Next]_vars, BoardType'
  PROVE  WorkInv' /\ ReadsInv'
<1>1. CASE GitHub
  <2>1. /\ UNCHANGED <<pc, withPrs, work, reads, queries, faults>>
        /\ quiet' = FALSE /\ steady' \subseteq steady
    BY <1>1, GitHubFrame
  <2>2. WorkInv'
    BY <2>1 DEF WorkInv, Retried
  <2>3. ASSUME NEW r, NEW read, Holds(r, read, Now) PROVE Holds(r, read, Now')
    <3>1. faults \in Nat /\ faults' \in Nat /\ faults' >= faults
      BY <2>1 DEF BoardType
    <3> QED
      BY <2>1, <2>3, <3>1, HoldsOn
  <2>4. ASSUME pc' = "reading", NEW i \in 1..Len(reads') PROVE Holds(withPrs'[i], reads'[i], Now')
    BY <2>1, <2>3, <2>4 DEF ReadsInv
  <2> QED
    BY <2>2, <2>4 DEF ReadsInv
<1>2. CASE ListRepos
  <2> SUFFICES ASSUME pc' = "reading" PROVE WorkInv' /\ ReadsInv'
    BY DEF WorkInv, ReadsInv
  <2>1. pc = "listing" /\ reads' = reads /\ queries' = queries
    BY <1>2, ListingFrame
  <2>2. reads' = <<>> /\ queries' = 0
    BY <2>1 DEF ListingInv, BoardType
  <2>3. work' = Chunks(Len(withPrs'))
    BY <1>2, <2>1 DEF ListRepos, Exit
  <2>4. Len(withPrs') \in Nat
    BY LenProperties DEF BoardType
  <2>5. /\ InOrder(work', 0, Len(withPrs'))
        /\ work' # <<>> => work'[1].retries = 1
    BY <2>3, <2>4, ChunksInOrder
  <2>6. IsSeq(<<>>) /\ Len(<<>>) = 0
    BY EmptySeq DEF IsSeq
  <2>7. Retried' = 0
    BY <2>5 DEF Retried
  <2>8. Len(work') \in Nat
    BY <2>5, BatchesOf DEF InOrder
  <2>9. IsSeq(reads') /\ InOrder(work', Len(reads'), Len(withPrs'))
    BY <2>2, <2>5, <2>6
  <2>10. queries' <= 3 * Len(reads') + Len(work') + Retried'
    BY <2>2, <2>6, <2>7, <2>8
  <2>11. ~ (Retried' = 1)
    BY <2>7
  <2>12. WorkInv'
    BY <2>9, <2>10, <2>11, Zenon DEF WorkInv
  <2>13. ReadsInv'
    BY <2>2, <2>6 DEF ReadsInv
  <2> QED
    BY <2>12, <2>13
<1>3. CASE Begin \/ ListBreaks \/ ListRefused
  BY <1>3 DEF Begin, ListBreaks, ListRefused, Exit, WorkInv, ReadsInv
<1>4. ASSUME NEW F, NEW new \in [1..Size -> F], pc = "reading", work # <<>>,
             reads' = reads \o new, work' = Tail(work), UNCHANGED <<pc, withPrs, steady, quiet, gates, prs>>,
             queries' <= queries + 1, faults' >= faults,
             \A i \in 1..Size : Holds(withPrs[Task.first + i - 1], new[i], Now')
      PROVE  WorkInv' /\ ReadsInv'
  <2>1. queries \in Nat /\ queries' \in Nat /\ faults \in Nat /\ faults' \in Nat
    BY DEF BoardType
  <2>2. /\ WorkInv'
        /\ Len(reads') = Len(reads) + Size
        /\ \A i \in 1..Len(reads) : reads'[i] = reads[i]
        /\ \A i \in 1..Size : reads'[Len(reads) + i] = new[i]
    BY <1>4, <2>1, BatchIsRead
  <2>3. /\ Len(reads) \in Nat /\ Size \in Nat
        /\ \A i \in 1..Size : Task.first + i - 1 = Len(reads) + i
    BY <1>4, TaskIsNext
  <2>4. ASSUME NEW i \in 1..Len(reads') PROVE Holds(withPrs[i], reads'[i], Now')
    <3>1. CASE i \in 1..Len(reads)
      <4>1. Holds(withPrs[i], reads[i], Now)
        BY <1>4, <3>1 DEF ReadsInv
      <4>2. Holds(withPrs[i], reads[i], Now')
        BY <1>4, <2>1, <4>1, HoldsOn
      <4> QED
        BY <1>4, <2>2, <3>1, <4>2
    <3>2. CASE i - Len(reads) \in 1..Size
      <4> DEFINE j == i - Len(reads)
      <4>1. j \in 1..Size /\ i = Len(reads) + j /\ Task.first + j - 1 = i
        <5>1. j \in 1..Size /\ i \in Int
          BY <2>2, <2>3, <2>4, <3>2
        <5>2. i = Len(reads) + j
          BY <2>3, <5>1
        <5> QED
          BY <2>3, <5>1, <5>2
      <4> HIDE DEF j
      <4>2. reads'[i] = new[j]
        BY <2>2, <4>1
      <4>3. Holds(withPrs[i], new[j], Now')
        BY <1>4, <4>1
      <4> QED
        BY <4>2, <4>3
    <3>3. i \in 1..Len(reads) \/ i - Len(reads) \in 1..Size
      BY <2>2, <2>3, <2>4
    <3> QED
      BY <3>1, <3>2, <3>3
  <2> QED
    BY <1>4, <2>2, <2>4 DEF ReadsInv
<1>5. CASE SkipBatch
  <2> DEFINE new == [i \in 1..Size |-> Unread("exhausted")]
  <2>1. /\ pc = "reading" /\ work # <<>> /\ reads' = reads \o new /\ work' = Tail(work)
        /\ UNCHANGED <<pc, withPrs, steady, quiet, gates, prs, queries, faults>>
    BY <1>5 DEF SkipBatch, github, result, past
  <2>2. new \in [1..Size -> {Unread("exhausted")}]
    OBVIOUS
  <2>3. \A i \in 1..Size : Holds(withPrs[Task.first + i - 1], new[i], Now')
    <3>1. \A r : Holds(r, Unread("exhausted"), Now')
      BY DEF Holds, Unread
    <3> QED
      BY <3>1
  <2>4. queries' <= queries + 1 /\ faults' >= faults
    BY <2>1 DEF BoardType
  <2> HIDE DEF new
  <2> QED
    BY <1>4, <2>1, <2>2, <2>3, <2>4
<1>6. CASE ReadBatch
  <2>1. PICK null \in SUBSET (InTask \cap (Heavy \cup (Repo \ repos))), shown \in Pages :
          reads' = reads \o
            [i \in 1..Size |->
               LET r == withPrs[Task.first + i - 1]
               IN IF r \in null THEN Unread("null") ELSE ReadOf(r, shown[r])]
    BY <1>6 DEF ReadBatch
  <2> DEFINE At(i) == withPrs[Task.first + i - 1]
             Given(r) == IF r \in null THEN Unread("null") ELSE ReadOf(r, shown[r])
             new == [i \in 1..Size |-> Given(At(i))]
  <2>2. reads' = reads \o new
    BY <2>1
  <2>3. /\ pc = "reading" /\ work # <<>> /\ work' = Tail(work)
        /\ UNCHANGED <<pc, withPrs, steady, quiet, gates, prs, faults>>
        /\ queries' = queries + 1
    BY <1>6 DEF ReadBatch, github, result, past
  <2>4. \A i \in 1..Size : Task.first + i - 1 \in 1..Len(withPrs) /\ Task.first + i - 1 \in Task.first..Task.last
    BY <2>3, TaskIsNext
  <2>5. \A i \in 1..Size : At(i) \in Repo /\ At(i) \in InTask
    BY <2>4, ElementOfSeq DEF BoardType, InTask
  <2>6. /\ \A r \in InTask : shown[r] \in SUBSET Number /\ shown[r] \subseteq DOMAIN prs[r]
        /\ \A r \in InTask : Cardinality(shown[r]) = Least(PrPage, Cardinality(DOMAIN prs[r]))
    BY DEF Pages
  <2>7. ASSUME NEW i \in 1..Size
        PROVE  Holds(At(i), Given(At(i)), Now)
    <3>1. CASE At(i) \in null
      BY <3>1, UnreadHolds
    <3>2. CASE At(i) \notin null
      BY <2>5, <2>6, <3>2, PageHolds
    <3> QED
      BY <3>1, <3>2
  <2>8. Now' = Now
    BY <2>3 DEF Now
  <2> HIDE DEF At, Given
  <2>9. new \in [1..Size -> {Given(At(i)) : i \in 1..Size}] /\ \A i \in 1..Size : new[i] = Given(At(i))
    OBVIOUS
  <2>10. \A i \in 1..Size : Holds(withPrs[Task.first + i - 1], new[i], Now')
    BY <2>7, <2>8, <2>9 DEF At
  <2>11. queries' <= queries + 1 /\ faults' >= faults
    BY <2>3 DEF BoardType
  <2> HIDE DEF new
  <2> QED
    BY <1>4, <2>2, <2>3, <2>9, <2>10, <2>11
<1>7. CASE BatchFails
  <2>1. /\ pc = "reading" /\ work # <<>> /\ queries' = queries + 1
        /\ UNCHANGED <<pc, withPrs, steady, quiet, gates, prs>>
        /\ \/ InTask \cap Heavy # {} /\ faults' = faults
           \/ faults' = faults + 1
    BY <1>7 DEF BatchFails, github, result
  <2>2. faults \in Nat /\ faults' \in Nat /\ faults' >= faults /\ queries \in Nat
    BY <2>1 DEF BoardType
  <2>3. /\ Len(reads) \in Nat /\ Len(withPrs) \in Nat /\ Len(work) \in Nat /\ Len(work) >= 1
        /\ work[1] \in OneBatch /\ Task = work[1] /\ Task = Head(work)
        /\ Task.first = Len(reads) + 1 /\ Task.last \in Nat
        /\ Task.first <= Task.last /\ Task.last <= Len(withPrs)
        /\ Size \in Nat /\ Size >= 1
    BY <2>1, TaskIsNext DEF Task
  <2>4. /\ IsSeq(reads) /\ InOrder(work, Len(reads), Len(withPrs))
        /\ queries <= 3 * Len(reads) + Len(work) + Retried
        /\ Retried = 1 => withPrs[Task.first] \in Heavy \/ faults >= 1
    BY <2>1, <2>3 DEF WorkInv
  <2>5. Retried \in {0, 1} /\ (Retried = 1 <=> Task.retries = 0)
    BY <2>1, <2>3 DEF Retried
  \* What was split or is tried again has not been read.
  <2>6. ASSUME reads' = reads, InOrder(work', Len(reads), Len(withPrs)),
               queries' <= 3 * Len(reads) + Len(work') + Retried',
               Retried' = 1 => withPrs[work'[1].first] \in Heavy \/ faults' >= 1
        PROVE  WorkInv' /\ ReadsInv'
    <3>1. WorkInv'
      BY <2>1, <2>4, <2>6 DEF WorkInv
    <3>2. ASSUME NEW i \in 1..Len(reads) PROVE Holds(withPrs[i], reads[i], Now')
      <4>1. Holds(withPrs[i], reads[i], Now)
        BY <2>1, <3>2 DEF ReadsInv
      <4> QED
        BY <2>1, <2>2, <4>1, HoldsOn
    <3>3. ReadsInv'
      BY <2>1, <2>6, <3>2 DEF ReadsInv
    <3> QED
      BY <3>1, <3>3
  <2>7. CASE Size > 1 /\ work' = Halves(Task) \o Tail(work) /\ reads' = reads
    <3>1. work[1].last - work[1].first + 1 > 1
      BY <2>3, <2>7 DEF Size
    <3>2. /\ InOrder(work', Len(reads), Len(withPrs)) /\ Len(work') = Len(work) + 1
          /\ work'[1].retries = Task.retries
      BY <2>1, <2>3, <2>4, <2>7, <3>1, HalvesInOrder
    <3>3. Task.retries # 0
      <4>1. 1 \in 1..Len(work)
        BY <2>3
      <4>2. Task.retries = 0 => Task.first = Task.last
        BY <2>3, <2>4, <4>1 DEF InOrder
      <4> QED
        BY <2>3, <2>7, <4>2 DEF Size
    <3>4. Retried' = 0 /\ Retried = 0
      BY <2>5, <3>2, <3>3 DEF Retried
    <3>5. queries' <= 3 * Len(reads) + Len(work') + Retried'
      BY <2>1, <2>2, <2>3, <2>4, <3>2, <3>4
    <3> QED
      BY <2>6, <2>7, <3>2, <3>4, <3>5
  <2>8. CASE Size = 1 /\ Task.retries > 0 /\ work' = <<[Task EXCEPT !.retries = @ - 1]>> \o Tail(work) /\ reads' = reads
    <3>1. work[1].first = work[1].last /\ work[1].retries > 0
      BY <2>3, <2>8 DEF Size, OneBatch
    <3>2. /\ InOrder(work', Len(reads), Len(withPrs)) /\ Len(work') = Len(work) /\ work' # <<>>
          /\ work'[1].retries = 0 /\ work'[1].first = Task.first
      BY <2>1, <2>3, <2>4, <2>8, <3>1, RetryInOrder
    <3>3. Retried' = 1 /\ Retried = 0
      BY <2>5, <2>8, <3>2 DEF Retried
    <3>4. queries' <= 3 * Len(reads) + Len(work') + Retried'
      BY <2>1, <2>2, <2>3, <2>4, <3>2, <3>3
    <3>5. InTask = {withPrs[Task.first]}
      <4>1. Task.first..Task.last = {Task.first}
        BY <2>3, <3>1
      <4> QED
        BY <4>1 DEF InTask
    <3>6. withPrs[work'[1].first] \in Heavy \/ faults' >= 1
      BY <2>1, <2>2, <3>2, <3>5
    <3> QED
      BY <2>6, <2>8, <3>2, <3>4, <3>6
  <2>9. CASE Size = 1 /\ Task.retries = 0 /\ work' = Tail(work) /\ reads' = Append(reads, Unread("failed"))
    <3> DEFINE new == <<Unread("failed")>>
    <3>1. reads' = reads \o new
      <4>1. PICK S : reads \in Seq(S)
        BY <2>4 DEF IsSeq
      <4> QED
        BY <2>9, <4>1
    <3>2. new \in [1..Size -> {Unread("failed")}]
      BY <2>9
    <3>3. InTask = {withPrs[Task.first]}
      <4>1. Task.first..Task.last = {Task.first}
        BY <2>3, <2>9 DEF Size
      <4> QED
        BY <4>1 DEF InTask
    <3>4. withPrs[Task.first] \in Heavy \/ faults' >= 2
      BY <2>1, <2>2, <2>4, <2>5, <2>9, <3>3
    <3>5. ASSUME NEW i \in 1..Size PROVE Holds(withPrs[Task.first + i - 1], new[i], Now')
      <4>1. i = 1 /\ Task.first + i - 1 = Task.first /\ new[i] = Unread("failed")
        BY <2>3, <2>9
      <4>2. Now'.faults = faults'
        BY DEF Now
      <4>3. Holds(withPrs[Task.first], Unread("failed"), Now')
        BY <3>4, <4>2 DEF Holds, Unread
      <4> QED
        BY <4>1, <4>3
    <3>6. queries' <= queries + 1
      BY <2>1, <2>2
    <3> HIDE DEF new
    <3> QED
      BY <1>4, <2>1, <2>2, <2>9, <3>1, <3>2, <3>5, <3>6
  <2> QED
    BY <1>7, <2>7, <2>8, <2>9 DEF BatchFails
<1>8. CASE \/ Build \/ Output \/ OutputFails
           \/ \E stored \in {Text(board), Foreign("nobody"), Foreign("other")}, answered \in BOOLEAN :
                Publish(stored, answered)
  <2>1. pc' \in {"built", "publishing", "idle"}
    BY <1>8, ResultFrame
  <2> QED
    BY <2>1 DEF WorkInv, ReadsInv
<1>9. CASE UNCHANGED vars
  <2>1. Now' = Now /\ UNCHANGED <<pc, withPrs, work, reads, queries, faults>>
    BY <1>9, StutterFrame DEF Now
  <2> QED
    BY <2>1 DEF WorkInv, ReadsInv, Retried
<1> QED
  BY <1>1, <1>2, <1>3, <1>5, <1>6, <1>7, <1>8, <1>9, Zenon DEF Next, Run

-----------------------------------------------------------------------------
(***************************************************************************)
(* The invariant of the reads, and what it bounds.                         *)
(***************************************************************************)
BoardInv == BoardType /\ SteadyAreOpen /\ ListingInv /\ WorkInv /\ ReadsInv

\* The invariant holds at first.
LEMMA BoardInvInit == Init => BoardInv
<1> SUFFICES ASSUME Init PROVE BoardInv
  OBVIOUS
<1>1. BoardType
  BY BoardTypeInit
<1>2. pc = "idle" /\ quiet = FALSE /\ steady = {}
  BY DEF Init
<1> QED
  BY <1>1, <1>2 DEF BoardInv, SteadyAreOpen, ListingInv, WorkInv, ReadsInv

\* Every step keeps the invariant.
LEMMA BoardInvStep == BoardInv /\ [Next]_vars => BoardInv'
<1> SUFFICES ASSUME BoardInv, [Next]_vars PROVE BoardInv'
  OBVIOUS
<1>1. BoardType /\ SteadyAreOpen /\ ListingInv /\ WorkInv /\ ReadsInv
  BY DEF BoardInv
<1>2. BoardType'
  BY <1>1, BoardTypeStep
<1>3. SteadyAreOpen'
  BY <1>1, SteadyStep
<1>4. ListingInv'
  BY <1>1, ListingStep
<1>5. WorkInv' /\ ReadsInv'
  BY <1>1, <1>2, ReadingStep
<1> QED
  BY <1>2, <1>3, <1>4, <1>5 DEF BoardInv

\* The pages leave no gap and the batches are read in order: the invariant of
\* every run of the process, whatever changes and fails meanwhile.
THEOREM ReadsAreInOrder == Spec => []BoardInv
<1>1. Init => BoardInv
  BY BoardInvInit
<1>2. BoardInv /\ [Next]_vars => BoardInv'
  BY BoardInvStep
<1> QED
  BY <1>1, <1>2, PTL DEF Spec

\* At any number of repositories, batches and failures, the process puts at
\* most three queries for each repository that it reads.
THEOREM QueriesBoundedAlways == Spec => []QueriesBounded
<1>1. BoardInv => QueriesBounded
  <2> SUFFICES ASSUME BoardInv PROVE QueriesBounded
    OBVIOUS
  <2>1. BoardType /\ WorkInv
    BY DEF BoardInv
  <2>2. Len(withPrs) \in Nat /\ queries \in Nat
    BY <2>1, LenProperties DEF BoardType
  <2>3. CASE pc # "reading"
    BY <2>1, <2>2, <2>3 DEF BoardType, QueriesBounded
  <2>4. CASE pc = "reading" /\ work = <<>>
    <3>1. InOrder(work, Len(reads), Len(withPrs)) /\ queries <= 3 * Len(reads) + Len(work) + Retried
      BY <2>1, <2>4 DEF WorkInv
    <3>2. Len(reads) = Len(withPrs) /\ Len(work) = 0 /\ Retried = 0
      BY <2>4, <3>1 DEF InOrder, Retried
    <3> QED
      BY <2>2, <3>1, <3>2 DEF QueriesBounded
  <2>5. CASE pc = "reading" /\ work # <<>>
    <3>1. InOrder(work, Len(reads), Len(withPrs)) /\ queries <= 3 * Len(reads) + Len(work) + Retried
      BY <2>1, <2>5 DEF WorkInv
    <3>2. /\ Len(reads) \in Nat /\ Len(work) \in Nat /\ Len(work) >= 1
          /\ Task = work[1] /\ Task.first = Len(reads) + 1 /\ Task.last \in Nat
          /\ Task.first <= Task.last /\ Task.last <= Len(withPrs)
      BY <2>1, <2>5, TaskIsNext
    <3>3. Len(work) - 1 <= Len(withPrs) - Task.last
      BY <3>1, <3>2 DEF InOrder
    <3>4. Retried \in {0, 1}
      BY DEF Retried
    <3>5. queries <= 3 * Len(withPrs)
      BY <2>2, <3>1, <3>2, <3>3, <3>4
    <3> QED
      BY <3>5 DEF QueriesBounded
  <2> QED
    BY <2>3, <2>4, <2>5
<1> QED
  BY <1>1, ReadsAreInOrder, PTL

-----------------------------------------------------------------------------
(***************************************************************************)
(* The board.                                                              *)
(***************************************************************************)
\* When it is built every position was read.
LEMMA EveryPositionRead ==
  ASSUME BoardInv, Build
  PROVE  /\ pc = "reading" /\ Len(reads) = Len(withPrs) /\ Positions = 1..Len(reads)
         /\ \A i \in Positions : Holds(withPrs[i], reads[i], Now)
<1>1. pc = "reading" /\ work = <<>>
  BY DEF Build
<1>2. Len(reads) = Len(withPrs)
  BY <1>1 DEF BoardInv, WorkInv, InOrder
<1>3. Positions = 1..Len(withPrs)
  BY LenProperties DEF Positions, BoardInv, BoardType
<1> QED
  BY <1>1, <1>2, <1>3 DEF BoardInv, ReadsInv

\* Every repository owed a line of the board keeps it.
LEMMA OwedStep ==
  ASSUME BoardInv, OwedInv, [Next]_vars
  PROVE  OwedInv'
<1>1. CASE Build
  <2>1. board' = Built /\ owed' = steady /\ exit' = exit /\ pc' = "built"
    BY <1>1 DEF Build
  <2>2. /\ pc = "reading" /\ \A i \in Positions : Holds(withPrs[i], reads[i], Now)
    BY <1>1, EveryPositionRead
  <2>3. ASSUME NEW d \in steady
        PROVE  (\E p \in Built.placed : p.repo = d[1] /\ p.number = d[2]) \/ d[1] \in Gaps(Built)
    <3>1. PICK i \in Positions : withPrs[i] = d[1]
      BY <2>2 DEF BoardInv, ListingInv, Passed, Listed, Positions
    <3>2. Holds(d[1], reads[i], Now) /\ Now.steady = steady
      BY <2>2, <3>1 DEF Now
    <3>3. CASE i \in Readable
      <4>1. d[2] \in DOMAIN reads[i].found \/ reads[i].truncated
        BY <3>2, <3>3 DEF Holds, Readable
      <4>2. CASE d[2] \in DOMAIN reads[i].found
        <5> DEFINE p == [repo |-> withPrs[i], number |-> d[2],
                         reason |-> Classify(reads[i].found[d[2]], reads[i].gate)]
        <5>1. p \in Built.placed
          BY <3>3, <4>2 DEF Built
        <5>2. p.repo = d[1] /\ p.number = d[2]
          BY <3>1
        <5> QED
          BY <5>1, <5>2
      <4>3. CASE reads[i].truncated
        <5>1. withPrs[i] \in Built.truncated
          BY <3>3, <4>3 DEF Built
        <5> QED
          BY <3>1, <5>1 DEF Gaps
      <4> QED
        BY <4>1, <4>2, <4>3
    <3>4. CASE i \notin Readable
      <4>1. <<withPrs[i], reads[i].why>> \in Built.unavailable
        BY <3>4 DEF Built
      <4>2. <<withPrs[i], reads[i].why>>[1] = d[1]
        BY <3>1
      <4> QED
        BY <4>1, <4>2 DEF Gaps
    <3> QED
      BY <3>3, <3>4
  <2>4. exit' = "none"
    BY <2>1, <2>2 DEF BoardInv, BoardType
  <2> QED
    BY <2>1, <2>3, <2>4 DEF OwedInv
<1>2. ASSUME ~ Ready' PROVE OwedInv'
  BY <1>2 DEF OwedInv
<1>3. ASSUME Ready' => Ready, board' = board, owed' = owed, exit' = "0" => exit = "0" \/ Gaps(board) = {}
      PROVE  OwedInv'
  BY <1>3 DEF OwedInv
<1>4. CASE GitHub
  <2>1. UNCHANGED <<pc, board, owed, exit>>
    BY <1>4, GitHubFrame
  <2> QED
    BY <1>3, <2>1 DEF Ready
<1>5. CASE Begin
  BY <1>2, <1>5 DEF Begin, Ready
<1>6. CASE ListRepos \/ ListBreaks \/ ListRefused
  <2>1. (pc' = "idle" /\ exit' = "2") \/ (pc' \in {"listing", "reading"} /\ exit' = exit)
    BY <1>6, ListingFrame
  <2>2. pc = "listing"
    BY <1>6, ListingFrame
  <2>3. exit = "none"
    BY <2>2 DEF BoardInv, BoardType
  <2> QED
    BY <1>2, <2>1, <2>3 DEF Ready
<1>7. CASE SkipBatch \/ ReadBatch \/ BatchFails
  <2>1. pc = "reading" /\ UNCHANGED <<pc, exit>>
    BY <1>7, ReadingFrame
  <2> QED
    BY <1>2, <2>1 DEF Ready, BoardInv, BoardType
<1>8. CASE Output
  <2>1. /\ pc = "built" /\ board' = board /\ owed' = owed
        /\ exit' = exit \/ exit' = ExitCode(board)
    BY <1>8 DEF Output, Exit, past
  <2> QED
    BY <1>3, <2>1 DEF Ready, ExitCode
<1>9. CASE OutputFails
  <2>1. pc' = "idle" /\ exit' = "2"
    BY <1>9 DEF OutputFails, Exit
  <2> QED
    BY <1>2, <2>1 DEF Ready
<1>10. ASSUME NEW stored, NEW answered, Publish(stored, answered) PROVE OwedInv'
  <2>1. /\ pc = "publishing" /\ board' = board /\ owed' = owed
        /\ exit' = "2" \/ exit' = ExitCode(board)
    BY <1>10, Zenon DEF Publish, Exit, past
  <2> QED
    BY <1>3, <2>1 DEF Ready, ExitCode
<1>11. CASE UNCHANGED vars
  <2>1. UNCHANGED <<pc, board, owed, exit>>
    BY <1>11, StutterFrame
  <2> QED
    BY <1>3, <2>1 DEF Ready
<1> QED
  BY <1>1, <1>4, <1>5, <1>6, <1>7, <1>8, <1>9, <1>10, <1>11, Zenon DEF Next, Run

\* For any sizes of pages and batches and any changes and failures: a pull
\* request that was open all along is on the board, or its repository is named
\* as a gap and the run does not say that the board is complete.
THEOREM NothingDroppedAlways == Spec => []NothingDropped
<1>1. Init => OwedInv
  BY DEF Init, OwedInv, Ready
<1>2. BoardInv /\ OwedInv /\ [Next]_vars => OwedInv'
  BY OwedStep
<1>3. OwedInv => NothingDropped
  BY DEF OwedInv, NothingDropped
<1> QED
  BY <1>1, <1>2, <1>3, ReadsAreInOrder, PTL DEF Spec

\* No step loses a light repository.
LEMMA HeavyStep ==
  ASSUME BoardInv, OnlyTheHeavyFail, [Next]_vars
  PROVE  OnlyTheHeavyFail'
<1>1. faults \in Nat
  BY DEF BoardInv, BoardType
<1>2. ASSUME board' = board, faults' >= faults, faults' \in Nat PROVE OnlyTheHeavyFail'
  BY <1>1, <1>2 DEF OnlyTheHeavyFail
<1>3. faults' \in Nat
  <2>1. BoardType'
    BY BoardTypeStep DEF BoardInv
  <2> QED
    BY <2>1 DEF BoardType
<1>4. CASE Begin
  BY <1>4 DEF Begin, EmptyBoard, OnlyTheHeavyFail
<1>5. CASE Build
  <2>1. board' = Built /\ faults' = faults
    BY <1>5 DEF Build
  <2>2. ASSUME NEW u \in Built.unavailable, u[2] = "failed" PROVE u[1] \in Heavy \/ faults >= 2
    <3>1. PICK i \in Positions \ Readable : u = <<withPrs[i], reads[i].why>>
      BY DEF Built
    <3>2. Holds(withPrs[i], reads[i], Now) /\ Now.faults = faults
      BY <1>5, EveryPositionRead DEF Now
    <3>3. reads[i].kind = "unavailable" /\ reads[i].why = "failed"
      BY <2>2, <3>1, <3>2 DEF Holds, Readable
    <3> QED
      BY <3>1, <3>2, <3>3 DEF Holds
  <2> QED
    BY <2>1, <2>2 DEF OnlyTheHeavyFail
<1>6. CASE GitHub
  BY <1>1, <1>2, <1>3, <1>6, GitHubFrame
<1>7. CASE ListRepos \/ ListBreaks \/ ListRefused
  BY <1>1, <1>2, <1>3, <1>7, ListingFrame
<1>8. CASE SkipBatch \/ ReadBatch \/ BatchFails
  <2>1. board' = board
    BY <1>8, ReadingFrame
  <2>2. faults' = faults \/ faults' = faults + 1
    BY <1>8 DEF SkipBatch, ReadBatch, BatchFails, past
  <2> QED
    BY <1>1, <1>2, <1>3, <2>1, <2>2
<1>9. CASE \/ Output \/ OutputFails
           \/ \E stored \in {Text(board), Foreign("nobody"), Foreign("other")}, answered \in BOOLEAN :
                Publish(stored, answered)
  <2>1. board' = board /\ faults' = faults
    BY <1>9, Zenon DEF Output, OutputFails, Publish, past
  <2> QED
    BY <1>1, <1>2, <1>3, <2>1
<1>10. CASE UNCHANGED vars
  BY <1>1, <1>2, <1>3, <1>10, StutterFrame
<1> QED
  BY <1>4, <1>5, <1>6, <1>7, <1>8, <1>9, <1>10, Zenon DEF Next, Run

\* A repository is given up only if it is heavy itself or two transient failures
\* happened: no batch takes its neighbours down, however it is split.
THEOREM OnlyTheHeavyFailAlways == Spec => []OnlyTheHeavyFail
<1>1. Init => OnlyTheHeavyFail
  BY DEF Init, EmptyBoard, OnlyTheHeavyFail
<1>2. BoardInv /\ OnlyTheHeavyFail /\ [Next]_vars => OnlyTheHeavyFail'
  BY HeavyStep
<1> QED
  BY <1>1, <1>2, ReadsAreInOrder, PTL DEF Spec

\* What is published is what was sent.
LEMMA PublishedStep ==
  ASSUME BoardInv, PublishedAsSent, [Next]_vars
  PROVE  PublishedAsSent'
<1>1. ASSUME UNCHANGED <<publish, exit, body, board>> PROVE PublishedAsSent'
  <2>1. Text(board)' = Text(board) /\ Rows(board, body.cap)' = Rows(board, body.cap)
    BY <1>1
  <2> QED
    BY <1>1, <2>1 DEF PublishedAsSent
<1>2. ASSUME exit' \notin {"0", "6"} PROVE PublishedAsSent'
  BY <1>2 DEF PublishedAsSent
<1>3. ASSUME pc # "idle", exit' = exit PROVE PublishedAsSent'
  <2>1. exit = "none"
    BY <1>3 DEF BoardInv, BoardType
  <2> QED
    BY <1>2, <1>3, <2>1
<1>4. CASE GitHub
  BY <1>1, <1>4, GitHubFrame
<1>5. CASE Begin
  BY <1>2, <1>5 DEF Begin
<1>6. CASE ListRepos \/ ListBreaks \/ ListRefused
  <2>1. pc = "listing" /\ exit' \in {"2", exit}
    BY <1>6, ListingFrame
  <2> QED
    BY <1>2, <1>3, <2>1
<1>7. CASE SkipBatch \/ ReadBatch \/ BatchFails
  BY <1>3, <1>7, ReadingFrame
<1>8. CASE Build
  BY <1>3, <1>8 DEF Build
<1>9. CASE Output
  <2>1. pc = "built" /\ publish' \in BOOLEAN /\ (publish' => exit' = exit)
    BY <1>9 DEF Output
  <2> QED
    BY <1>3, <2>1 DEF PublishedAsSent
<1>10. CASE OutputFails
  BY <1>2, <1>10 DEF OutputFails, Exit
<1>11. ASSUME NEW stored, NEW answered, Publish(stored, answered) PROVE PublishedAsSent'
  <2>1. /\ stored = Text(board) => Rows(board, Cap(board)) <= MaxBody
        /\ body' = stored /\ board' = board
        /\ exit' = IF answered /\ stored = Text(board) THEN ExitCode(board) ELSE "2"
    BY <1>11, Zenon DEF Publish, Exit
  <2>2. CASE stored = Text(board)
    <3>1. Text(board).cap = Cap(board)
      BY DEF Text
    <3>2. body' = Text(board) /\ Rows(board, Text(board).cap) <= MaxBody
      BY <2>1, <2>2, <3>1
    <3>3. Text(board') = Text(board)
      BY <2>1
    <3>4. body' = Text(board') /\ Rows(board', body'.cap) <= MaxBody
      BY <2>1, <3>2, <3>3
    <3> QED
      BY <3>4 DEF PublishedAsSent
  <2>3. CASE stored # Text(board)
    BY <1>2, <2>1, <2>3
  <2> QED
    BY <2>2, <2>3
<1>12. CASE UNCHANGED vars
  BY <1>1, <1>12, StutterFrame
<1> QED
  BY <1>4, <1>5, <1>6, <1>7, <1>8, <1>9, <1>10, <1>11, <1>12, Zenon DEF Next, Run

\* A publishing run that does not exit 2 has had its board stored whole.
THEOREM PublishedAsSentAlways == Spec => []PublishedAsSent
<1>1. Init => PublishedAsSent
  BY DEF Init, PublishedAsSent
<1>2. BoardInv /\ PublishedAsSent /\ [Next]_vars => PublishedAsSent'
  BY PublishedStep
<1> QED
  BY <1>1, <1>2, ReadsAreInOrder, PTL DEF Spec

-----------------------------------------------------------------------------
(***************************************************************************)
(* No repository is listed twice, if no two owners share one; then the     *)
(* board of a quiet run is exact.                                          *)
(***************************************************************************)
\* With owners apart, no step lists a repository twice.
LEMMA ListedOnceStep ==
  ASSUME OwnersDiffer, BoardType, ListedOnce, [Next]_vars
  PROVE  ListedOnce'
<1>1. ASSUME UNCHANGED <<pc, owner, cursor, withPrs>> PROVE ListedOnce'
  BY <1>1 DEF ListedOnce, Passed
<1>2. ASSUME pc' \notin {"listing", "reading"} PROVE ListedOnce'
  BY <1>2 DEF ListedOnce
<1>3. CASE GitHub
  BY <1>1, <1>3, GitHubFrame
<1>4. CASE Begin
  <2>1. withPrs' = <<>>
    BY <1>4 DEF Begin
  <2>2. DOMAIN withPrs' = {}
    BY <2>1
  <2> QED
    BY <2>2 DEF ListedOnce
<1>5. CASE ListRepos
  <2> SUFFICES ASSUME pc' # "idle" PROVE ListedOnce'
    BY DEF ListedOnce
  <2> DEFINE n == Len(withPrs)
             k == Cardinality(Found)
  <2>1. /\ n \in Nat /\ k \in Nat /\ Found \in SUBSET Nat /\ IsFiniteSet(Found)
        /\ withPrs' \in Seq(Repo) /\ Len(withPrs') = n + k
        /\ \A i \in 1..n : withPrs'[i] = withPrs[i]
        /\ \A i \in 1..k : withPrs'[n + i] = Sorted(Found)[i] /\ withPrs'[n + i] \in Found
    BY <1>5, PageIsAppended
  <2>2. \A i, j \in 1..k : i < j => Sorted(Found)[i] < Sorted(Found)[j]
    BY <2>1, SortedProperties
  <2> HIDE DEF n, k
  <2>3. DOMAIN withPrs = 1..n /\ DOMAIN withPrs' = 1..(n + k)
    BY <2>1, LenProperties DEF BoardType, n
  <2>4. pc = "listing"
    BY <1>5, ListingFrame
  <2>5. /\ \A i, j \in 1..n : i # j => withPrs[i] # withPrs[j]
        /\ \A i \in 1..n : Passed(withPrs[i])
    BY <2>3, <2>4 DEF ListedOnce
  <2> DEFINE Then(r) ==
               \/ pc' = "reading"
               \/ \E o \in DOMAIN Owned : o < owner' /\ r \in Owned[o]
               \/ r \in Owned[owner'] /\ r <= cursor'
  <2>12. ASSUME NEW r PROVE Passed(r)' <=> Then(r)
    BY Zenon DEF Passed
  <2>6. /\ \A r \in Page : Then(r)
        /\ \A r : Passed(r) => Then(r)
    <3>1. /\ \A r \in Page : Passed(r)'
          /\ \A r : Passed(r) => Passed(r)'
      BY <1>5, PageAdvances
    <3> HIDE DEF Then
    <3> QED
      BY <2>12, <3>1
  <2>7. ASSUME NEW r \in Found PROVE r \in Page /\ ~ Passed(r)
    <3>1. r \in Page /\ r \in Owned[owner] /\ r > cursor
      BY DEF Found, Page, Rest, Existing
    <3>2. owner \in DOMAIN Owned /\ cursor \in Nat /\ r \in Nat /\ DOMAIN Owned = 1..Len(Owned) /\ Len(Owned) \in Nat
      BY <2>1, OwnedType DEF BoardType
    <3>3. \A o \in DOMAIN Owned : o < owner => r \notin Owned[o]
      BY <3>1, <3>2 DEF OwnersDiffer
    <3>4. ~ (r <= cursor)
      BY <3>1, <3>2
    <3> QED
      BY <2>4, <3>1, <3>3, <3>4 DEF Passed
  <2>8. \A i \in 1..(n + k) : i \in 1..n \/ (i - n \in 1..k /\ n + (i - n) = i)
    BY <2>1
  <2>9. ASSUME NEW i \in 1..(n + k) PROVE Then(withPrs'[i])
    <3>1. CASE i \in 1..n
      BY <2>1, <2>5, <2>6, <3>1
    <3>2. CASE i - n \in 1..k /\ n + (i - n) = i
      <4>1. withPrs'[i] \in Found
        BY <2>1, <3>2
      <4> QED
        BY <2>6, <2>7, <4>1
    <3> QED
      BY <2>8, <3>1, <3>2
  <2>10. ASSUME NEW i \in 1..(n + k), NEW j \in 1..(n + k), i < j PROVE withPrs'[i] # withPrs'[j]
    <3>1. CASE i \in 1..n /\ j \in 1..n
      BY <2>1, <2>5, <2>10, <3>1
    <3>2. CASE i \in 1..n /\ j - n \in 1..k /\ n + (j - n) = j
      <4>1. Passed(withPrs'[i]) /\ withPrs'[j] \in Found
        BY <2>1, <2>5, <3>2
      <4> QED
        BY <2>7, <4>1
    <3>3. CASE i - n \in 1..k /\ n + (i - n) = i /\ j - n \in 1..k /\ n + (j - n) = j
      <4>1. withPrs'[i] = Sorted(Found)[i - n] /\ withPrs'[j] = Sorted(Found)[j - n]
            /\ withPrs'[i] \in Nat /\ withPrs'[j] \in Nat
        BY <2>1, <3>3
      <4>2. i - n < j - n
        BY <2>1, <2>10
      <4>3. withPrs'[i] < withPrs'[j]
        BY <2>2, <3>3, <4>1, <4>2
      <4> QED
        BY <4>1, <4>3
    <3>4. ~ (i \notin 1..n /\ j \in 1..n)
      BY <2>1, <2>10
    <3> QED
      BY <2>8, <3>1, <3>2, <3>3, <3>4
  <2>11. \A i, j \in 1..(n + k) : i # j => withPrs'[i] # withPrs'[j]
    <3>1. \A i, j \in 1..(n + k) : i # j => i < j \/ j < i
      BY <2>1
    <3> QED
      BY <2>10, <3>1
  <2> QED
    BY <2>3, <2>9, <2>11 DEF ListedOnce, Passed
<1>6. CASE ListBreaks \/ ListRefused
  <2>1. pc' = "idle" \/ UNCHANGED <<pc, owner, cursor, withPrs>>
    BY <1>6 DEF ListBreaks, ListRefused, Exit
  <2> QED
    BY <1>1, <1>2, <2>1
<1>7. CASE SkipBatch \/ ReadBatch \/ BatchFails
  BY <1>1, <1>7, ReadingFrame
<1>8. CASE \/ Build \/ Output \/ OutputFails
           \/ \E stored \in {Text(board), Foreign("nobody"), Foreign("other")}, answered \in BOOLEAN :
                Publish(stored, answered)
  <2>1. pc' \in {"built", "publishing", "idle"}
    BY <1>8, ResultFrame
  <2> QED
    BY <1>2, <2>1
<1>9. CASE UNCHANGED vars
  BY <1>1, <1>9, StutterFrame
<1> QED
  BY <1>3, <1>4, <1>5, <1>6, <1>7, <1>8, <1>9, Zenon DEF Next, Run

\* While nothing changes the board that is built is what GitHub has.
LEMMA QuietBuild ==
  ASSUME BoardInv, ListedOnce, Build, quiet
  PROVE  /\ \A p \in Built.placed :
              /\ p.number \in DOMAIN prs[p.repo]
              /\ p.reason = Classify(prs[p.repo][p.number], GateOf(gates[p.repo]))
         /\ Built.truncated = {r \in repos : Cardinality(DOMAIN prs[r]) > PrPage}
                                \ {u[1] : u \in Built.unavailable}
<1>1. /\ pc = "reading"
      /\ \A i \in Positions : Holds(withPrs[i], reads[i], Now)
  BY EveryPositionRead
<1>2. Now.quiet = quiet /\ Now.gates = gates /\ Now.prs = prs
  BY DEF Now
<1>3. ASSUME NEW i \in Readable
      PROVE  /\ i \in Positions /\ reads[i].gate = GateOf(gates[withPrs[i]])
             /\ \A n \in DOMAIN reads[i].found : n \in DOMAIN prs[withPrs[i]] /\ reads[i].found[n] = prs[withPrs[i]][n]
             /\ reads[i].truncated <=> Cardinality(DOMAIN prs[withPrs[i]]) > PrPage
  <2>1. i \in Positions /\ reads[i].kind = "read" /\ Holds(withPrs[i], reads[i], Now)
    BY <1>1 DEF Readable
  <2>2. reads[i].gate = GateOf(Now.gates[withPrs[i]])
    BY <1>2, <2>1, Zenon DEF Holds
  <2>3. \A n \in DOMAIN reads[i].found : n \in DOMAIN Now.prs[withPrs[i]] /\ reads[i].found[n] = Now.prs[withPrs[i]][n]
    BY <1>2, <2>1, Zenon DEF Holds
  <2>4. reads[i].truncated <=> Cardinality(DOMAIN Now.prs[withPrs[i]]) > PrPage
    BY <1>2, <2>1, Zenon DEF Holds
  <2> QED
    BY <1>2, <2>1, <2>2, <2>3, <2>4
<1>4. ASSUME NEW p \in Built.placed
      PROVE  /\ p.number \in DOMAIN prs[p.repo]
             /\ p.reason = Classify(prs[p.repo][p.number], GateOf(gates[p.repo]))
  <2>1. PICK i \in Readable : \E n \in DOMAIN reads[i].found :
          p = [repo |-> withPrs[i], number |-> n,
               reason |-> Classify(reads[i].found[n], reads[i].gate)]
    BY DEF Built
  <2>2. PICK n \in DOMAIN reads[i].found :
          p = [repo |-> withPrs[i], number |-> n,
               reason |-> Classify(reads[i].found[n], reads[i].gate)]
    BY <2>1
  <2>3. p.repo = withPrs[i] /\ p.number = n /\ p.reason = Classify(reads[i].found[n], reads[i].gate)
    BY <2>2
  <2>4. n \in DOMAIN prs[withPrs[i]] /\ reads[i].found[n] = prs[withPrs[i]][n] /\ reads[i].gate = GateOf(gates[withPrs[i]])
    BY <1>3
  <2> QED
    BY <2>3, <2>4
<1>5. /\ Positions = DOMAIN withPrs
      /\ \A i, j \in Positions : i # j => withPrs[i] # withPrs[j]
      /\ \A i \in Positions : withPrs[i] \in repos
  BY <1>1 DEF ListedOnce, Positions, BoardInv, ListingInv
<1>6. ASSUME NEW r \in Built.truncated
      PROVE  r \in repos /\ Cardinality(DOMAIN prs[r]) > PrPage /\ ~ \E u \in Built.unavailable : u[1] = r
  <2>1. PICK i \in Readable : r = withPrs[i] /\ reads[i].truncated
    BY DEF Built
  <2>2. ASSUME NEW u \in Built.unavailable PROVE u[1] # r
    <3>1. PICK j \in Positions \ Readable : u = <<withPrs[j], reads[j].why>>
      BY DEF Built
    <3>2. u[1] = withPrs[j] /\ i # j
      BY <3>1
    <3> QED
      BY <1>3, <1>5, <2>1, <3>2
  <2> QED
    BY <1>3, <1>5, <2>1, <2>2
<1>7. ASSUME NEW r \in repos, Cardinality(DOMAIN prs[r]) > PrPage, ~ \E u \in Built.unavailable : u[1] = r
      PROVE  r \in Built.truncated
  <2>1. PICK n : n \in DOMAIN prs[r]
    <3>1. DOMAIN prs[r] # {}
      <4>1. PrPage \in Nat /\ Cardinality({}) = 0
        BY FS_EmptySet, SizeAssumption
      <4>2. ~ (Cardinality({}) > PrPage)
        BY <4>1
      <4> QED
        BY <1>7, <4>2
    <3> QED
      BY <3>1
  <2>2. n \in Number
    <3>1. prs[r] \in OpenPrs
      BY DEF BoardInv, BoardType
    <3> QED
      BY <2>1, <3>1 DEF OpenPrs
  <2>3. <<r, n>> \in steady
    BY <2>1, <2>2 DEF BoardInv, SteadyAreOpen, Open
  <2>4. Listed(r)
    <3>1. Passed(<<r, n>>[1]) => Listed(<<r, n>>[1])
      BY <1>1, <2>3 DEF BoardInv, ListingInv
    <3> QED
      BY <1>1, <3>1 DEF Passed
  <2>5. PICK i \in Positions : withPrs[i] = r
    BY <2>4 DEF Listed, Positions
  <2>6. i \in Readable
    <3>1. SUFFICES ASSUME i \notin Readable PROVE FALSE
      OBVIOUS
    <3>2. <<withPrs[i], reads[i].why>> \in Built.unavailable
      BY <3>1 DEF Built
    <3>3. <<withPrs[i], reads[i].why>>[1] = r
      BY <2>5
    <3> QED
      BY <1>7, <3>2, <3>3
  <2>7. reads[i].truncated
    BY <1>3, <1>7, <2>5, <2>6
  <2> QED
    BY <2>5, <2>6, <2>7 DEF Built
<1>8. \A r : r \in {u[1] : u \in Built.unavailable} <=> \E u \in Built.unavailable : u[1] = r
  OBVIOUS
<1>9. \A r : r \in Built.truncated <=> r \in repos /\ Cardinality(DOMAIN prs[r]) > PrPage
                                       /\ r \notin {u[1] : u \in Built.unavailable}
  BY <1>6, <1>7, <1>8
<1> QED
  BY <1>4, <1>9

\* No step makes the board of a run at rest inexact.
LEMMA QuietStep ==
  ASSUME BoardInv, ListedOnce, QuietBoardExact, [Next]_vars
  PROVE  QuietBoardExact'
<1>1. ASSUME ~ quiet' \/ ~ Ready' PROVE QuietBoardExact'
  BY <1>1 DEF QuietBoardExact
<1>2. ASSUME Ready' => Ready, UNCHANGED <<quiet, board, repos, prs, gates>> PROVE QuietBoardExact'
  BY <1>2 DEF QuietBoardExact
<1>3. CASE GitHub
  BY <1>1, <1>3, GitHubFrame
<1>4. CASE Begin
  BY <1>1, <1>4 DEF Begin, Ready
<1>5. CASE ListRepos \/ ListBreaks \/ ListRefused
  <2>1. pc = "listing" /\ ((pc' = "idle" /\ exit' = "2") \/ (pc' \in {"listing", "reading"} /\ exit' = exit))
    BY <1>5, ListingFrame
  <2>2. exit = "none"
    BY <2>1 DEF BoardInv, BoardType
  <2> QED
    BY <1>1, <2>1, <2>2 DEF Ready
<1>6. CASE SkipBatch \/ ReadBatch \/ BatchFails
  <2>1. pc = "reading" /\ UNCHANGED <<pc, exit>>
    BY <1>6, ReadingFrame
  <2> QED
    BY <1>1, <2>1 DEF Ready, BoardInv, BoardType
<1>7. CASE Build
  <2>1. board' = Built /\ quiet' = quiet /\ UNCHANGED <<repos, prs, gates>>
    BY <1>7 DEF Build, github
  <2>2. CASE quiet
    BY <1>7, <2>1, <2>2, QuietBuild DEF QuietBoardExact
  <2> QED
    BY <1>1, <2>1, <2>2
<1>8. CASE \/ Output \/ OutputFails
           \/ \E stored \in {Text(board), Foreign("nobody"), Foreign("other")}, answered \in BOOLEAN :
                Publish(stored, answered)
  <2>1. UNCHANGED <<quiet, repos, prs, gates>>
    BY <1>8, ResultFrame, Zenon
  <2>2. board' = board /\ pc \in {"built", "publishing"}
    BY <1>8, Zenon DEF Output, OutputFails, Publish
  <2> QED
    BY <1>2, <2>1, <2>2 DEF Ready
<1>9. CASE UNCHANGED vars
  BY <1>2, <1>9, StutterFrame DEF Ready
<1> QED
  BY <1>3, <1>4, <1>5, <1>6, <1>7, <1>8, <1>9, Zenon DEF Next, Run

\* The board of a run in which nothing changes is exact: every pull request
\* stands for the reason that its facts and its repository's gate give, and the
\* truncated repositories are named.  A repository belongs to one owner.
THEOREM QuietBoardExactAlways ==
  ASSUME OwnersDiffer
  PROVE  Spec => []QuietBoardExact
<1>1. Init => ListedOnce /\ QuietBoardExact
  BY DEF Init, ListedOnce, QuietBoardExact
<1>2. BoardInv /\ ListedOnce /\ [Next]_vars => ListedOnce'
  BY ListedOnceStep DEF BoardInv
<1>3. BoardInv /\ ListedOnce /\ QuietBoardExact /\ [Next]_vars => QuietBoardExact'
  BY QuietStep
<1> QED
  BY <1>1, <1>2, <1>3, ReadsAreInOrder, PTL DEF Spec

================================================================================

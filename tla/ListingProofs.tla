---------------------------- MODULE ListingProofs ----------------------------
(***************************************************************************)
(* Theorems about the two listings, that of GitHub which is read           *)
(* (ReleaseListing), for any releases, limits and page sizes, and that of  *)
(* the service which is served (VersionFeed), for any history of releases. *)
(* They rest on the same lemmas about sequences.                           *)
(*                                                                         *)
(* The one that is read: a page after the first shows only releases that   *)
(* were there when the call began, each at most as many places higher as   *)
(* were deleted since (ShiftInv).  So among the first releases that were   *)
(* read at most that many were not among the first when the call began;    *)
(* and since there are as many of the ones as of the others, no more are   *)
(* missing.  If the listing ended earlier, as many as it then has were     *)
(* read, and those of them that are missing are made up for by deleted     *)
(* ones (LostInv).                                                         *)
(*                                                                         *)
(* The one that is served: sorting gives each version one place            *)
(* (InOrderForm), by an order that agrees with SemVer (SemverAgrees), and  *)
(* the lines of different releases do not disturb each other (JoinForm).   *)
(***************************************************************************)
EXTENDS ReleaseListing, VersionFeed, FiniteSetTheorems, SequenceTheorems, WellFoundedInduction, TLAPS

(* The release was one of the first k when the call began.                 *)
Among(began, x, k) == \E i \in DOMAIN began : i <= k /\ began[i] = x

(* Before the first page nothing has happened; all pages were full.        *)
PagesInv ==
    /\ scan.phase = "idle" => scan = NewScan /\ deletions = 0 /\ used = ToSet(listing)
    /\ scan.phase = "reading" => scan.page >= 1 /\ Len(scan.tags) = scan.page * PageSize

(* Releases go down the listing with those that are published, and up with *)
(* those that are deleted.                                                 *)
ShiftInv ==
    scan.phase = "reading" =>
        /\ IsInjective(scan.began) /\ IsInjective(scan.tags)
        /\ ToSet(scan.tags) \subseteq used
        /\ \A p \in DOMAIN listing : p > scan.burst => Among(scan.began, listing[p], p + deletions)
        /\ \A j \in DOMAIN scan.tags : Among(scan.began, scan.tags[j], j + deletions)

(* No release is lost but those that were deleted.                         *)
LostInv ==
    /\ IsFiniteSet(used \ ToSet(listing))
    /\ Cardinality(used \ ToSet(listing)) <= deletions

ListingInv == TypeOK /\ PagesInv /\ ShiftInv /\ LostInv /\ AnswerIsSound

-----------------------------------------------------------------------------
(* Numbers and sets.                                                       *)

(* A set of numbers has a least one.                                       *)
LEMMA LeastExists ==
    ASSUME NEW S \in SUBSET Nat, S # {}
    PROVE  \E n \in S : \A m \in S : n <= m
<1> DEFINE less == OpToRel(<, Nat)
<1>1. IsWellFoundedOn(less, Nat)
  BY NatLessThanWellFounded, Zenon
<1>2. \A a, b \in Nat : a < b => <<a, b>> \in less
  <2> SUFFICES ASSUME NEW a \in Nat, NEW b \in Nat, a < b
               PROVE  <<a, b>> \in less
    OBVIOUS
  <2> DEFINE pair == <<a, b>>
  <2>1. pair \in Nat \X Nat /\ pair[1] < pair[2]
    OBVIOUS
  <2> HIDE DEF pair
  <2>2. pair \in less
    BY <2>1, Zenon DEF OpToRel
  <2>. QED BY <2>2, Zenon DEF pair
<1> HIDE DEF less
<1>3. PICK n \in S : \A m \in S : <<m, n>> \notin less
  BY <1>1, WFMin, Zenon
<1>4. ASSUME NEW m \in S
      PROVE  n <= m
  <2>1. ~(m < n)
    BY <1>2, <1>3
  <2>. QED BY <2>1
<1>. QED BY <1>3, <1>4

(* The numbers of a sequence have a bound: else there were a first one     *)
(* before which they have none.                                            *)
LEMMA SequenceIsBounded ==
    ASSUME NEW s \in Seq(Nat)
    PROVE  \E u \in Nat : \A i \in 1 .. Len(s) : s[i] <= u
<1> DEFINE Bounded(k) == \E u \in Nat : \A i \in 1 .. k : s[i] <= u
           unbounded == {k \in 0 .. Len(s) : ~Bounded(k)}
<1>1. Len(s) \in Nat /\ \A i \in 1 .. Len(s) : s[i] \in Nat
  BY LenProperties, ElementOfSeq
<1>2. SUFFICES ASSUME unbounded # {} PROVE FALSE
  <2>1. Len(s) \in 0 .. Len(s)
    BY <1>1
  <2>2. unbounded = {} => Bounded(Len(s))
    <3> HIDE DEF Bounded
    <3>. QED BY <2>1
  <2>. QED BY <2>2
<1>3. PICK k \in unbounded : \A l \in unbounded : k <= l
  <2>1. unbounded \in SUBSET Nat
    BY <1>1
  <2>. QED BY <1>2, <2>1, LeastExists
<1>4. k \in 0 .. Len(s) /\ ~Bounded(k)
  BY <1>3
<1>5. k # 0
  BY <1>4
<1>6. k - 1 \in 0 .. Len(s) /\ k \in 1 .. Len(s)
  BY <1>1, <1>4, <1>5
<1>7. k - 1 \notin unbounded
  <2>1. ~(k <= k - 1)
    BY <1>1, <1>4
  <2>. QED BY <1>3, <2>1
<1>8. PICK u \in Nat : \A i \in 1 .. k - 1 : s[i] <= u
  BY <1>6, <1>7
<1>9. PICK v \in Nat : u <= v /\ s[k] <= v
  <2>1. PICK last \in Nat : last = s[k]
    BY <1>1, <1>6
  <2>2. \A a, b \in Nat : a + b \in Nat /\ a <= a + b /\ b <= a + b
    OBVIOUS
  <2>3. u + last \in Nat /\ u <= u + last /\ last <= u + last
    BY <2>2
  <2>. QED BY <2>1, <2>3
<1>10. \A i \in 1 .. k : s[i] <= v
  <2> TAKE i \in 1 .. k
  <2>1. CASE i = k
    BY <1>9, <2>1
  <2>2. CASE i \in 1 .. k - 1
    <3>1. i \in 1 .. Len(s)
      BY <1>1, <1>6, <2>2
    <3>2. PICK e \in Nat : e = s[i]
      BY <1>1, <3>1
    <3>3. e <= u
      BY <1>8, <2>2, <3>2
    <3>4. \A a, b, c \in Nat : a <= b /\ b <= c => a <= c
      OBVIOUS
    <3>5. e <= v
      BY <1>9, <3>3, <3>4
    <3>. QED BY <3>2, <3>5
  <2>. QED BY <1>6, <2>1, <2>2
<1>. QED BY <1>4, <1>10

(* The greatest of some of the numbers of a sequence is one of them.       *)
LEMMA MaxForm ==
    ASSUME NEW S \in SUBSET Nat, S # {}, NEW u \in Nat, \A x \in S : x <= u
    PROVE  Max(S) \in S /\ \A x \in S : x <= Max(S)
<1> DEFINE bounds == {b \in Nat : \A x \in S : x <= b}
<1>1. PICK b \in bounds : \A c \in bounds : b <= c
  <2>1. bounds \in SUBSET Nat /\ u \in bounds
    OBVIOUS
  <2>. QED BY <2>1, LeastExists
<1>2. b \in S
  <2> SUFFICES ASSUME b \notin S PROVE FALSE
    OBVIOUS
  <2>1. \A x \in S : x < b
    BY <1>1
  <2>2. b > 0
    <3>1. PICK x \in S : x < b
      BY <2>1
    <3>2. x \in Nat /\ b \in Nat
      BY <1>1
    <3>. QED BY <3>1, <3>2
  <2>3. b - 1 \in bounds
    BY <1>1, <2>1, <2>2
  <2>. QED BY <1>1, <2>2, <2>3
<1>3. \E m \in S : \A x \in S : m >= x
  BY <1>1, <1>2
<1>4. Max(S) \in S /\ \A x \in S : Max(S) >= x
  BY <1>3, Zenon DEF Max
<1>. QED BY <1>4

(* Of two sets of which one is not greater, it has no more of its own.     *)
LEMMA OwnElements ==
    ASSUME NEW A, NEW B, IsFiniteSet(A), IsFiniteSet(B), Cardinality(A) <= Cardinality(B)
    PROVE  Cardinality(A \ B) <= Cardinality(B \ A)
<1> DEFINE a == Cardinality(A)
           b == Cardinality(B)
           c == Cardinality(A \cap B)
<1>1. /\ Cardinality(A \ B) = Cardinality(A) - Cardinality(A \cap B)
      /\ Cardinality(B \ A) = Cardinality(B) - Cardinality(B \cap A)
  BY FS_Difference
<1>2. A \cap B = B \cap A
  OBVIOUS
<1>3. /\ Cardinality(A) \in Nat /\ Cardinality(B) \in Nat /\ Cardinality(A \cap B) \in Nat
  BY FS_CardinalityType, FS_Intersection
<1>4. Cardinality(A \ B) = a - c /\ Cardinality(B \ A) = b - c
  BY <1>1, <1>2
<1>5. a \in Nat /\ b \in Nat /\ c \in Nat /\ a <= b
  BY <1>3
<1> HIDE DEF a, b, c
<1>6. a - c <= b - c
  BY <1>5
<1>. QED BY <1>4, <1>6

(* Values of a function on finitely many arguments are no more than these. *)
LEMMA ValuesForm ==
    ASSUME NEW s, NEW I, IsFiniteSet(I)
    PROVE  /\ IsFiniteSet({s[i] : i \in I})
           /\ Cardinality({s[i] : i \in I}) <= Cardinality(I)
<1> DEFINE T == {s[i] : i \in I}
           f == [i \in I |-> s[i]]
<1>1. f \in Surjection(I, T)
  BY DEF Surjection
<1>. QED BY <1>1, FS_Surjection

(* The elements of a sequence without repetition are as many as it is long.*)
LEMMA ElementsForm ==
    ASSUME NEW S, NEW s \in Seq(S), IsInjective(s), NEW n \in 0 .. Len(s)
    PROVE  /\ IsFiniteSet({s[i] : i \in 1 .. n})
           /\ Cardinality({s[i] : i \in 1 .. n}) = n
<1> DEFINE T == {s[i] : i \in 1 .. n}
           f == [i \in 1 .. n |-> s[i]]
<1>1. Len(s) \in Nat /\ DOMAIN s = 1 .. Len(s)
  BY LenProperties
<1>2. f \in Bijection(1 .. n, T)
  <2>1. f \in [1 .. n -> T]
    OBVIOUS
  <2>2. \A a, b \in 1 .. n : f[a] = f[b] => a = b
    BY <1>1 DEF IsInjective
  <2>3. \A t \in T : \E i \in 1 .. n : f[i] = t
    OBVIOUS
  <2>. QED BY <2>1, <2>2, <2>3 DEF Bijection, Injection, Surjection, IsInjective
<1>3. n \in Nat /\ n \in Int
  BY <1>1
<1>4. IsFiniteSet(1 .. n) /\ Cardinality(1 .. n) = n
  BY <1>3, FS_Interval
<1>5. ExistsBijection(1 .. n, T)
  BY <1>2, Zenon DEF ExistsBijection
<1>. QED BY <1>4, <1>5, FS_Bijection

-----------------------------------------------------------------------------
(* Sequences of releases.                                                  *)

(* A sequence gives its elements and no others.                            *)
LEMMA MembersForm ==
    ASSUME NEW S, NEW s \in Seq(S)
    PROVE  /\ Len(s) \in Nat /\ DOMAIN s = 1 .. Len(s)
           /\ \A i \in 1 .. Len(s) : s[i] \in S /\ s[i] \in ToSet(s)
           /\ \A x \in ToSet(s) : \E i \in 1 .. Len(s) : s[i] = x
           /\ ToSet(s) \subseteq S
<1>1. Len(s) \in Nat /\ DOMAIN s = 1 .. Len(s)
  BY LenProperties
<1>2. \A i \in 1 .. Len(s) : s[i] \in S
  BY ElementOfSeq
<1>. QED BY <1>1, <1>2 DEF ToSet

(* Without its i-th element a sequence has the others, in their order.     *)
LEMMA RemoveForm ==
    ASSUME NEW S, NEW s \in Seq(S), NEW i \in 1 .. Len(s)
    PROVE  /\ RemoveAt(s, i) \in Seq(S)
           /\ Len(RemoveAt(s, i)) = Len(s) - 1
           /\ \A p \in 1 .. Len(s) - 1 :
                RemoveAt(s, i)[p] = IF p < i THEN s[p] ELSE s[p + 1]
<1> DEFINE a == SubSeq(s, 1, i - 1)
           b == SubSeq(s, i + 1, Len(s))
<1>1. Len(s) \in Nat /\ \A k \in 1 .. Len(s) : s[k] \in S
  BY MembersForm
<1>2. /\ a \in Seq(S) /\ Len(a) = i - 1
      /\ \A k \in 1 .. i - 1 : a[k] = s[k]
  <2>1. 1 \in Int /\ i - 1 \in Int /\ \A k \in 1 .. i - 1 : s[k] \in S
    BY <1>1
  <2>2. /\ a \in Seq(S) /\ Len(a) = IF 1 <= i - 1 THEN i - 1 - 1 + 1 ELSE 0
        /\ \A k \in 1 .. i - 1 - 1 + 1 : a[k] = s[1 + k - 1]
    BY <2>1, SubSeqProperties
  <2>3. IF 1 <= i - 1 THEN i - 1 - 1 + 1 = i - 1 ELSE i - 1 = 0
    BY <1>1
  <2>4. \A k \in 1 .. i - 1 : k \in 1 .. i - 1 - 1 + 1 /\ 1 + k - 1 = k
    BY <1>1
  <2>. QED BY <2>2, <2>3, <2>4
<1>3. /\ b \in Seq(S) /\ Len(b) = Len(s) - i
      /\ \A k \in 1 .. Len(s) - i : b[k] = s[i + k]
  <2>1. i + 1 \in Int /\ Len(s) \in Int /\ \A k \in i + 1 .. Len(s) : s[k] \in S
    BY <1>1
  <2>2. /\ b \in Seq(S) /\ Len(b) = IF i + 1 <= Len(s) THEN Len(s) - (i + 1) + 1 ELSE 0
        /\ \A k \in 1 .. Len(s) - (i + 1) + 1 : b[k] = s[i + 1 + k - 1]
    BY <2>1, SubSeqProperties
  <2>3. IF i + 1 <= Len(s) THEN Len(s) - (i + 1) + 1 = Len(s) - i ELSE Len(s) - i = 0
    BY <1>1
  <2>4. \A k \in 1 .. Len(s) - i : k \in 1 .. Len(s) - (i + 1) + 1 /\ i + 1 + k - 1 = i + k
    BY <1>1
  <2>. QED BY <2>2, <2>3, <2>4
<1>4. RemoveAt(s, i) = a \o b
  BY DEF RemoveAt
<1> HIDE DEF a, b
<1>5. /\ a \o b \in Seq(S) /\ Len(a \o b) = Len(a) + Len(b)
      /\ \A p \in 1 .. Len(a) + Len(b) :
            (a \o b)[p] = IF p <= Len(a) THEN a[p] ELSE b[p - Len(a)]
  BY <1>2, <1>3, ConcatProperties
<1>6. Len(a) + Len(b) = Len(s) - 1
  BY <1>1, <1>2, <1>3
<1>7. ASSUME NEW p \in 1 .. Len(s) - 1
      PROVE  (a \o b)[p] = IF p < i THEN s[p] ELSE s[p + 1]
  <2>1. CASE p < i
    <3>1. p \in 1 .. i - 1 /\ p <= Len(a)
      BY <1>1, <1>2, <2>1
    <3>. QED BY <1>2, <1>5, <1>6, <2>1, <3>1
  <2>2. CASE ~(p < i)
    <3>1. /\ p - Len(a) \in 1 .. Len(s) - i /\ ~(p <= Len(a))
          /\ i + (p - Len(a)) = p + 1
      BY <1>1, <1>2, <2>2
    <3>2. (a \o b)[p] = b[p - Len(a)]
      BY <1>5, <1>6, <3>1
    <3>3. b[p - Len(a)] = s[i + (p - Len(a))]
      BY <1>3, <3>1
    <3>. QED BY <2>2, <3>1, <3>2, <3>3
  <2>. QED BY <2>1, <2>2
<1>. QED BY <1>4, <1>5, <1>6, <1>7

(* If no element is repeated, this is the set without that element.        *)
LEMMA RemovedForm ==
    ASSUME NEW S, NEW s \in Seq(S), IsInjective(s), NEW i \in 1 .. Len(s)
    PROVE  /\ IsInjective(RemoveAt(s, i))
           /\ ToSet(RemoveAt(s, i)) = ToSet(s) \ {s[i]}
<1> DEFINE t == RemoveAt(s, i)
           From(p) == IF p < i THEN p ELSE p + 1
<1>1. /\ t \in Seq(S) /\ Len(t) = Len(s) - 1
      /\ \A p \in 1 .. Len(s) - 1 : t[p] = IF p < i THEN s[p] ELSE s[p + 1]
  BY RemoveForm
<1>2. /\ Len(s) \in Nat /\ DOMAIN s = 1 .. Len(s) /\ DOMAIN t = 1 .. Len(s) - 1
      /\ \A p, q \in 1 .. Len(s) : s[p] = s[q] => p = q
  <2>1. Len(s) \in Nat /\ DOMAIN s = 1 .. Len(s)
    BY MembersForm
  <2>2. DOMAIN t = 1 .. Len(t)
    BY <1>1, MembersForm
  <2>. QED BY <1>1, <2>1, <2>2 DEF IsInjective
<1> HIDE DEF t
<1>3. \A p \in 1 .. Len(s) - 1 :
        t[p] = s[From(p)] /\ From(p) \in 1 .. Len(s) /\ From(p) # i
  BY <1>1, <1>2
<1>4. \A p, q \in 1 .. Len(s) - 1 : From(p) = From(q) => p = q
  BY <1>2
<1>5. \A k \in 1 .. Len(s) : k # i => \E p \in 1 .. Len(s) - 1 : From(p) = k
  <2> TAKE k \in 1 .. Len(s)
  <2> HAVE k # i
  <2>1. CASE k < i
    <3>1. k \in 1 .. Len(s) - 1 /\ From(k) = k
      BY <1>2, <2>1
    <3>. QED BY <3>1
  <2>2. CASE k > i
    <3>1. k - 1 \in 1 .. Len(s) - 1 /\ From(k - 1) = k
      BY <1>2, <2>2
    <3>. QED BY <3>1
  <2>. QED BY <1>2, <2>1, <2>2
<1> HIDE DEF From
<1>6. IsInjective(t)
  BY <1>2, <1>3, <1>4 DEF IsInjective
<1>7. ToSet(t) = ToSet(s) \ {s[i]}
  <2>1. ASSUME NEW x \in ToSet(t)
        PROVE  x \in ToSet(s) \ {s[i]}
    <3>1. PICK p \in 1 .. Len(s) - 1 : t[p] = x
      BY <1>2, <2>1 DEF ToSet
    <3>2. x = s[From(p)] /\ From(p) \in 1 .. Len(s) /\ From(p) # i
      BY <1>3, <3>1
    <3>3. x # s[i]
      BY <1>2, <3>2
    <3>. QED BY <1>2, <3>2, <3>3 DEF ToSet
  <2>2. ASSUME NEW x \in ToSet(s) \ {s[i]}
        PROVE  x \in ToSet(t)
    <3>1. PICK k \in 1 .. Len(s) : s[k] = x
      BY <1>2, <2>2 DEF ToSet
    <3>2. PICK p \in 1 .. Len(s) - 1 : From(p) = k
      BY <1>5, <2>2, <3>1
    <3>3. t[p] = x
      BY <1>3, <3>1, <3>2
    <3>. QED BY <1>2, <3>3 DEF ToSet
  <2>. QED BY <2>1, <2>2
<1>. QED BY <1>6, <1>7 DEF t

(* What follows another sequence is found further down by its length.      *)
LEMMA ConcatForm ==
    ASSUME NEW S, NEW s \in Seq(S), NEW t \in Seq(S)
    PROVE  /\ s \o t \in Seq(S) /\ Len(s \o t) = Len(s) + Len(t)
           /\ \A p \in 1 .. Len(s) : (s \o t)[p] = s[p]
           /\ \A p \in 1 .. Len(t) : (s \o t)[Len(s) + p] = t[p]
           /\ \A p \in 1 .. Len(s) + Len(t) :
                p \in 1 .. Len(s) \/ \E k \in 1 .. Len(t) : p = Len(s) + k
           /\ ToSet(s \o t) = ToSet(s) \cup ToSet(t)
           /\ (IsInjective(s) /\ IsInjective(t) /\ ToSet(s) \cap ToSet(t) = {})
                => IsInjective(s \o t)
<1> DEFINE u == s \o t
<1>1. /\ u \in Seq(S) /\ Len(u) = Len(s) + Len(t)
      /\ \A p \in 1 .. Len(s) + Len(t) :
            u[p] = IF p <= Len(s) THEN s[p] ELSE t[p - Len(s)]
  BY ConcatProperties
<1>2. /\ Len(s) \in Nat /\ Len(t) \in Nat
      /\ DOMAIN s = 1 .. Len(s) /\ DOMAIN t = 1 .. Len(t)
  BY MembersForm
<1>3. DOMAIN u = 1 .. Len(s) + Len(t)
  BY <1>1, MembersForm
<1> HIDE DEF u
<1>4. \A p \in 1 .. Len(s) : p \in 1 .. Len(s) + Len(t) /\ u[p] = s[p]
  BY <1>1, <1>2
<1>5. \A p \in 1 .. Len(t) : Len(s) + p \in 1 .. Len(s) + Len(t) /\ u[Len(s) + p] = t[p]
  <2> TAKE p \in 1 .. Len(t)
  <2>1. /\ Len(s) + p \in 1 .. Len(s) + Len(t) /\ ~(Len(s) + p <= Len(s))
        /\ Len(s) + p - Len(s) = p
    BY <1>2
  <2>2. u[Len(s) + p] = t[Len(s) + p - Len(s)]
    BY <1>1, <2>1
  <2>. QED BY <2>1, <2>2
<1>6. \A p \in 1 .. Len(s) + Len(t) :
        p \in 1 .. Len(s) \/ \E k \in 1 .. Len(t) : p = Len(s) + k
  <2> TAKE p \in 1 .. Len(s) + Len(t)
  <2>1. CASE p > Len(s)
    <3>1. p - Len(s) \in 1 .. Len(t) /\ p = Len(s) + (p - Len(s))
      BY <1>2, <2>1
    <3>. QED BY <3>1
  <2>. QED BY <1>2, <2>1
<1>7. ToSet(u) = ToSet(s) \cup ToSet(t)
  <2>1. ASSUME NEW x \in ToSet(u)
        PROVE  x \in ToSet(s) \cup ToSet(t)
    <3>1. PICK p \in 1 .. Len(s) + Len(t) : u[p] = x
      BY <1>3, <2>1 DEF ToSet
    <3>2. CASE p \in 1 .. Len(s)
      BY <1>2, <1>4, <3>1, <3>2 DEF ToSet
    <3>3. ASSUME NEW k \in 1 .. Len(t), p = Len(s) + k
          PROVE  x \in ToSet(t)
      BY <1>2, <1>5, <3>1, <3>3 DEF ToSet
    <3>. QED BY <1>6, <3>2, <3>3
  <2>2. ASSUME NEW x \in ToSet(s)
        PROVE  x \in ToSet(u)
    BY <1>2, <1>3, <1>4, <2>2 DEF ToSet
  <2>3. ASSUME NEW x \in ToSet(t)
        PROVE  x \in ToSet(u)
    <3>1. PICK p \in 1 .. Len(t) : t[p] = x
      BY <1>2, <2>3 DEF ToSet
    <3>. QED BY <1>3, <1>5, <3>1 DEF ToSet
  <2>. QED BY <2>1, <2>2, <2>3
<1>8. ASSUME IsInjective(s), IsInjective(t), ToSet(s) \cap ToSet(t) = {}
      PROVE  IsInjective(u)
  <2> SUFFICES ASSUME NEW p \in 1 .. Len(s) + Len(t), NEW q \in 1 .. Len(s) + Len(t),
                      u[p] = u[q]
               PROVE  p = q
    BY <1>3 DEF IsInjective
  <2>1. CASE p \in 1 .. Len(s) /\ q \in 1 .. Len(s)
    BY <1>2, <1>4, <1>8, <2>1 DEF IsInjective
  <2>2. ASSUME NEW k \in 1 .. Len(t), p = Len(s) + k, q \in 1 .. Len(s)
        PROVE  FALSE
    <3>1. t[k] = s[q]
      BY <1>4, <1>5, <2>2
    <3>. QED BY <1>2, <1>8, <2>2, <3>1 DEF ToSet
  <2>3. ASSUME NEW k \in 1 .. Len(t), q = Len(s) + k, p \in 1 .. Len(s)
        PROVE  FALSE
    <3>1. t[k] = s[p]
      BY <1>4, <1>5, <2>3
    <3>. QED BY <1>2, <1>8, <2>3, <3>1 DEF ToSet
  <2>4. ASSUME NEW k \in 1 .. Len(t), NEW l \in 1 .. Len(t), p = Len(s) + k, q = Len(s) + l
        PROVE  p = q
    <3>1. t[k] = t[l]
      BY <1>5, <2>4
    <3>2. k = l
      BY <1>2, <1>8, <3>1 DEF IsInjective
    <3>. QED BY <2>4, <3>2
  <2>. QED BY <1>6, <2>1, <2>2, <2>3, <2>4
<1>. QED BY <1>1, <1>4, <1>5, <1>6, <1>7, <1>8 DEF u

(* The same for a single element in front.                                 *)
LEMMA PrependForm ==
    ASSUME NEW S, NEW r \in S, NEW t \in Seq(S), IsInjective(t), r \notin ToSet(t)
    PROVE  /\ <<r>> \o t \in Seq(S) /\ Len(<<r>> \o t) = 1 + Len(t)
           /\ \A p \in 1 .. Len(t) : (<<r>> \o t)[1 + p] = t[p]
           /\ ToSet(<<r>> \o t) = {r} \cup ToSet(t)
           /\ IsInjective(<<r>> \o t)
<1> DEFINE s == <<r>>
<1>0. s \in Seq(S)
  OBVIOUS
<1>1. Len(s) = 1 /\ DOMAIN s = {1} /\ s[1] = r
  OBVIOUS
<1> HIDE DEF s
<1>2. IsInjective(s) /\ ToSet(s) = {r}
  BY <1>1 DEF IsInjective, ToSet
<1>3. ToSet(s) \cap ToSet(t) = {}
  BY <1>2
<1>4. /\ s \o t \in Seq(S) /\ Len(s \o t) = Len(s) + Len(t)
      /\ \A p \in 1 .. Len(t) : (s \o t)[Len(s) + p] = t[p]
      /\ ToSet(s \o t) = ToSet(s) \cup ToSet(t)
  BY <1>0, ConcatForm
<1>5. IsInjective(s \o t)
  BY <1>0, <1>2, <1>3, ConcatForm
<1>. QED BY <1>0, <1>1, <1>2, <1>4, <1>5 DEF s

(* The first n elements of a sequence.                                     *)
LEMMA PrefixForm ==
    ASSUME NEW S, NEW s \in Seq(S), NEW n \in 0 .. Len(s)
    PROVE  ToSet(SubSeq(s, 1, n)) = {s[i] : i \in 1 .. n}
<1> DEFINE t == SubSeq(s, 1, n)
<1>1. Len(s) \in Nat /\ \A i \in 1 .. Len(s) : s[i] \in S
  BY MembersForm
<1>2. 1 \in Int /\ n \in Int /\ \A i \in 1 .. n : s[i] \in S
  BY <1>1
<1>3. /\ t \in Seq(S) /\ Len(t) = IF 1 <= n THEN n - 1 + 1 ELSE 0
      /\ \A i \in 1 .. n - 1 + 1 : t[i] = s[1 + i - 1]
  BY <1>2, SubSeqProperties
<1>4. DOMAIN t = 1 .. Len(t)
  BY <1>3, MembersForm
<1> HIDE DEF t
<1>5. DOMAIN t = 1 .. n
  <2>1. Len(t) = n
    BY <1>1, <1>3
  <2>. QED BY <1>4, <2>1
<1>6. \A i \in 1 .. n : i \in 1 .. n - 1 + 1 /\ 1 + i - 1 = i
  BY <1>1
<1>7. \A i \in 1 .. n : t[i] = s[i]
  BY <1>3, <1>6
<1>8. ToSet(t) = {s[i] : i \in 1 .. n}
  BY <1>5, <1>7 DEF ToSet
<1>. QED BY <1>8 DEF t

(* The n-th page is the n-th PageSize releases of the listing, or what     *)
(* there is of them.                                                       *)
LEMMA PageForm ==
    ASSUME TypeOK, NEW n \in Nat
    PROVE  /\ n * PageSize \in Nat /\ (n + 1) * PageSize = n * PageSize + PageSize
           /\ Page(n + 1) \in Seq(Releases) /\ IsInjective(Page(n + 1))
           /\ Len(Page(n + 1)) \in 0 .. PageSize
           /\ \A k \in 1 .. Len(Page(n + 1)) :
                /\ n * PageSize + k \in 1 .. Len(listing)
                /\ Page(n + 1)[k] = listing[n * PageSize + k]
           /\ HasNext(n + 1) => Len(Page(n + 1)) = PageSize
           /\ (Page(n + 1) # <<>> /\ ~HasNext(n + 1))
                => n * PageSize + Len(Page(n + 1)) = Len(listing)
<1> DEFINE before == n * PageSize
           size == PageSize
           length == Len(listing)
           last == IF before + size < length THEN before + size ELSE length
           page == Page(n + 1)
<1>1. size \in Nat \ {0} /\ before \in Nat /\ (n + 1) * PageSize = before + size
  <2>1. size \in Nat \ {0}
    BY ListingAssumption
  <2> HIDE DEF size
  <2>2. n * size \in Nat /\ (n + 1) * size = n * size + size
    BY <2>1
  <2>. QED BY <2>1, <2>2 DEF size
<1>2. /\ length \in Nat /\ DOMAIN listing = 1 .. length
      /\ \A p \in 1 .. length : listing[p] \in Releases
      /\ \A p, q \in 1 .. length : listing[p] = listing[q] => p = q
  <2>1. listing \in Seq(Releases) /\ IsInjective(listing)
    BY DEF TypeOK
  <2>2. /\ length \in Nat /\ DOMAIN listing = 1 .. length
        /\ \A p \in 1 .. length : listing[p] \in Releases
    BY <2>1, MembersForm
  <2>. QED BY <2>1, <2>2 DEF IsInjective
<1>3. page = SubSeq(listing, before + 1, last)
  <2> DEFINE m == n + 1
             first == (m - 1) * PageSize
             next == m * PageSize
  <2>1. page = SubSeq(listing, first + 1, IF next < length THEN next ELSE length)
    BY DEF Page
  <2>2. m - 1 = n
    OBVIOUS
  <2>3. first = before /\ next = before + size
    BY <1>1, <2>2
  <2> HIDE DEF first, next, page, before, length
  <2>. QED BY <2>1, <2>3
<1>4. HasNext(n + 1) <=> before + size < length
  BY <1>1 DEF HasNext
<1> HIDE DEF before, size, length, page
<1>5. last \in Int /\ last <= length /\ last <= before + size /\ before + 1 \in Int
  BY <1>1, <1>2
<1>6. \A p \in before + 1 .. last : listing[p] \in Releases
  <2>1. \A p \in before + 1 .. last : p \in 1 .. length
    BY <1>1, <1>2, <1>5
  <2>. QED BY <1>2, <2>1
<1>7. /\ page \in Seq(Releases)
      /\ Len(page) = IF before + 1 <= last THEN last - (before + 1) + 1 ELSE 0
      /\ \A k \in 1 .. last - (before + 1) + 1 : page[k] = listing[before + 1 + k - 1]
  <2> HIDE DEF last
  <2>1. /\ SubSeq(listing, before + 1, last) \in Seq(Releases)
        /\ Len(SubSeq(listing, before + 1, last)) =
                IF before + 1 <= last THEN last - (before + 1) + 1 ELSE 0
        /\ \A k \in 1 .. last - (before + 1) + 1 :
                SubSeq(listing, before + 1, last)[k] = listing[before + 1 + k - 1]
    BY <1>5, <1>6, SubSeqProperties
  <2>. QED BY <1>3, <2>1
<1>8. Len(page) = IF before < last THEN last - before ELSE 0
  <2> DEFINE len == Len(page)
  <2>1. len = IF before + 1 <= last THEN last - (before + 1) + 1 ELSE 0
    BY <1>7
  <2> HIDE DEF len
  <2>2. len = IF before < last THEN last - before ELSE 0
    BY <1>1, <1>2, <2>1
  <2>. QED BY <2>2 DEF len
<1>9. Len(page) \in 0 .. size
  BY <1>1, <1>2, <1>8
<1>10. ASSUME NEW k \in 1 .. Len(page)
       PROVE  before + k \in 1 .. length /\ page[k] = listing[before + k]
  <2>1. /\ before + k \in 1 .. length
        /\ k \in 1 .. last - (before + 1) + 1 /\ before + 1 + k - 1 = before + k
    BY <1>1, <1>2, <1>8
  <2>. QED BY <1>7, <2>1
<1>11. IsInjective(page)
  <2>1. DOMAIN page = 1 .. Len(page)
    BY <1>7, MembersForm
  <2> SUFFICES ASSUME NEW k \in 1 .. Len(page), NEW l \in 1 .. Len(page), page[k] = page[l]
               PROVE  k = l
    BY <2>1 DEF IsInjective
  <2>2. before + k = before + l
    BY <1>2, <1>10
  <2>. QED BY <1>1, <2>2
<1>12. before + size < length => Len(page) = size
  BY <1>1, <1>2, <1>8
<1>13. (page # <<>> /\ ~(before + size < length)) => before + Len(page) = length
  <2>1. page # <<>> => Len(page) # 0
    BY <1>7, EmptySeq
  <2>2. (Len(page) # 0 /\ ~(before + size < length)) => before + Len(page) = length
    BY <1>1, <1>2, <1>8
  <2>. QED BY <2>1, <2>2
<1>. QED BY <1>1, <1>4, <1>7, <1>9, <1>10, <1>11, <1>12, <1>13 DEF before, size, length, page

-----------------------------------------------------------------------------
(* The answer.                                                             *)

Counted(tags) == IF Len(tags) < Limit THEN Len(tags) ELSE Limit
First(tags) == {tags[i] : i \in 1 .. Counted(tags)}

(* The answer is the greatest stable release of those that count.          *)
LEMMA AnswerForm ==
    ASSUME NEW tags \in Seq(Releases)
    PROVE  /\ Answer(tags) \in Releases \cup {0}
           /\ Answer(tags) # 0 =>
                /\ Answer(tags) \in First(tags)
                /\ \A r \in First(tags) \cap Stable : r <= Answer(tags)
<1> DEFINE n == Counted(tags)
           versions == First(tags) \cap Stable
<1>1. Releases \subseteq Nat \ {0} /\ Limit \in Nat \ {0}
  BY ListingAssumption
<1>2. Len(tags) \in Nat /\ \A i \in 1 .. Len(tags) : tags[i] \in Releases
  BY MembersForm
<1>3. n \in 0 .. Len(tags)
  BY <1>1, <1>2 DEF Counted
<1>4. Answer(tags) = IF versions = {} THEN 0 ELSE Max(versions)
  <2>1. ToSet(SubSeq(tags, 1, n)) = First(tags)
    BY <1>3, PrefixForm DEF First
  <2>2. Answer(tags) = IF ToSet(SubSeq(tags, 1, n)) \cap Stable = {} THEN 0
                       ELSE Max(ToSet(SubSeq(tags, 1, n)) \cap Stable)
    BY DEF Answer, Counted
  <2>. QED BY <2>1, <2>2
<1> HIDE DEF n
<1>5. \A i \in 1 .. n : i \in 1 .. Len(tags)
  BY <1>2, <1>3
<1>6. First(tags) = {tags[i] : i \in 1 .. n}
  BY DEF First, n
<1>7. First(tags) \subseteq Releases
  BY <1>2, <1>5, <1>6
<1>8. PICK u \in Nat : \A i \in 1 .. Len(tags) : tags[i] <= u
  <2>1. tags \in Seq(Nat)
    BY <1>1, SeqMonotonic
  <2>. QED BY <2>1, SequenceIsBounded
<1>9. versions \in SUBSET Nat /\ \A x \in versions : x <= u
  BY <1>1, <1>5, <1>6, <1>7, <1>8
<1>10. versions # {} => Max(versions) \in versions /\ \A x \in versions : x <= Max(versions)
  BY <1>9, MaxForm
<1>. QED BY <1>4, <1>7, <1>10

(* All releases count, up to the limit.                                    *)
LEMMA CountedForm ==
    ASSUME NEW tags \in Seq(Releases)
    PROVE  /\ Counted(tags) \in 0 .. Len(tags) /\ Counted(tags) <= Limit
           /\ Len(tags) >= Limit => Counted(tags) = Limit
           /\ ~(Len(tags) >= Limit) => Counted(tags) = Len(tags)
<1>1. Len(tags) \in Nat /\ Limit \in Nat
  BY MembersForm, ListingAssumption
<1>. QED BY <1>1 DEF Counted

(* No release that was read was more than d places lower at the beginning. *)
Near(began, tags, d) ==
    \A j \in 1 .. Len(tags) : \E i \in 1 .. Len(began) : i <= j + d /\ began[i] = tags[j]

(* Enough were read, or as many as there are, d of which are there no more.*)
Exhausted(tags, live, d) ==
    \/ Len(tags) >= Limit
    \/ /\ IsFiniteSet(live) /\ Cardinality(live) = Len(tags)
       /\ IsFiniteSet(ToSet(tags) \ live) /\ Cardinality(ToSet(tags) \ live) <= d

(* The first releases that were read are as many as the first that there   *)
(* were, or as there are at last, so that no more of these are missing     *)
(* than of those are not among them.                                       *)
LEMMA CountForm ==
    ASSUME NEW began \in Seq(Releases), IsInjective(began),
           NEW tags \in Seq(Releases), IsInjective(tags),
           NEW live, NEW d \in Nat,
           Near(began, tags, d), Exhausted(tags, live, d), Answer(tags) # 0
    PROVE  /\ Cardinality({r \in Stable \cap live :
                    r > Answer(tags) /\ \E i \in 1 .. Len(began) : i <= Limit /\ began[i] = r}) <= d
           /\ \E i \in 1 .. Len(began) : i <= Limit + d /\ began[i] = Answer(tags)
<1> DEFINE n == Counted(tags)
           answer == Answer(tags)
           Before(r) == \E i \in 1 .. Len(began) : i <= Limit /\ began[i] = r
           missed == {r \in Stable \cap live : r > answer /\ Before(r)}
<1>1. Limit \in Nat \ {0} /\ Releases \subseteq Nat \ {0} /\ Stable \subseteq Releases
  BY ListingAssumption
<1>2. /\ Len(tags) \in Nat /\ Len(began) \in Nat
      /\ \A i \in 1 .. Len(began) : began[i] \in Releases
      /\ DOMAIN tags = 1 .. Len(tags)
  BY MembersForm
<1>3. /\ n \in 0 .. Len(tags) /\ n <= Limit
      /\ Len(tags) >= Limit => n = Limit
      /\ ~(Len(tags) >= Limit) => n = Len(tags)
  BY CountedForm
<1>4. /\ answer \in Releases
      /\ answer \in First(tags) /\ \A r \in First(tags) \cap Stable : r <= answer
  BY AnswerForm
<1>5. IsFiniteSet(First(tags)) /\ Cardinality(First(tags)) = n
  BY <1>3, ElementsForm DEF First
<1>6. \A r \in missed : r \notin First(tags)
  <2> SUFFICES ASSUME NEW r \in missed, r \in First(tags) PROVE FALSE
    OBVIOUS
  <2>1. r \in Stable /\ r > answer
    OBVIOUS
  <2>2. r \in Nat /\ answer \in Nat
    BY <1>1, <1>4, <2>1
  <2> HIDE DEF missed, answer
  <2>3. r <= answer
    BY <1>4, <2>1
  <2>. QED BY <2>1, <2>2, <2>3
<1>7. \E i \in 1 .. Len(began) : i <= Limit + d /\ began[i] = answer
  <2>1. PICK j \in 1 .. n : tags[j] = answer
    BY <1>4 DEF First
  <2>2. j \in 1 .. Len(tags)
    BY <1>2, <1>3
  <2>3. PICK i \in 1 .. Len(began) : i <= j + d /\ began[i] = tags[j]
    BY <2>2 DEF Near
  <2>4. i <= Limit + d
    <3>1. i \in Nat /\ j \in Nat /\ n \in Nat /\ j <= n
      BY <1>2, <1>3
    <3> HIDE DEF n
    <3>. QED BY <1>1, <1>3, <2>3, <3>1
  <2>. QED BY <2>1, <2>3, <2>4
<1>8. Cardinality(missed) <= d
  <2>1. CASE Len(tags) >= Limit
    <3> DEFINE m == IF Len(began) < Limit THEN Len(began) ELSE Limit
               top == {began[i] : i \in 1 .. m}
               low == {j \in 1 .. Limit : j + d > Limit}
               moved == {tags[j] : j \in low}
    <3>1. m \in 0 .. Len(began) /\ m <= Limit
      BY <1>1, <1>2
    <3>2. IsFiniteSet(top) /\ Cardinality(top) = m
      <4> HIDE DEF m
      <4>. QED BY <3>1, ElementsForm
    <3>3. \A r : Before(r) <=> r \in top
      <4>1. \A i : (i \in 1 .. Len(began) /\ i <= Limit) <=> i \in 1 .. m
        BY <1>1, <1>2
      <4> HIDE DEF m
      <4>. QED BY <4>1
    <3>4. Cardinality(top \ First(tags)) <= Cardinality(First(tags) \ top)
      <4>1. Cardinality(top) <= Cardinality(First(tags))
        BY <1>3, <1>5, <2>1, <3>1, <3>2
      <4> HIDE DEF top
      <4>. QED BY <1>5, <3>2, <4>1, OwnElements
    <3>5. IsFiniteSet(low) /\ Cardinality(low) <= d
      <4> DEFINE interval == (Limit - d + 1) .. Limit
      <4>1. Limit - d + 1 \in Int /\ Limit \in Int
        BY <1>1
      <4>2. /\ IsFiniteSet(interval)
            /\ Cardinality(interval) =
                  IF Limit - d + 1 > Limit THEN 0 ELSE Limit - (Limit - d + 1) + 1
        BY <4>1, FS_Interval
      <4>3. Cardinality(interval) <= d
        <5>1. IF Limit - d + 1 > Limit THEN 0 <= d ELSE Limit - (Limit - d + 1) + 1 <= d
          BY <1>1
        <5>. QED BY <4>2, <5>1
      <4>4. low \in SUBSET interval
        BY <1>1
      <4> HIDE DEF low, interval
      <4>5. IsFiniteSet(low) /\ Cardinality(low) <= Cardinality(interval)
        BY <4>2, <4>4, FS_Subset
      <4>6. Cardinality(low) \in Nat /\ Cardinality(interval) \in Nat
        BY <4>2, <4>5, FS_CardinalityType
      <4>. QED BY <4>3, <4>5, <4>6
    <3>6. IsFiniteSet(moved) /\ Cardinality(moved) <= d
      <4> HIDE DEF low
      <4>1. IsFiniteSet(moved) /\ Cardinality(moved) <= Cardinality(low)
        BY <3>5, ValuesForm
      <4> HIDE DEF moved
      <4>2. Cardinality(moved) \in Nat /\ Cardinality(low) \in Nat
        BY <3>5, <4>1, FS_CardinalityType
      <4>. QED BY <3>5, <4>1, <4>2
    <3>7. First(tags) \ top \subseteq moved
      <4> SUFFICES ASSUME NEW x \in First(tags), x \notin top PROVE x \in moved
        OBVIOUS
      <4>1. PICK j \in 1 .. n : tags[j] = x
        BY DEF First
      <4>2. j \in 1 .. Len(tags) /\ j \in 1 .. Limit
        <5>1. n = Limit /\ Limit <= Len(tags) /\ Limit \in Nat /\ Len(tags) \in Nat
          BY <1>1, <1>2, <1>3, <2>1
        <5>2. j \in 1 .. Limit
          BY <5>1
        <5>. QED BY <5>1, <5>2
      <4>3. PICK i \in 1 .. Len(began) : i <= j + d /\ began[i] = tags[j]
        BY <4>2 DEF Near
      <4>4. ~(i <= Limit)
        BY <3>3, <4>1, <4>3
      <4>5. j + d > Limit
        BY <1>1, <1>2, <4>2, <4>3, <4>4
      <4>. QED BY <4>1, <4>2, <4>5
    <3>8. missed \subseteq top \ First(tags)
      BY <1>6, <3>3
    <3> HIDE DEF top, low, moved, missed
    <3>9. IsFiniteSet(First(tags) \ top) /\ Cardinality(First(tags) \ top) <= Cardinality(moved)
      BY <3>6, <3>7, FS_Subset
    <3>10. IsFiniteSet(top \ First(tags))
      BY <3>2, FS_Difference
    <3>11. IsFiniteSet(missed) /\ Cardinality(missed) <= Cardinality(top \ First(tags))
      BY <3>8, <3>10, FS_Subset
    <3>. QED
      <4> DEFINE a == Cardinality(missed)
                 b == Cardinality(top \ First(tags))
                 c == Cardinality(First(tags) \ top)
                 e == Cardinality(moved)
      <4>1. a \in Nat /\ b \in Nat /\ c \in Nat /\ e \in Nat
        BY <3>6, <3>9, <3>10, <3>11, FS_CardinalityType
      <4>2. a <= b /\ b <= c /\ c <= e /\ e <= d
        BY <3>4, <3>6, <3>9, <3>11
      <4> HIDE DEF a, b, c, e
      <4>3. a <= d
        BY <4>1, <4>2
      <4>. QED BY <4>3 DEF a
  <2>2. CASE ~(Len(tags) >= Limit)
    <3>1. First(tags) = ToSet(tags)
      BY <1>2, <1>3, <2>2 DEF First, ToSet
    <3>2. /\ IsFiniteSet(live) /\ Cardinality(live) = Len(tags)
          /\ IsFiniteSet(ToSet(tags) \ live) /\ Cardinality(ToSet(tags) \ live) <= d
      BY <2>2 DEF Exhausted
    <3>3. Cardinality(live \ First(tags)) <= Cardinality(First(tags) \ live)
      <4>1. Cardinality(live) <= Cardinality(First(tags))
        BY <1>2, <1>3, <1>5, <2>2, <3>2
      <4>. QED BY <1>5, <3>2, <4>1, OwnElements
    <3>4. missed \subseteq live \ First(tags)
      BY <1>6
    <3> HIDE DEF missed
    <3>5. IsFiniteSet(live \ First(tags))
      BY <3>2, FS_Difference
    <3>6. IsFiniteSet(missed) /\ Cardinality(missed) <= Cardinality(live \ First(tags))
      BY <3>4, <3>5, FS_Subset
    <3>. QED
      <4> DEFINE a == Cardinality(missed)
                 b == Cardinality(live \ First(tags))
                 c == Cardinality(First(tags) \ live)
      <4>1. a \in Nat /\ b \in Nat /\ c \in Nat
        BY <3>1, <3>2, <3>5, <3>6, FS_CardinalityType
      <4>2. a <= b /\ b <= c /\ c <= d
        BY <3>1, <3>2, <3>3, <3>6
      <4> HIDE DEF a, b, c
      <4>3. a <= d
        BY <4>1, <4>2
      <4>. QED BY <4>3 DEF a
  <2>. QED BY <2>1, <2>2
<1>. QED BY <1>7, <1>8

-----------------------------------------------------------------------------
(* The type.                                                               *)

(* What a page adds to the call, if it is neither empty nor repeats a      *)
(* release, and where it leads to.                                         *)
Shows(n) ==
    /\ scan'.tags = scan.tags \o Page(n)
    /\ ToSet(Page(n)) \cap ToSet(scan.tags) = {}
    /\ Page(n) # <<>>
    /\ \/ scan'.phase = "reading" /\ HasNext(n)
       \/ /\ scan'.phase = "answered"
          /\ scan'.answer = Answer(scan'.tags) /\ scan'.answer # 0
          /\ Len(scan'.tags) >= Limit \/ ~HasNext(n)

(* A page that is read fails the call, or shows only new releases.         *)
LEMMA ReadPageEffect ==
    ASSUME TypeOK, ReadPage
    PROVE  /\ scan.phase \in {"idle", "reading"} /\ scan.page \in Nat
           /\ UNCHANGED <<listing, used, designated, deletions>>
           /\ scan' \in Scan
           /\ scan'.page = scan.page + 1 /\ scan'.burst = scan.burst
           /\ scan'.began = IF scan.page + 1 = 1 THEN listing ELSE scan.began
           /\ scan'.phase = "failed" \/ Shows(scan.page + 1)
<1>1. PICK old \in Scan : old = scan
  BY DEF TypeOK
<1> DEFINE n == old.page + 1
           page == Page(n)
           began == IF n = 1 THEN listing ELSE old.began
           tags == old.tags \o page
           s == [old EXCEPT !.phase = "reading", !.page = n, !.tags = tags, !.began = began]
           broken == page = <<>> \/ ToSet(page) \cap ToSet(old.tags) # {}
<1>2. /\ old.page \in 0 .. Pages /\ old.page < Pages /\ Pages \in Nat
      /\ old.phase \in {"idle", "reading"}
      /\ UNCHANGED <<listing, used, designated, deletions>>
      /\ old.tags \in Seq(Releases) /\ old.began \in Seq(Releases)
      /\ listing \in Seq(Releases)
  BY <1>1, ListingAssumption DEF ReadPage, TypeOK, Scan
<1>3. page \in Seq(Releases)
  <2>1. PICK m \in Nat : m = old.page
    BY <1>2
  <2>2. Page(m + 1) \in Seq(Releases)
    BY PageForm
  <2>. QED BY <2>1, <2>2
<1>4. n \in 0 .. Pages
  BY <1>2
<1>5. scan' = CASE broken -> [s EXCEPT !.phase = "failed", !.tags = old.tags]
                [] ~broken /\ (Len(s.tags) >= Limit \/ ~HasNext(n)) -> Finish(s)
                [] ~broken /\ Len(s.tags) < Limit /\ HasNext(n) /\ n = Pages ->
                        [s EXCEPT !.phase = "failed"]
                [] OTHER -> s
  BY <1>1 DEF ReadPage
<1>6. tags \in Seq(Releases)
  BY <1>2, <1>3, ConcatForm
<1>7. began \in Seq(Releases)
  BY <1>2
<1> HIDE DEF page, tags, began, n
<1>8. /\ s \in Scan /\ s.tags = tags /\ s.page = n /\ s.began = began /\ s.phase = "reading"
      /\ s.burst = old.burst
  BY <1>4, <1>6, <1>7 DEF Scan
<1>9. ASSUME broken
      PROVE  /\ scan' \in Scan /\ scan'.phase = "failed"
             /\ scan'.page = n /\ scan'.burst = old.burst /\ scan'.began = began
  <2>1. scan' = [s EXCEPT !.phase = "failed", !.tags = old.tags]
    BY <1>5, <1>9
  <2> HIDE DEF s
  <2>. QED BY <1>2, <1>8, <2>1 DEF Scan
<1>10. ASSUME ~broken, Len(tags) >= Limit \/ ~HasNext(n)
       PROVE  /\ scan' \in Scan
              /\ scan'.page = n /\ scan'.burst = old.burst /\ scan'.began = began
              /\ \/ scan'.phase = "failed"
                 \/ /\ scan'.phase = "answered" /\ scan'.tags = tags
                    /\ scan'.answer = Answer(tags) /\ scan'.answer # 0
  <2>1. scan' = Finish(s)
    <3>1. Len(s.tags) \in Nat /\ Limit \in Nat
      BY <1>6, <1>8, MembersForm, ListingAssumption
    <3>2. /\ ~broken /\ (Len(s.tags) >= Limit \/ ~HasNext(n))
          /\ ~(Len(s.tags) < Limit /\ HasNext(n))
      BY <1>8, <1>10, <3>1
    <3> HIDE DEF s, broken
    <3>. QED BY <1>5, <3>2
  <2>2. Answer(tags) \in Releases \cup {0}
    BY <1>6, AnswerForm
  <2> HIDE DEF s
  <2>3. CASE Answer(tags) = 0
    <3>1. scan' = [s EXCEPT !.phase = "failed"]
      BY <1>8, <2>1, <2>3 DEF Finish
    <3>. QED BY <1>8, <3>1 DEF Scan
  <2>4. CASE Answer(tags) # 0
    <3>1. scan' = [s EXCEPT !.phase = "answered", !.answer = Answer(tags)]
      BY <1>8, <2>1, <2>4 DEF Finish
    <3>. QED BY <1>8, <2>2, <2>4, <3>1 DEF Scan
  <2>. QED BY <2>3, <2>4
<1>11. ASSUME ~broken, ~(Len(tags) >= Limit), HasNext(n)
       PROVE  /\ scan' \in Scan
              /\ scan'.page = n /\ scan'.burst = old.burst /\ scan'.began = began
              /\ \/ scan'.phase = "failed"
                 \/ scan'.phase = "reading" /\ scan'.tags = tags
  <2>1. scan' = s \/ scan' = [s EXCEPT !.phase = "failed"]
    BY <1>5, <1>8, <1>11
  <2> HIDE DEF s
  <2>2. CASE scan' = s
    BY <1>8, <2>2
  <2>3. CASE scan' = [s EXCEPT !.phase = "failed"]
    BY <1>8, <2>3 DEF Scan
  <2>. QED BY <2>1, <2>2, <2>3
<1>12. /\ scan' \in Scan
       /\ scan'.page = n /\ scan'.burst = old.burst /\ scan'.began = began
       /\ scan'.phase = "failed" \/ Shows(n)
  <2>1. CASE broken
    BY <1>9, <2>1
  <2>2. CASE ~broken /\ (Len(tags) >= Limit \/ ~HasNext(n))
    <3>1. page # <<>> /\ ToSet(page) \cap ToSet(old.tags) = {}
      BY <2>2
    <3>. QED BY <1>1, <1>10, <2>2, <3>1 DEF Shows, page, tags
  <2>3. CASE ~broken /\ ~(Len(tags) >= Limit) /\ HasNext(n)
    <3>1. page # <<>> /\ ToSet(page) \cap ToSet(old.tags) = {}
      BY <2>3
    <3>. QED BY <1>1, <1>11, <2>3, <3>1 DEF Shows, page, tags
  <2>. QED BY <2>1, <2>2, <2>3
<1>. QED BY <1>1, <1>2, <1>12 DEF n, began

(* What was read stays so while the listing changes.                       *)
Kept ==
    /\ scan.phase = "reading" /\ scan'.phase = "reading"
    /\ scan'.page = scan.page /\ scan'.tags = scan.tags /\ scan'.began = scan.began

(* A release that is published pushes the others down by one.              *)
LEMMA PublishEffect ==
    ASSUME TypeOK, NEW r \in Releases, Publish(r)
    PROVE  /\ TypeOK' /\ Kept
           /\ scan'.burst = scan.burst + 1 /\ deletions' = deletions
           /\ r \notin used /\ used' = used \cup {r}
           /\ ToSet(listing') = {r} \cup ToSet(listing)
           /\ \A p \in 1 .. Len(listing') :
                p > 1 => p - 1 \in 1 .. Len(listing) /\ listing'[p] = listing[p - 1]
<1>1. PICK old \in Scan : old = scan
  BY DEF TypeOK
<1>2. /\ listing \in Seq(Releases) /\ IsInjective(listing)
      /\ used \subseteq Releases /\ ToSet(listing) \subseteq used
      /\ designated \in ToSet(listing) \cup {0} /\ deletions \in 0 .. MaxDeletions
      /\ old.burst \in 0 .. MaxBurst /\ MaxBurst \in Nat
  BY <1>1, ListingAssumption DEF TypeOK, Scan
<1>3. /\ old.phase = "reading" /\ old.burst < MaxBurst /\ r \notin used
      /\ listing' = <<r>> \o listing /\ used' = used \cup {r}
      /\ designated' \in {designated, r} /\ deletions' = deletions
      /\ scan' = [old EXCEPT !.burst = old.burst + 1]
  BY <1>1 DEF Publish
<1>7. /\ listing' \in Seq(Releases) /\ Len(listing') = 1 + Len(listing)
      /\ \A p \in 1 .. Len(listing) : listing'[1 + p] = listing[p]
      /\ ToSet(listing') = {r} \cup ToSet(listing)
      /\ IsInjective(listing')
  <2>1. PICK seq \in Seq(Releases) : seq = listing
    BY <1>2
  <2>2. IsInjective(seq) /\ r \notin ToSet(seq)
    BY <1>2, <1>3, <2>1
  <2>. QED BY <1>3, <2>1, <2>2, PrependForm
<1>8. \A p \in 1 .. Len(listing') :
        p > 1 => p - 1 \in 1 .. Len(listing) /\ listing'[p] = listing[p - 1]
  <2> TAKE p \in 1 .. Len(listing')
  <2> HAVE p > 1
  <2>1. Len(listing) \in Nat
    BY <1>2, MembersForm
  <2>2. p - 1 \in 1 .. Len(listing) /\ 1 + (p - 1) = p
    BY <1>7, <2>1
  <2>. QED BY <1>7, <2>2
<1>9. scan' \in Scan /\ Kept /\ scan'.burst = scan.burst + 1
  <2>1. old.burst + 1 \in 0 .. MaxBurst
    BY <1>2, <1>3
  <2>. QED BY <1>1, <1>3, <2>1 DEF Scan, Kept
<1>10. TypeOK'
  BY <1>2, <1>3, <1>7, <1>9 DEF TypeOK
<1>. QED BY <1>3, <1>7, <1>8, <1>9, <1>10

(* One that is deleted lets those below it come up by one.                 *)
LEMMA DeleteEffect ==
    ASSUME TypeOK, NEW i \in DOMAIN listing, Delete(i)
    PROVE  /\ TypeOK' /\ Kept
           /\ scan' = scan /\ deletions' = deletions + 1 /\ used' = used
           /\ listing[i] \in used
           /\ ToSet(listing') = ToSet(listing) \ {listing[i]}
           /\ \A p \in 1 .. Len(listing') :
                \/ p \in 1 .. Len(listing) /\ listing'[p] = listing[p]
                \/ p + 1 \in 1 .. Len(listing) /\ listing'[p] = listing[p + 1]
<1>1. /\ listing \in Seq(Releases) /\ IsInjective(listing)
      /\ used \subseteq Releases /\ ToSet(listing) \subseteq used
      /\ designated \in ToSet(listing) \cup {0} /\ deletions \in 0 .. MaxDeletions
      /\ scan \in Scan /\ MaxDeletions \in Nat
  BY ListingAssumption DEF TypeOK
<1>2. /\ deletions < MaxDeletions /\ deletions' = deletions + 1
      /\ scan.phase = "reading" /\ listing' = RemoveAt(listing, i)
      /\ designated' = IF designated = listing[i] THEN 0 ELSE designated
      /\ scan' = scan /\ used' = used
  BY DEF Delete
<1>3. PICK seq \in Seq(Releases) : seq = listing
  BY <1>1
<1>4. PICK k \in 1 .. Len(seq) : k = i
  BY <1>3, MembersForm
<1>5. /\ listing' \in Seq(Releases) /\ Len(listing') = Len(seq) - 1
      /\ \A p \in 1 .. Len(seq) - 1 : listing'[p] = IF p < k THEN seq[p] ELSE seq[p + 1]
  BY <1>2, <1>3, <1>4, RemoveForm
<1>6. IsInjective(listing') /\ ToSet(listing') = ToSet(seq) \ {seq[k]}
  BY <1>1, <1>2, <1>3, <1>4, RemovedForm
<1>7. Len(seq) \in Nat /\ seq[k] \in ToSet(seq)
  BY MembersForm
<1>8. \A p \in 1 .. Len(seq) - 1 :
        \/ p \in 1 .. Len(seq) /\ listing'[p] = seq[p]
        \/ p + 1 \in 1 .. Len(seq) /\ listing'[p] = seq[p + 1]
  <2> TAKE p \in 1 .. Len(seq) - 1
  <2>1. p \in 1 .. Len(seq) /\ p + 1 \in 1 .. Len(seq)
    BY <1>7
  <2>. QED BY <1>5, <2>1
<1>9. deletions' \in 0 .. MaxDeletions
  BY <1>1, <1>2
<1>10. designated' \in ToSet(listing') \cup {0}
  BY <1>1, <1>2, <1>3, <1>4, <1>6
<1>11. TypeOK'
  BY <1>1, <1>2, <1>3, <1>5, <1>6, <1>9, <1>10 DEF TypeOK
<1>. QED BY <1>1, <1>2, <1>3, <1>4, <1>5, <1>6, <1>7, <1>8, <1>11 DEF Kept

(* A call without a major version answers with what was designated.        *)
LEMMA ReadLatestEffect ==
    ASSUME TypeOK, ReadLatest
    PROVE  /\ TypeOK' /\ UNCHANGED <<listing, used, designated, deletions>>
           /\ scan.phase = "idle"
           /\ \/ scan'.phase = "failed"
              \/ /\ scan'.phase = "answered" /\ scan'.answer \in Releases
                 /\ scan'.began = <<scan'.answer>>
<1>0. NewScan \in Scan
  BY ListingAssumption DEF NewScan, Scan
<1>1. /\ NewScan \in Scan
      /\ designated \in Stable => designated \in Releases /\ <<designated>> \in Seq(Releases)
  <2>1. PICK d : d = designated
    OBVIOUS
  <2>2. d \in Stable => d \in Releases
    BY ListingAssumption
  <2>3. d \in Releases => <<d>> \in Seq(Releases)
    OBVIOUS
  <2>. QED BY <1>0, <2>1, <2>2, <2>3
<1>2. UNCHANGED <<listing, used, designated, deletions>> /\ scan.phase = "idle"
  BY DEF ReadLatest
<1>3. CASE designated \in Stable
  <2>1. scan' = [NewScan EXCEPT !.phase = "answered", !.began = <<designated>>,
                                !.answer = designated]
    BY <1>3 DEF ReadLatest
  <2>2. scan' \in Scan
    BY <1>1, <1>3, <2>1 DEF Scan
  <2>3. /\ scan'.phase = "answered" /\ scan'.answer \in Releases
        /\ scan'.began = <<scan'.answer>>
    BY <1>1, <1>3, <2>1 DEF Scan
  <2>. QED BY <1>2, <2>2, <2>3 DEF TypeOK
<1>4. CASE designated \notin Stable
  <2>1. scan' = [NewScan EXCEPT !.phase = "failed"]
    BY <1>4 DEF ReadLatest
  <2>2. scan' \in Scan /\ scan'.phase = "failed"
    BY <1>1, <2>1 DEF Scan
  <2>. QED BY <1>2, <2>2 DEF TypeOK
<1>. QED BY <1>3, <1>4

(* At first nothing is read.                                               *)
LEMMA InitType == Init => TypeOK
<1> SUFFICES ASSUME Init PROVE TypeOK
  OBVIOUS
<1>1. /\ listing \in Seq(Releases) /\ IsInjective(listing) /\ used = ToSet(listing)
      /\ designated \in ToSet(listing) \cup {0} /\ deletions = 0
  BY ListingAssumption DEF Init
<1>2. used \subseteq Releases
  BY <1>1, MembersForm
<1>3. scan \in Scan /\ deletions \in 0 .. MaxDeletions
  BY <1>1, ListingAssumption DEF Init, NewScan, Scan
<1>. QED BY <1>1, <1>2, <1>3 DEF TypeOK

(* Every step keeps the type.                                              *)
LEMMA StepType == TypeOK /\ [Next]_vars => TypeOK'
<1> SUFFICES ASSUME TypeOK, [Next]_vars PROVE TypeOK'
  OBVIOUS
<1>1. CASE ReadLatest
  BY <1>1, ReadLatestEffect
<1>2. CASE ReadPage
  BY <1>2, ReadPageEffect DEF TypeOK
<1>3. ASSUME NEW r \in Releases, Publish(r)
      PROVE  TypeOK'
  BY <1>3, PublishEffect
<1>4. ASSUME NEW i \in DOMAIN listing, Delete(i)
      PROVE  TypeOK'
  BY <1>4, DeleteEffect
<1>5. CASE UNCHANGED vars
  BY <1>5 DEF vars, TypeOK
<1>. QED BY <1>1, <1>2, <1>3, <1>4, <1>5 DEF Next

(* The listing never repeats a release, the call keeps its type and        *)
(* answers with a release, whatever is published and deleted meanwhile.    *)
THEOREM TypeCorrect == Spec => []TypeOK
BY InitType, StepType, PTL DEF Spec

-----------------------------------------------------------------------------
(* The invariant.                                                          *)

(* One of the first k is one of the first l, if these are more.            *)
LEMMA AmongMore ==
    ASSUME NEW s \in Seq(Releases), NEW x, NEW k \in Nat, NEW l \in Nat, k <= l,
           Among(s, x, k)
    PROVE  Among(s, x, l)
<1>1. PICK i \in DOMAIN s : i <= k /\ s[i] = x
  BY DEF Among
<1>2. i \in Nat
  BY MembersForm
<1>3. i <= l
  BY <1>1, <1>2
<1>. QED BY <1>1, <1>3 DEF Among

(* At first nothing is lost.                                               *)
LEMMA InitInv == Init => ListingInv
<1> SUFFICES ASSUME Init PROVE ListingInv
  OBVIOUS
<1>1. TypeOK
  BY InitType
<1>2. scan = NewScan /\ scan.phase = "idle" /\ deletions = 0 /\ used = ToSet(listing)
  BY DEF Init, NewScan
<1>3. PagesInv /\ ShiftInv /\ AnswerIsSound
  BY <1>2 DEF PagesInv, ShiftInv, AnswerIsSound
<1>4. LostInv
  <2>1. used \ ToSet(listing) = {}
    BY <1>2
  <2>2. IsFiniteSet({}) /\ Cardinality({}) = 0
    BY FS_EmptySet
  <2>. QED BY <1>2, <2>1, <2>2 DEF LostInv
<1>. QED BY <1>1, <1>3, <1>4 DEF ListingInv

(* A release that is published was not there before, and all others go     *)
(* down by one, as the bound of those that were there does.                *)
LEMMA PublishKeeps ==
    ASSUME ListingInv, NEW r \in Releases, Publish(r)
    PROVE  ListingInv'
<1>1. /\ TypeOK' /\ Kept
      /\ scan'.burst = scan.burst + 1 /\ deletions' = deletions
      /\ r \notin used /\ used' = used \cup {r}
      /\ ToSet(listing') = {r} \cup ToSet(listing)
      /\ \A p \in 1 .. Len(listing') :
            p > 1 => p - 1 \in 1 .. Len(listing) /\ listing'[p] = listing[p - 1]
  BY PublishEffect DEF ListingInv
<1>2. PagesInv' /\ AnswerIsSound'
  BY <1>1 DEF ListingInv, PagesInv, Kept, AnswerIsSound
<1>3. LostInv'
  <2>1. used' \ ToSet(listing') = used \ ToSet(listing)
    BY <1>1
  <2>. QED BY <1>1, <2>1 DEF ListingInv, LostInv
<1>4. /\ scan.burst \in Nat /\ deletions \in Nat /\ scan.began \in Seq(Releases)
      /\ DOMAIN listing = 1 .. Len(listing) /\ DOMAIN listing' = 1 .. Len(listing')
      /\ Len(listing') \in Nat
  <2>1. listing \in Seq(Releases) /\ listing' \in Seq(Releases)
    BY <1>1 DEF ListingInv, TypeOK
  <2>2. DOMAIN listing = 1 .. Len(listing)
    BY <2>1, MembersForm
  <2>3. DOMAIN listing' = 1 .. Len(listing') /\ Len(listing') \in Nat
    BY <2>1, MembersForm
  <2>. QED BY <2>2, <2>3, ListingAssumption DEF ListingInv, TypeOK, Scan
<1>5. PICK began \in Seq(Releases), d \in Nat, burst \in Nat :
        began = scan.began /\ d = deletions /\ burst = scan.burst
  BY <1>4
<1>6. \A p \in DOMAIN listing : p > burst => Among(began, listing[p], p + d)
  BY <1>1, <1>5 DEF ListingInv, ShiftInv, Kept
<1>7. ASSUME NEW p \in DOMAIN listing', p > burst + 1
      PROVE  Among(began, listing'[p], p + d)
  <2>1. /\ p > 1 /\ p - 1 > burst /\ p - 1 + d \in Nat /\ p + d \in Nat
        /\ p - 1 + d <= p + d
    BY <1>4, <1>5, <1>7
  <2>2. p - 1 \in DOMAIN listing /\ listing'[p] = listing[p - 1]
    BY <1>1, <1>4, <2>1
  <2>3. PICK x : x = listing[p - 1]
    OBVIOUS
  <2>4. Among(began, x, p - 1 + d)
    BY <1>6, <2>1, <2>2, <2>3
  <2>5. Among(began, x, p + d)
    BY <1>5, <2>1, <2>4, AmongMore
  <2>. QED BY <2>2, <2>3, <2>5
<1>8. ShiftInv'
  <2>1. scan.phase = "reading" /\ ShiftInv
    BY <1>1 DEF Kept, ListingInv
  <2>2. /\ IsInjective(scan'.began) /\ IsInjective(scan'.tags)
        /\ ToSet(scan'.tags) \subseteq used'
        /\ \A j \in DOMAIN scan'.tags : Among(scan'.began, scan'.tags[j], j + deletions')
    BY <1>1, <2>1 DEF Kept, ShiftInv
  <2>3. \A p \in DOMAIN listing' :
            p > scan'.burst => Among(scan'.began, listing'[p], p + deletions')
    BY <1>1, <1>5, <1>7 DEF Kept
  <2>. QED BY <2>2, <2>3 DEF ShiftInv
<1>. QED BY <1>1, <1>2, <1>3, <1>8 DEF ListingInv

(* One that is deleted is one more that is lost, and others come up by one *)
(* at most.                                                                *)
LEMMA DeleteKeeps ==
    ASSUME ListingInv, NEW i \in DOMAIN listing, Delete(i)
    PROVE  ListingInv'
<1>1. /\ TypeOK' /\ Kept
      /\ scan' = scan /\ deletions' = deletions + 1 /\ used' = used
      /\ listing[i] \in used
      /\ ToSet(listing') = ToSet(listing) \ {listing[i]}
      /\ \A p \in 1 .. Len(listing') :
            \/ p \in 1 .. Len(listing) /\ listing'[p] = listing[p]
            \/ p + 1 \in 1 .. Len(listing) /\ listing'[p] = listing[p + 1]
  BY DeleteEffect DEF ListingInv
<1>2. PagesInv' /\ AnswerIsSound'
  BY <1>1 DEF ListingInv, PagesInv, Kept, AnswerIsSound
<1>3. /\ scan.burst \in Nat /\ deletions \in Nat
      /\ scan.began \in Seq(Releases) /\ scan.tags \in Seq(Releases)
      /\ DOMAIN listing = 1 .. Len(listing) /\ DOMAIN listing' = 1 .. Len(listing')
      /\ Len(listing') \in Nat
  <2>1. listing \in Seq(Releases) /\ listing' \in Seq(Releases)
    BY <1>1 DEF ListingInv, TypeOK
  <2>2. DOMAIN listing = 1 .. Len(listing)
    BY <2>1, MembersForm
  <2>3. DOMAIN listing' = 1 .. Len(listing') /\ Len(listing') \in Nat
    BY <2>1, MembersForm
  <2>. QED BY <2>2, <2>3, ListingAssumption DEF ListingInv, TypeOK, Scan
<1>4. LostInv'
  <2>1. PICK lost, x : lost = used \ ToSet(listing) /\ x = listing[i]
    OBVIOUS
  <2>2. IsFiniteSet(lost) /\ Cardinality(lost) <= deletions
    BY <2>1 DEF ListingInv, LostInv
  <2>3. used' \ ToSet(listing') = lost \cup {x}
    BY <1>1, <2>1
  <2>4. /\ IsFiniteSet(lost \cup {x})
        /\ Cardinality(lost \cup {x}) \in {Cardinality(lost), Cardinality(lost) + 1}
    BY <2>2, FS_AddElement
  <2>5. Cardinality(lost) \in Nat
    BY <2>2, FS_CardinalityType
  <2>6. Cardinality(lost \cup {x}) <= deletions'
    BY <1>1, <1>3, <2>2, <2>4, <2>5
  <2>. QED BY <2>3, <2>4, <2>6 DEF LostInv
<1>5. PICK began \in Seq(Releases), tags \in Seq(Releases), d \in Nat, burst \in Nat :
        /\ began = scan.began /\ tags = scan.tags /\ d = deletions /\ burst = scan.burst
  BY <1>3
<1>6. /\ \A p \in DOMAIN listing : p > burst => Among(began, listing[p], p + d)
      /\ \A j \in DOMAIN tags : Among(began, tags[j], j + d)
  BY <1>1, <1>5 DEF ListingInv, ShiftInv, Kept
<1>7. ASSUME NEW p \in DOMAIN listing', p > burst
      PROVE  Among(began, listing'[p], p + (d + 1))
  <2>1. /\ p \in 1 .. Len(listing') /\ p + d \in Nat /\ p + (d + 1) \in Nat
        /\ p + d <= p + (d + 1) /\ p + 1 + d = p + (d + 1) /\ p + 1 > burst
    <3>1. p \in 1 .. Len(listing')
      BY <1>3, ZenonT(20)
    <3>2. \A n \in Nat : 1 .. n \subseteq Nat
      OBVIOUS
    <3>3. p \in Nat
      BY <1>3, <3>1, <3>2, ZenonT(20)
    <3>4. \A a, b, c \in Nat : a > c =>
              /\ a + b \in Nat /\ a + (b + 1) \in Nat
              /\ a + b <= a + (b + 1) /\ a + 1 + b = a + (b + 1) /\ a + 1 > c
      OBVIOUS
    <3>. QED BY <1>5, <1>7, <3>1, <3>3, <3>4, ZenonT(20)
  <2>2. CASE p \in DOMAIN listing /\ listing'[p] = listing[p]
    <3>1. PICK x : x = listing[p]
      OBVIOUS
    <3>2. Among(began, x, p + d)
      BY <1>6, <1>7, <2>2, <3>1
    <3>3. Among(began, x, p + (d + 1))
      BY <1>5, <2>1, <3>2, AmongMore
    <3>. QED BY <2>2, <3>1, <3>3
  <2>3. CASE p + 1 \in DOMAIN listing /\ listing'[p] = listing[p + 1]
    <3>1. Among(began, listing[p + 1], p + 1 + d)
      BY <1>6, <2>1, <2>3
    <3>. QED BY <2>1, <2>3, <3>1
  <2>. QED BY <1>1, <1>3, <2>1, <2>2, <2>3
<1>8. ASSUME NEW j \in DOMAIN tags
      PROVE  Among(began, tags[j], j + (d + 1))
  <2>1. j \in Nat
    BY <1>5, MembersForm
  <2>2. j + d \in Nat /\ j + (d + 1) \in Nat /\ j + d <= j + (d + 1)
    BY <1>5, <2>1
  <2>3. Among(began, tags[j], j + d)
    BY <1>6
  <2>. QED BY <1>5, <2>2, <2>3, AmongMore
<1>9. ShiftInv'
  <2>1. scan.phase = "reading" /\ ShiftInv
    BY <1>1 DEF Kept, ListingInv
  <2>2. /\ IsInjective(scan'.began) /\ IsInjective(scan'.tags)
        /\ ToSet(scan'.tags) \subseteq used'
    BY <1>1, <2>1 DEF ShiftInv
  <2>3. \A p \in DOMAIN listing' :
            p > scan'.burst => Among(scan'.began, listing'[p], p + deletions')
    BY <1>1, <1>5, <1>7
  <2>4. \A j \in DOMAIN scan'.tags : Among(scan'.began, scan'.tags[j], j + deletions')
    BY <1>1, <1>5, <1>8
  <2>. QED BY <2>2, <2>3, <2>4 DEF ShiftInv
<1>. QED BY <1>1, <1>2, <1>4, <1>9 DEF ListingInv

(* A call that reads no page answers with all that counted.                *)
LEMMA ReadLatestKeeps ==
    ASSUME ListingInv, ReadLatest
    PROVE  ListingInv'
<1>1. /\ TypeOK' /\ UNCHANGED <<listing, used, designated, deletions>>
      /\ \/ scan'.phase = "failed"
         \/ /\ scan'.phase = "answered" /\ scan'.answer \in Releases
            /\ scan'.began = <<scan'.answer>>
  BY ReadLatestEffect DEF ListingInv
<1>2. PagesInv' /\ ShiftInv'
  BY <1>1 DEF PagesInv, ShiftInv
<1>3. LostInv'
  BY <1>1 DEF ListingInv, LostInv
<1>4. AnswerIsSound'
  <2> SUFFICES ASSUME scan'.phase = "answered"
               PROVE  MissesOnlyForDeletions' /\ AnswerIsAmongFirst'
    BY DEF AnswerIsSound
  <2>1. PICK answer \in Releases : answer = scan'.answer /\ scan'.began = <<answer>>
    BY <1>1
  <2>2. answer \in Nat /\ Limit \in Nat \ {0} /\ deletions' \in Nat
    BY <1>1, ListingAssumption DEF TypeOK
  <2>3. DOMAIN <<answer>> = {1} /\ <<answer>>[1] = answer
    OBVIOUS
  <2>4. MissesOnlyForDeletions'
    <3>1. ~(answer > answer)
      BY <2>2
    <3>2. Missed' = {}
      BY <2>1, <2>3, <3>1 DEF Missed
    <3>3. Cardinality({}) = 0
      BY FS_EmptySet
    <3>. QED BY <2>2, <3>2, <3>3 DEF MissesOnlyForDeletions
  <2>5. AnswerIsAmongFirst'
    <3>0. \A l \in Nat \ {0} : \A d \in Nat : 1 <= l + d
      OBVIOUS
    <3>1. 1 <= Limit + deletions'
      BY <2>2, <3>0
    <3>. QED BY <2>1, <2>3, <3>1 DEF AnswerIsAmongFirst
  <2>. QED BY <2>4, <2>5
<1>. QED BY <1>1, <1>2, <1>3, <1>4 DEF ListingInv

(* Where the next page begins, of which no release is too far up to have   *)
(* been there at the beginning: no more than a page was published since.   *)
LEMMA PageStart ==
    ASSUME ListingInv, MaxBurst <= PageSize, scan.phase \in {"idle", "reading"},
           NEW began, began = IF scan.page + 1 = 1 THEN listing ELSE scan.began
    PROVE  /\ began \in Seq(Releases) /\ IsInjective(began)
           /\ IsInjective(scan.tags) /\ ToSet(scan.tags) \subseteq used
           /\ Len(scan.tags) = scan.page * PageSize
           /\ \A j \in DOMAIN scan.tags : Among(began, scan.tags[j], j + deletions)
           /\ \A k \in Nat \ {0} :
                scan.page * PageSize + k \in DOMAIN listing =>
                    Among(began, listing[scan.page * PageSize + k],
                          scan.page * PageSize + k + deletions)
<1>1. /\ listing \in Seq(Releases) /\ IsInjective(listing) /\ deletions \in Nat
      /\ scan \in Scan /\ PageSize \in Nat \ {0} /\ MaxBurst \in Nat
  BY ListingAssumption DEF ListingInv, TypeOK
<1>2. CASE scan.phase = "idle"
  <2>1. /\ scan.page = 0 /\ scan.tags = <<>> /\ began = listing
    BY <1>2 DEF ListingInv, PagesInv, NewScan
  <2>2. 0 * PageSize = 0 /\ Len(<<>>) = 0 /\ DOMAIN <<>> = {}
    BY <1>1
  <2>3. IsInjective(<<>>) /\ ToSet(<<>>) = {}
    BY <2>2 DEF IsInjective, ToSet
  <2>4. ASSUME NEW k \in Nat \ {0}, k \in DOMAIN listing
        PROVE  Among(listing, listing[k], k + deletions)
    <3>1. k <= k + deletions
      BY <1>1
    <3>. QED BY <2>4, <3>1 DEF Among
  <2>5. ASSUME NEW k \in Nat \ {0}, scan.page * PageSize + k \in DOMAIN listing
        PROVE  Among(began, listing[scan.page * PageSize + k],
                     scan.page * PageSize + k + deletions)
    <3>1. scan.page * PageSize + k = k
      BY <1>1, <2>1
    <3>. QED BY <2>1, <2>4, <2>5, <3>1
  <2>. QED BY <1>1, <2>1, <2>2, <2>3, <2>5
<1>3. CASE scan.phase = "reading"
  <2>1. /\ scan.page >= 1 /\ Len(scan.tags) = scan.page * PageSize
    BY <1>3 DEF ListingInv, PagesInv
  <2>2. scan.page \in Nat /\ scan.burst \in Nat /\ scan.burst <= MaxBurst
    BY <1>1, ListingAssumption DEF Scan
  <2>3. began = scan.began /\ scan.began \in Seq(Releases)
    <3>1. scan.page + 1 # 1
      BY <2>1, <2>2
    <3>. QED BY <1>1, <3>1 DEF Scan
  <2>4. /\ IsInjective(scan.began) /\ IsInjective(scan.tags)
        /\ ToSet(scan.tags) \subseteq used
        /\ \A p \in DOMAIN listing :
                p > scan.burst => Among(scan.began, listing[p], p + deletions)
        /\ \A j \in DOMAIN scan.tags : Among(scan.began, scan.tags[j], j + deletions)
    BY <1>3 DEF ListingInv, ShiftInv
  <2>5. ASSUME NEW k \in Nat \ {0}
        PROVE  scan.page * PageSize + k > scan.burst
    <3>1. PICK page \in Nat, burst \in Nat : page = scan.page /\ burst = scan.burst
      BY <2>2
    <3>2. page >= 1 /\ burst <= MaxBurst
      BY <2>1, <2>2, <3>1
    <3>3. PICK m \in Nat : page = m + 1
      <4>1. page - 1 \in Nat /\ page = (page - 1) + 1
        BY <3>2
      <4>. QED BY <4>1
    <3>4. page * PageSize = m * PageSize + PageSize
      BY <1>1, <3>3
    <3>5. m * PageSize \in Nat
      BY <1>1
    <3>6. page * PageSize + k > burst
      BY <1>1, <3>2, <3>4, <3>5
    <3>. QED BY <3>1, <3>6
  <2>. QED BY <2>1, <2>3, <2>4, <2>5
<1>. QED BY <1>2, <1>3

(* What the call has read after a page is sound, and what there was as far *)
(* down as it got.                                                         *)
LEMMA PageAdds ==
    ASSUME ListingInv, MaxBurst <= PageSize, ReadPage, Shows(scan.page + 1)
    PROVE  /\ scan'.page \in Nat \ {0}
           /\ IsInjective(scan'.began) /\ IsInjective(scan'.tags)
           /\ ToSet(scan'.tags) \subseteq used
           /\ \A j \in DOMAIN scan'.tags : Among(scan'.began, scan'.tags[j], j + deletions)
           /\ HasNext(scan.page + 1) => Len(scan'.tags) = scan'.page * PageSize
           /\ ~HasNext(scan.page + 1) => Len(scan'.tags) = Len(listing)
<1>1. /\ scan.phase \in {"idle", "reading"} /\ scan.page \in Nat
      /\ scan'.page = scan.page + 1
      /\ scan'.began = IF scan.page + 1 = 1 THEN listing ELSE scan.began
  BY ReadPageEffect DEF ListingInv
<1>2. /\ scan'.tags = scan.tags \o Page(scan.page + 1)
      /\ ToSet(Page(scan.page + 1)) \cap ToSet(scan.tags) = {}
      /\ Page(scan.page + 1) # <<>>
  BY DEF Shows
<1>3. PICK began : began = scan'.began
  OBVIOUS
<1>4. /\ began \in Seq(Releases) /\ IsInjective(began)
      /\ IsInjective(scan.tags) /\ ToSet(scan.tags) \subseteq used
      /\ Len(scan.tags) = scan.page * PageSize
      /\ \A j \in DOMAIN scan.tags : Among(began, scan.tags[j], j + deletions)
      /\ \A k \in Nat \ {0} :
            scan.page * PageSize + k \in DOMAIN listing =>
                Among(began, listing[scan.page * PageSize + k],
                      scan.page * PageSize + k + deletions)
  BY <1>1, <1>3, PageStart
<1>5. PICK n \in Nat : n = scan.page
  BY <1>1
<1>6. /\ n * PageSize \in Nat /\ (n + 1) * PageSize = n * PageSize + PageSize
      /\ Page(n + 1) \in Seq(Releases) /\ IsInjective(Page(n + 1))
      /\ \A k \in 1 .. Len(Page(n + 1)) :
            /\ n * PageSize + k \in 1 .. Len(listing)
            /\ Page(n + 1)[k] = listing[n * PageSize + k]
      /\ HasNext(n + 1) => Len(Page(n + 1)) = PageSize
      /\ Page(n + 1) # <<>> /\ ~HasNext(n + 1)
            => n * PageSize + Len(Page(n + 1)) = Len(listing)
  BY PageForm DEF ListingInv
<1>7. scan.tags \in Seq(Releases) /\ listing \in Seq(Releases) /\ used \subseteq Releases
  BY DEF ListingInv, TypeOK, Scan
<1>8. PICK tags \in Seq(Releases), page \in Seq(Releases) :
        tags = scan.tags /\ page = Page(n + 1)
  BY <1>6, <1>7
<1>9. DOMAIN listing = 1 .. Len(listing) /\ ToSet(page) \subseteq used
  <2>1. PICK l \in Seq(Releases) : l = listing
    BY <1>7
  <2>2. DOMAIN l = 1 .. Len(l) /\ \A p \in 1 .. Len(l) : l[p] \in ToSet(l)
    BY MembersForm
  <2>3. \A x \in ToSet(page) : \E k \in 1 .. Len(page) : page[k] = x
    BY MembersForm
  <2>4. ToSet(l) \subseteq used
    BY <2>1 DEF ListingInv, TypeOK
  <2>. QED BY <1>6, <1>8, <2>1, <2>2, <2>3, <2>4
<1>10. tags \o page = scan'.tags /\ ToSet(tags) \cap ToSet(page) = {}
  BY <1>2, <1>5, <1>8
<1>11. /\ Len(tags \o page) = Len(tags) + Len(page)
       /\ \A p \in 1 .. Len(tags) : (tags \o page)[p] = tags[p]
       /\ \A p \in 1 .. Len(page) : (tags \o page)[Len(tags) + p] = page[p]
       /\ \A p \in 1 .. Len(tags) + Len(page) :
            p \in 1 .. Len(tags) \/ \E k \in 1 .. Len(page) : p = Len(tags) + k
       /\ ToSet(tags \o page) = ToSet(tags) \cup ToSet(page)
       /\ tags \o page \in Seq(Releases)
  BY ConcatForm
<1>12. IsInjective(tags \o page)
  <2>1. IsInjective(tags) /\ IsInjective(page)
    BY <1>4, <1>6, <1>8
  <2>. QED BY <1>10, <2>1, ConcatForm
<1>13. PICK read : read = tags \o page
  OBVIOUS
<1>14. DOMAIN tags = 1 .. Len(tags) /\ Len(tags) = n * PageSize
       /\ DOMAIN read = 1 .. Len(tags) + Len(page) /\ Len(page) \in Nat
       /\ Len(read) = Len(tags) + Len(page)
  <2>1. DOMAIN tags = 1 .. Len(tags) /\ Len(page) \in Nat
    BY MembersForm
  <2>2. DOMAIN (tags \o page) = 1 .. Len(tags \o page)
    BY <1>11, MembersForm
  <2>. QED BY <1>4, <1>5, <1>8, <1>11, <1>13, <2>1, <2>2
<1>15. ASSUME NEW j \in DOMAIN read
       PROVE  Among(began, read[j], j + deletions)
  <2>1. CASE j \in 1 .. Len(tags)
    <3>1. read[j] = tags[j] /\ j \in DOMAIN scan.tags
      BY <1>8, <1>11, <1>13, <1>14, <2>1
    <3>. QED BY <1>4, <1>8, <3>1
  <2>2. ASSUME NEW k \in 1 .. Len(page), j = Len(tags) + k
        PROVE  Among(began, read[j], j + deletions)
    <3>1. read[j] = page[k] /\ j = n * PageSize + k
      BY <1>11, <1>13, <1>14, <2>2
    <3>2. page[k] = listing[j] /\ j \in DOMAIN listing
      BY <1>6, <1>8, <1>9, <3>1
    <3>3. k \in Nat \ {0}
      BY <1>14
    <3>4. Among(began, listing[j], j + deletions)
      BY <1>4, <1>5, <3>1, <3>2, <3>3
    <3>. QED BY <3>1, <3>2, <3>4
  <2>. QED BY <1>11, <1>14, <2>1, <2>2
<1>16. HasNext(n + 1) => Len(read) = (n + 1) * PageSize
  BY <1>6, <1>8, <1>14
<1>17. ~HasNext(n + 1) => Len(read) = Len(listing)
  BY <1>2, <1>5, <1>6, <1>8, <1>14
<1>18. n + 1 \in Nat \ {0}
  OBVIOUS
<1>. QED
  <2>1. read = scan'.tags /\ scan'.page = n + 1 /\ began = scan'.began
    BY <1>1, <1>3, <1>5, <1>10, <1>13
  <2>2. IsInjective(scan'.tags) /\ ToSet(scan'.tags) \subseteq used
    BY <1>4, <1>8, <1>9, <1>10, <1>11, <1>12
  <2>3. IsInjective(scan'.began)
    BY <1>4, <2>1
  <2>4. \A j \in DOMAIN scan'.tags : Among(scan'.began, scan'.tags[j], j + deletions)
    BY <1>15, <2>1
  <2>. QED BY <1>5, <1>16, <1>17, <1>18, <2>1, <2>2, <2>3, <2>4

(* An answer counts what was read, and as many as there are.               *)
LEMMA ReadPageKeeps ==
    ASSUME ListingInv, MaxBurst <= PageSize, ReadPage
    PROVE  ListingInv'
<1>1. /\ UNCHANGED <<listing, used, designated, deletions>>
      /\ scan' \in Scan /\ scan'.burst = scan.burst
      /\ scan.phase \in {"idle", "reading"} /\ scan.page \in Nat
      /\ scan'.began = IF scan.page + 1 = 1 THEN listing ELSE scan.began
      /\ scan'.phase = "failed" \/ Shows(scan.page + 1)
  BY ReadPageEffect DEF ListingInv
<1>2. TypeOK'
  BY <1>1, StepType DEF ListingInv, Next
<1>3. LostInv'
  BY <1>1 DEF ListingInv, LostInv
<1>4. CASE scan'.phase = "failed"
  BY <1>2, <1>3, <1>4 DEF ListingInv, PagesInv, ShiftInv, AnswerIsSound
<1>5. CASE Shows(scan.page + 1)
  <2>1. /\ scan'.page \in Nat \ {0}
        /\ IsInjective(scan'.began) /\ IsInjective(scan'.tags)
        /\ ToSet(scan'.tags) \subseteq used
        /\ \A j \in DOMAIN scan'.tags : Among(scan'.began, scan'.tags[j], j + deletions)
        /\ HasNext(scan.page + 1) => Len(scan'.tags) = scan'.page * PageSize
        /\ ~HasNext(scan.page + 1) => Len(scan'.tags) = Len(listing)
    BY <1>5, PageAdds
  <2>2. \/ scan'.phase = "reading" /\ HasNext(scan.page + 1)
        \/ /\ scan'.phase = "answered"
           /\ scan'.answer = Answer(scan'.tags) /\ scan'.answer # 0
           /\ Len(scan'.tags) >= Limit \/ ~HasNext(scan.page + 1)
    BY <1>5 DEF Shows
  <2>3. PagesInv'
    BY <2>1, <2>2 DEF PagesInv
  <2>4. ShiftInv'
    <3> SUFFICES ASSUME scan'.phase = "reading" PROVE ShiftInv'
      BY DEF ShiftInv
    <3>1. \A p \in DOMAIN listing :
            p > scan.burst => Among(scan'.began, listing[p], p + deletions)
      <4>1. CASE scan.phase = "idle"
        <5>1. scan'.began = listing /\ scan.burst = 0 /\ deletions = 0
          BY <1>1, <4>1 DEF ListingInv, PagesInv, NewScan
        <5>2. PICK l \in Seq(Releases) : l = listing
          BY DEF ListingInv, TypeOK
        <5>3. ASSUME NEW p \in DOMAIN l
              PROVE  Among(l, l[p], p + 0)
          <6>1. p <= p + 0
            BY MembersForm
          <6>. QED BY <6>1 DEF Among
        <5>. QED BY <5>1, <5>2, <5>3
      <4>2. CASE scan.phase = "reading"
        <5>1. scan.page + 1 # 1
          BY <1>1, <4>2 DEF ListingInv, PagesInv
        <5>2. scan'.began = scan.began
          BY <1>1, <5>1
        <5>. QED BY <4>2, <5>2 DEF ListingInv, ShiftInv
      <4>. QED BY <1>1, <4>1, <4>2
    <3>. QED BY <1>1, <2>1, <3>1 DEF ShiftInv
  <2>5. AnswerIsSound'
    <3> SUFFICES ASSUME scan'.phase = "answered"
                 PROVE  MissesOnlyForDeletions' /\ AnswerIsAmongFirst'
      BY DEF AnswerIsSound
    <3>1. /\ scan'.began \in Seq(Releases) /\ scan'.tags \in Seq(Releases)
          /\ deletions \in Nat /\ listing \in Seq(Releases) /\ IsInjective(listing)
      BY <1>1, ListingAssumption DEF ListingInv, TypeOK, Scan
    <3>2. PICK began \in Seq(Releases), tags \in Seq(Releases), d \in Nat,
               l \in Seq(Releases) :
            /\ began = scan'.began /\ tags = scan'.tags /\ d = deletions /\ l = listing
      BY <3>1
    <3>3. PICK live : live = ToSet(l)
      OBVIOUS
    <3>4. DOMAIN began = 1 .. Len(began) /\ DOMAIN tags = 1 .. Len(tags)
      BY MembersForm
    <3>5. IsInjective(began) /\ IsInjective(tags) /\ Near(began, tags, d)
      BY <2>1, <3>2, <3>4 DEF Near, Among
    <3>6. Exhausted(tags, live, d)
      <4>1. CASE Len(tags) >= Limit
        BY <4>1 DEF Exhausted
      <4>2. CASE ~HasNext(scan.page + 1)
        <5>1. IsFiniteSet(live) /\ Cardinality(live) = Len(tags)
          <6>1. Len(l) \in 0 .. Len(l) /\ DOMAIN l = 1 .. Len(l)
            BY MembersForm
          <6>2. live = {l[i] : i \in 1 .. Len(l)}
            BY <3>3, <6>1 DEF ToSet
          <6>3. Len(l) = Len(tags) /\ IsInjective(l)
            BY <2>1, <3>1, <3>2, <4>2
          <6>. QED BY <6>1, <6>2, <6>3, ElementsForm
        <5>2. PICK lost : lost = used \ ToSet(listing)
          OBVIOUS
        <5>3. IsFiniteSet(lost) /\ Cardinality(lost) <= d
          BY <3>2, <5>2 DEF ListingInv, LostInv
        <5>4. ToSet(tags) \ live \subseteq lost
          BY <2>1, <3>2, <3>3, <5>2
        <5>5. /\ IsFiniteSet(ToSet(tags) \ live)
              /\ Cardinality(ToSet(tags) \ live) <= Cardinality(lost)
          BY <5>3, <5>4, FS_Subset
        <5>6. Cardinality(ToSet(tags) \ live) <= d
          <6>1. /\ Cardinality(ToSet(tags) \ live) \in Nat
                /\ Cardinality(lost) \in Nat
            BY <5>3, <5>5, FS_CardinalityType
          <6>. QED BY <5>3, <5>5, <6>1
        <5>. QED BY <5>1, <5>5, <5>6 DEF Exhausted
      <4>. QED BY <2>2, <3>2, <4>1, <4>2
    <3>7. scan'.answer = Answer(tags) /\ Answer(tags) # 0
      BY <2>2, <3>2
    <3>8. /\ Cardinality({r \in Stable \cap live : r > Answer(tags) /\
                    \E i \in 1 .. Len(began) : i <= Limit /\ began[i] = r}) <= d
          /\ \E i \in 1 .. Len(began) : i <= Limit + d /\ began[i] = Answer(tags)
      BY <3>5, <3>6, <3>7, CountForm
    <3>9. listing' = l /\ deletions' = d
      BY <1>1, <3>2
    <3>10. MissesOnlyForDeletions'
      <4>1. Missed' = {r \in Stable \cap live : r > Answer(tags) /\
                    \E i \in 1 .. Len(began) : i <= Limit /\ began[i] = r}
        BY <3>2, <3>3, <3>4, <3>7, <3>9 DEF Missed
      <4>. QED BY <3>8, <3>9, <4>1 DEF MissesOnlyForDeletions
    <3>11. AnswerIsAmongFirst'
      BY <3>2, <3>4, <3>7, <3>8, <3>9 DEF AnswerIsAmongFirst
    <3>. QED BY <3>10, <3>11
  <2>. QED BY <1>2, <1>3, <2>3, <2>4, <2>5 DEF ListingInv
<1>. QED BY <1>1, <1>4, <1>5

(* Every step keeps the invariant.                                         *)
LEMMA StepInv == MaxBurst <= PageSize /\ ListingInv /\ [Next]_vars => ListingInv'
<1> SUFFICES ASSUME MaxBurst <= PageSize, ListingInv, [Next]_vars PROVE ListingInv'
  OBVIOUS
<1>1. CASE ReadLatest
  BY <1>1, ReadLatestKeeps
<1>2. CASE ReadPage
  BY <1>2, ReadPageKeeps
<1>3. ASSUME NEW r \in Releases, Publish(r)
      PROVE  ListingInv'
  BY <1>3, PublishKeeps
<1>4. ASSUME NEW i \in DOMAIN listing, Delete(i)
      PROVE  ListingInv'
  BY <1>4, DeleteKeeps
<1>5. CASE UNCHANGED vars
  <2>1. TypeOK'
    BY <1>5, StepType DEF ListingInv
  <2>2. /\ listing' = listing /\ used' = used /\ scan' = scan /\ deletions' = deletions
    BY <1>5 DEF vars
  <2>3. PagesInv' /\ ShiftInv' /\ LostInv'
    BY <2>2 DEF ListingInv, PagesInv, ShiftInv, LostInv
  <2>4. AnswerIsSound'
    BY <2>2 DEF ListingInv, AnswerIsSound, MissesOnlyForDeletions, AnswerIsAmongFirst, Missed
  <2>. QED BY <2>1, <2>3, <2>4 DEF ListingInv
<1>. QED BY <1>1, <1>2, <1>3, <1>4, <1>5 DEF Next

(* Whatever is published and deleted while a call reads its pages, as long *)
(* as it is no more than a page that is published: what has been read is   *)
(* from where the listing began, shifted by the deletions.                 *)
THEOREM ListingInvariant ==
    ASSUME MaxBurst <= PageSize
    PROVE  Spec => []ListingInv
<1>1. ListingInv /\ [Next]_vars => ListingInv'
  BY StepInv
<1>. QED BY <1>1, InitInv, PTL DEF Spec

(* Then the answer is the greatest stable release of those that counted    *)
(* when the call began, but for one for each that was deleted: repeated    *)
(* and empty pages, which github.py rejects, are all that could hide more. *)
THEOREM Sound ==
    ASSUME MaxBurst <= PageSize
    PROVE  Spec => []AnswerIsSound
<1>1. ListingInv => AnswerIsSound
  BY DEF ListingInv
<1>. QED BY <1>1, ListingInvariant, PTL

-----------------------------------------------------------------------------
(* The feed. Its sequences are those of InOrder and \o.                     *)

(* A strict total order, as a set of pairs.                                *)
StrictOrder(S, before) ==
    /\ \A x \in S : <<x, x>> \notin before
    /\ \A x, y, z \in S : <<x, y>> \in before /\ <<y, z>> \in before => <<x, z>> \in before
    /\ \A x, y \in S : x = y \/ <<x, y>> \in before \/ <<y, x>> \in before

(* What InOrder puts in order are the elements of the set, each once: the  *)
(* numbers of those before each are different, and so all there are.       *)
LEMMA InOrderForm ==
    ASSUME NEW S, IsFiniteSet(S), NEW before, StrictOrder(S, before)
    PROVE  /\ InOrder(S, before) \in Seq(S)
           /\ Len(InOrder(S, before)) = Cardinality(S)
           /\ \A i, j \in 1 .. Cardinality(S) :
                i < j => <<InOrder(S, before)[i], InOrder(S, before)[j]>> \in before
           /\ \A i, j \in 1 .. Cardinality(S) :
                InOrder(S, before)[i] = InOrder(S, before)[j] => i = j
           /\ \A x \in S : \E i \in 1 .. Cardinality(S) : InOrder(S, before)[i] = x
<1> DEFINE n == Cardinality(S)
           Below(x) == {y \in S : <<y, x>> \in before}
           rank == [x \in S |-> Cardinality(Below(x))]
           o == InOrder(S, before)
<1>1. n \in Nat
  BY FS_CardinalityType
<1>2. \A x \in S : IsFiniteSet(Below(x)) /\ Cardinality(Below(x)) \in 0 .. n - 1
  <2> TAKE x \in S
  <2>1. Below(x) \subseteq S \ {x}
    BY DEF StrictOrder
  <2>2. IsFiniteSet(S \ {x}) /\ Cardinality(S \ {x}) = n - 1
    BY FS_RemoveElement
  <2> HIDE DEF Below, n
  <2>3. IsFiniteSet(Below(x)) /\ Cardinality(Below(x)) <= n - 1
    BY <2>1, <2>2, FS_Subset
  <2>4. Cardinality(Below(x)) \in Nat
    BY <2>3, FS_CardinalityType
  <2>. QED BY <1>1, <2>3, <2>4
<1>3. ASSUME NEW x \in S, NEW y \in S, <<x, y>> \in before
      PROVE  rank[x] < rank[y]
  <2>1. Below(x) \cup {x} \subseteq Below(y) /\ x \notin Below(x)
    BY <1>3 DEF StrictOrder
  <2> HIDE DEF Below
  <2>2. Cardinality(Below(x) \cup {x}) = Cardinality(Below(x)) + 1
    BY <1>2, <2>1, FS_AddElement
  <2>3. Cardinality(Below(x) \cup {x}) <= Cardinality(Below(y))
    BY <1>2, <2>1, FS_Subset
  <2>4. PICK a \in Nat, b \in Nat : a = Cardinality(Below(x)) /\ b = Cardinality(Below(y))
    BY <1>2
  <2>5. a < b
    BY <2>2, <2>3, <2>4
  <2>. QED BY <2>4, <2>5
<1>4. \A x \in S : rank[x] \in 0 .. n - 1
  BY <1>2
<1>5. \A x, y \in S : rank[x] = rank[y] => x = y
  <2> SUFFICES ASSUME NEW x \in S, NEW y \in S, rank[x] = rank[y], x # y PROVE FALSE
    OBVIOUS
  <2>1. rank[x] < rank[y] \/ rank[y] < rank[x]
    BY <1>3 DEF StrictOrder
  <2>2. rank[x] \in Nat /\ rank[y] \in Nat
    BY <1>1, <1>4
  <2> HIDE DEF rank
  <2>. QED BY <2>1, <2>2
<1>6. \A k \in 0 .. n - 1 : \E x \in S : rank[x] = k
  <2>1. IsFiniteSet(0 .. n - 1) /\ Cardinality(0 .. n - 1) = n
    <3>1. 0 \in Int /\ n - 1 \in Int /\ (IF 0 > n - 1 THEN 0 ELSE n - 1 - 0 + 1) = n
      BY <1>1
    <3> HIDE DEF n
    <3>. QED BY <3>1, FS_Interval
  <2>2. rank \in [S -> 0 .. n - 1]
    BY <1>4
  <2> HIDE DEF rank
  <2>3. rank \in Injection(S, 0 .. n - 1)
    BY <1>5, <2>2 DEF Injection, IsInjective
  <2>4. rank \in Surjection(S, 0 .. n - 1)
    BY <2>1, <2>3, FS_Injection
  <2>. QED BY <2>4 DEF Surjection
<1>7. ASSUME NEW i \in 1 .. n
      PROVE  o[i] \in S /\ rank[o[i]] = i - 1
  <2>1. i - 1 \in 0 .. n - 1
    BY <1>1
  <2>2. \E x \in S : Cardinality(Below(x)) = i - 1
    BY <1>6, <2>1
  <2>3. o[i] = CHOOSE x \in S : Cardinality(Below(x)) = i - 1
    BY DEF InOrder
  <2> HIDE DEF o, Below
  <2>4. o[i] \in S /\ Cardinality(Below(o[i])) = i - 1
    BY <2>2, <2>3
  <2>. QED BY <2>4
<1>8. o \in [1 .. n -> S]
  <2> DEFINE e(i) == CHOOSE x \in S : Cardinality(Below(x)) = i - 1
  <2>1. o = [i \in 1 .. n |-> e(i)]
    BY DEF InOrder
  <2> HIDE DEF o, rank, e
  <2>. QED BY <1>7, <2>1
<1> HIDE DEF rank, n
<1>9. o \in Seq(S) /\ Len(o) = n
  <2> HIDE DEF o
  <2>1. o \in Seq(S)
    BY <1>1, <1>8
  <2>2. DOMAIN o = 1 .. Len(o) /\ Len(o) \in Nat
    BY <2>1, LenProperties
  <2>3. DOMAIN o = 1 .. n
    BY <1>8
  <2>4. \A a, b \in Nat : 1 .. a = 1 .. b => a = b
    <3> SUFFICES ASSUME NEW a \in Nat, NEW b \in Nat, 1 .. a = 1 .. b PROVE a = b
      OBVIOUS
    <3>1. a > b => a \in 1 .. a /\ a \notin 1 .. b
      OBVIOUS
    <3>2. b > a => b \in 1 .. b /\ b \notin 1 .. a
      OBVIOUS
    <3>. QED BY <3>1, <3>2
  <2>. QED BY <1>1, <2>1, <2>2, <2>3, <2>4
<1> HIDE DEF o
<1>10. \A i, j \in 1 .. n : o[i] = o[j] => i = j
  <2> TAKE i, j \in 1 .. n
  <2> HAVE o[i] = o[j]
  <2>1. i - 1 = j - 1
    BY <1>7
  <2>. QED BY <1>1, <2>1
<1>11. \A i, j \in 1 .. n : i < j => <<o[i], o[j]>> \in before
  <2> SUFFICES ASSUME NEW i \in 1 .. n, NEW j \in 1 .. n, i < j
               PROVE  <<o[i], o[j]>> \in before
    OBVIOUS
  <2>1. o[i] \in S /\ o[j] \in S /\ rank[o[i]] = i - 1 /\ rank[o[j]] = j - 1
    BY <1>7
  <2>2. o[i] # o[j]
    BY <1>1, <1>10
  <2>3. ~(rank[o[j]] < rank[o[i]])
    BY <1>1, <2>1
  <2>4. <<o[j], o[i]>> \notin before
    BY <1>3, <2>1, <2>3
  <2>. QED BY <2>1, <2>2, <2>4 DEF StrictOrder
<1>12. \A x \in S : \E i \in 1 .. n : o[i] = x
  <2> TAKE x \in S
  <2>1. PICK i \in 1 .. n : i - 1 = rank[x]
    <3>1. rank[x] + 1 \in 1 .. n /\ (rank[x] + 1) - 1 = rank[x]
      BY <1>1, <1>4
    <3>. QED BY <3>1
  <2>2. o[i] \in S /\ rank[o[i]] = rank[x]
    BY <1>7, <2>1
  <2>. QED BY <1>5, <2>2
<1>. QED BY <1>9, <1>10, <1>11, <1>12 DEF o, n

(* The first component in which two keys differ tells which is less.       *)
LEMMA KeyLessForm ==
    ASSUME NEW k, NEW l
    PROVE  KeyLess(k, l) <=>
            \/ k[1] < l[1]
            \/ k[1] = l[1] /\ k[2] < l[2]
            \/ k[1] = l[1] /\ k[2] = l[2] /\ k[3] < l[3]
            \/ k[1] = l[1] /\ k[2] = l[2] /\ k[3] = l[3] /\ k[4] < l[4]
            \/ k[1] = l[1] /\ k[2] = l[2] /\ k[3] = l[3] /\ k[4] = l[4] /\ k[5] < l[5]
<1> DEFINE At(i) == k[i] < l[i] /\ \A j \in 1 .. i - 1 : k[j] = l[j]
<1>1. KeyLess(k, l) <=> At(1) \/ At(2) \/ At(3) \/ At(4) \/ At(5)
  <2>1. 1 .. 5 = {1, 2, 3, 4, 5}
    OBVIOUS
  <2>2. KeyLess(k, l) <=> \E i \in {1, 2, 3, 4, 5} : At(i)
    BY <2>1 DEF KeyLess
  <2> HIDE DEF At
  <2>. QED BY <2>2
<1>2. /\ 1 .. 1 - 1 = {} /\ 1 .. 2 - 1 = {1} /\ 1 .. 3 - 1 = {1, 2}
      /\ 1 .. 4 - 1 = {1, 2, 3} /\ 1 .. 5 - 1 = {1, 2, 3, 4}
  OBVIOUS
<1>3. At(1) <=> k[1] < l[1]
  BY <1>2
<1>4. At(2) <=> k[1] = l[1] /\ k[2] < l[2]
  BY <1>2
<1>5. At(3) <=> k[1] = l[1] /\ k[2] = l[2] /\ k[3] < l[3]
  BY <1>2
<1>6. At(4) <=> k[1] = l[1] /\ k[2] = l[2] /\ k[3] = l[3] /\ k[4] < l[4]
  BY <1>2
<1>7. At(5) <=> k[1] = l[1] /\ k[2] = l[2] /\ k[3] = l[3] /\ k[4] = l[4] /\ k[5] < l[5]
  BY <1>2
<1> HIDE DEF At
<1>. QED BY <1>1, <1>3, <1>4, <1>5, <1>6, <1>7

(* A key has five numbers.                                                 *)
LEMMA KeyForm ==
    ASSUME NEW v \in Version
    PROVE  /\ VersionKey(v)[1] = Component(v, 1) /\ Component(v, 1) \in Nat
           /\ VersionKey(v)[2] = Component(v, 2) /\ Component(v, 2) \in Nat
           /\ VersionKey(v)[3] = Component(v, 3) /\ Component(v, 3) \in Nat
           /\ VersionKey(v)[4] = PhaseOrder(v) /\ PhaseOrder(v) \in Nat
           /\ VersionKey(v)[5] = v.number /\ v.number \in Nat
           /\ VersionKey(v) = <<VersionKey(v)[1], VersionKey(v)[2], VersionKey(v)[3],
                                VersionKey(v)[4], VersionKey(v)[5]>>
<1>1. v.numbers \in Seq(Nat) /\ v.phase \in Phases /\ v.number \in Nat
  BY DEF Version
<1>2. PICK s \in Seq(Nat) : s = v.numbers
  BY <1>1
<1>3. Len(s) \in Nat /\ \A i \in 1 .. Len(s) : s[i] \in Nat
  BY MembersForm
<1>4. \A i \in {1, 2, 3} : Component(v, i) \in Nat
  BY <1>2, <1>3 DEF Component
<1>5. PhaseOrder(v) \in Nat
  BY <1>1 DEF Phases, PhaseOrder
<1>. QED BY <1>1, <1>4, <1>5 DEF VersionKey

(* Keys are in a strict total order.                                       *)
LEMMA KeyLessOrder ==
    ASSUME NEW u \in Version, NEW v \in Version, NEW w \in Version
    PROVE  /\ ~KeyLess(VersionKey(u), VersionKey(u))
           /\ KeyLess(VersionKey(u), VersionKey(v)) /\ KeyLess(VersionKey(v), VersionKey(w))
                => KeyLess(VersionKey(u), VersionKey(w))
           /\ \/ VersionKey(u) = VersionKey(v)
              \/ KeyLess(VersionKey(u), VersionKey(v)) \/ KeyLess(VersionKey(v), VersionKey(u))
<1>1. PICK k, l, m : k = VersionKey(u) /\ l = VersionKey(v) /\ m = VersionKey(w)
  OBVIOUS
<1>2. /\ k[1] \in Nat /\ k[2] \in Nat /\ k[3] \in Nat /\ k[4] \in Nat /\ k[5] \in Nat
      /\ k = <<k[1], k[2], k[3], k[4], k[5]>>
  BY <1>1, KeyForm
<1>3. /\ l[1] \in Nat /\ l[2] \in Nat /\ l[3] \in Nat /\ l[4] \in Nat /\ l[5] \in Nat
      /\ l = <<l[1], l[2], l[3], l[4], l[5]>>
  BY <1>1, KeyForm
<1>4. /\ m[1] \in Nat /\ m[2] \in Nat /\ m[3] \in Nat /\ m[4] \in Nat /\ m[5] \in Nat
  BY <1>1, KeyForm
<1>5. ~KeyLess(k, k)
  BY <1>2, KeyLessForm
<1>6. KeyLess(k, l) /\ KeyLess(l, m) => KeyLess(k, m)
  BY <1>2, <1>3, <1>4, KeyLessForm
<1>7. k = l \/ KeyLess(k, l) \/ KeyLess(l, k)
  <2>1. ASSUME k[1] = l[1], k[2] = l[2], k[3] = l[3], k[4] = l[4], k[5] = l[5]
        PROVE  k = l
    BY <1>2, <1>3, <2>1, Zenon
  <2>2. \A a, b \in Nat : a = b \/ a < b \/ b < a
    OBVIOUS
  <2>. QED BY <1>2, <1>3, <2>1, <2>2, KeyLessForm
<1>. QED BY <1>1, <1>5, <1>6, <1>7

(* Versions of as many numbers that have the same key are the same.        *)
LEMMA SameKey ==
    ASSUME NEW u \in Version, NEW v \in Version, IsPostgresVersion(u), IsPostgresVersion(v),
           VersionKey(u) = VersionKey(v)
    PROVE  /\ u.phase = v.phase
           /\ Len(u.numbers) = Len(v.numbers) => u = v
<1>1. /\ Component(u, 1) = Component(v, 1) /\ Component(u, 2) = Component(v, 2)
      /\ Component(u, 3) = Component(v, 3)
      /\ PhaseOrder(u) = PhaseOrder(v) /\ u.number = v.number
  BY KeyForm
<1>2. u.phase = v.phase
  <2>1. u.phase \in Phases /\ v.phase \in Phases
    BY DEF Version
  <2>. QED BY <1>1, <2>1 DEF Phases, PhaseOrder
<1>3. ASSUME Len(u.numbers) = Len(v.numbers)
      PROVE  u = v
  <2>1. PICK s \in Seq(Nat), t \in Seq(Nat) : s = u.numbers /\ t = v.numbers
    BY DEF Version
  <2>2. Len(s) \in 1 .. 3 /\ Len(t) = Len(s)
    BY <1>3, <2>1 DEF IsPostgresVersion
  <2>3. \A i \in 1 .. Len(s) : s[i] = t[i]
    <3> TAKE i \in 1 .. Len(s)
    <3>1. \A n \in 1 .. 3 : \A k \in 1 .. n : k \in {1, 2, 3} /\ k <= n
      OBVIOUS
    <3>2. i \in {1, 2, 3} /\ i <= Len(s) /\ i <= Len(t)
      BY <2>2, <3>1
    <3>3. Component(u, i) = s[i] /\ Component(v, i) = t[i]
      BY <2>1, <3>2 DEF Component
    <3>. QED BY <1>1, <3>2, <3>3
  <2>4. s = t
    BY <2>2, <2>3, SeqEqual
  <2>5. /\ u = [numbers |-> u.numbers, phase |-> u.phase, number |-> u.number]
        /\ v = [numbers |-> v.numbers, phase |-> v.phase, number |-> v.number]
    BY DEF Version
  <2>. QED BY <1>1, <1>2, <2>1, <2>4, <2>5, Zenon
<1>. QED BY <1>2, <1>3

(* So the lines of a release are in a strict total order.                  *)
LEMMA PrecedenceOrder ==
    ASSUME NEW versions \in SUBSET Version, \A v \in versions : IsPostgresVersion(v)
    PROVE  StrictOrder(versions, ByPrecedence(versions))
<1>1. \A u, v \in versions : <<u, v>> \in ByPrecedence(versions) <=> Precedes(u, v)
  BY DEF ByPrecedence
<1>2. \A u \in versions : Len(u.numbers) \in Nat
  BY DEF IsPostgresVersion
<1>3. ASSUME NEW u \in versions
      PROVE  ~Precedes(u, u)
  BY <1>2, KeyLessOrder DEF Precedes
<1>4. ASSUME NEW u \in versions, NEW v \in versions, NEW w \in versions,
             Precedes(u, v), Precedes(v, w)
      PROVE  Precedes(u, w)
  <2>1. CASE KeyLess(VersionKey(v), VersionKey(u))
    BY <1>4, <2>1, KeyLessOrder DEF Precedes
  <2>2. CASE KeyLess(VersionKey(w), VersionKey(v))
    BY <1>4, <2>2, KeyLessOrder DEF Precedes
  <2>3. CASE VersionKey(u) = VersionKey(v) /\ VersionKey(v) = VersionKey(w)
    <3>1. u.phase = v.phase
      BY <2>3, SameKey
    <3>2. /\ ~KeyLess(VersionKey(v), VersionKey(u)) /\ ~KeyLess(VersionKey(w), VersionKey(v))
      BY <2>3, KeyLessOrder
    <3>3. PICK a \in Nat, b \in Nat, c \in Nat :
            a = Len(u.numbers) /\ b = Len(v.numbers) /\ c = Len(w.numbers)
      BY <1>2
    <3>4. IF u.phase = "release" THEN a < b /\ b < c ELSE a > b /\ b > c
      BY <1>4, <3>1, <3>2, <3>3 DEF Precedes
    <3>5. IF u.phase = "release" THEN a < c ELSE a > c
      BY <3>3, <3>4
    <3>. QED BY <2>3, <3>3, <3>5 DEF Precedes
  <2>. QED BY <1>4, <2>1, <2>2, <2>3 DEF Precedes
<1>5. ASSUME NEW u \in versions, NEW v \in versions
      PROVE  u = v \/ Precedes(u, v) \/ Precedes(v, u)
  <2>1. CASE VersionKey(u) = VersionKey(v)
    <3>1. u.phase = v.phase /\ (Len(u.numbers) = Len(v.numbers) => u = v)
      BY <2>1, SameKey
    <3>2. PICK a \in Nat, b \in Nat : a = Len(u.numbers) /\ b = Len(v.numbers)
      BY <1>2
    <3>3. a = b \/ a < b \/ b < a
      BY <3>2
    <3>4. /\ a < b => Precedes(u, v) \/ Precedes(v, u)
          /\ b < a => Precedes(u, v) \/ Precedes(v, u)
      BY <2>1, <3>1, <3>2 DEF Precedes
    <3>. QED BY <3>1, <3>2, <3>3, <3>4
  <2>2. CASE VersionKey(u) # VersionKey(v)
    BY <2>2, KeyLessOrder DEF Precedes
  <2>. QED BY <2>1, <2>2
<1>. QED BY <1>1, <1>3, <1>4, <1>5, Zenon DEF StrictOrder

(* Where SemVer has one version before another, so has the key.            *)
LEMMA SemverAgrees ==
    ASSUME NEW u \in Version, NEW v \in Version, SemverLess(Semver(u), Semver(v))
    PROVE  KeyLess(VersionKey(u), VersionKey(v))
<1> DEFINE word(x) == CHOOSE i \in 1 .. 3 : <<"alpha", "beta", "rc">>[i] = x
           a == Semver(u)
           b == Semver(v)
<1>1. word("alpha") = 1 /\ word("beta") = 2 /\ word("rc") = 3
  <2>1. /\ 1 .. 3 = {1, 2, 3} /\ <<"alpha", "beta", "rc">>[1] = "alpha"
        /\ <<"alpha", "beta", "rc">>[2] = "beta" /\ <<"alpha", "beta", "rc">>[3] = "rc"
    OBVIOUS
  <2>2. \E i \in 1 .. 3 : <<"alpha", "beta", "rc">>[i] = "alpha"
    BY <2>1
  <2>3. \E i \in 1 .. 3 : <<"alpha", "beta", "rc">>[i] = "beta"
    BY <2>1
  <2>4. \E i \in 1 .. 3 : <<"alpha", "beta", "rc">>[i] = "rc"
    BY <2>1
  <2>5. word("alpha") \in 1 .. 3 /\ <<"alpha", "beta", "rc">>[word("alpha")] = "alpha"
    BY <2>2
  <2>6. word("beta") \in 1 .. 3 /\ <<"alpha", "beta", "rc">>[word("beta")] = "beta"
    BY <2>3
  <2>7. word("rc") \in 1 .. 3 /\ <<"alpha", "beta", "rc">>[word("rc")] = "rc"
    BY <2>4
  <2> HIDE DEF word
  <2>. QED BY <2>1, <2>5, <2>6, <2>7
<1>2. \/ a.core[1] < b.core[1]
      \/ a.core[1] = b.core[1] /\ a.core[2] < b.core[2]
      \/ a.core[1] = b.core[1] /\ a.core[2] = b.core[2] /\ a.core[3] < b.core[3]
      \/ /\ a.core = b.core /\ a.pre # <<>>
         /\ \/ b.pre = <<>>
            \/ word(a.pre[1]) < word(b.pre[1])
            \/ a.pre[1] = b.pre[1] /\ a.pre[2] < b.pre[2]
  BY DEF SemverLess
<1> HIDE DEF word
<1>3. /\ a.core = <<Component(u, 1), Component(u, 2), Component(u, 3)>>
      /\ b.core = <<Component(v, 1), Component(v, 2), Component(v, 3)>>
      /\ a.pre = IF u.phase = "release" THEN <<>> ELSE <<u.phase, u.number>>
      /\ b.pre = IF v.phase = "release" THEN <<>> ELSE <<v.phase, v.number>>
      /\ u.phase \in Phases /\ v.phase \in Phases
  BY DEF Semver, Version
<1> HIDE DEF a, b
<1>4. PICK k, l : k = VersionKey(u) /\ l = VersionKey(v)
  OBVIOUS
<1>5. /\ k[1] = Component(u, 1) /\ k[2] = Component(u, 2) /\ k[3] = Component(u, 3)
      /\ k[4] = PhaseOrder(u) /\ k[5] = u.number
      /\ l[1] = Component(v, 1) /\ l[2] = Component(v, 2) /\ l[3] = Component(v, 3)
      /\ l[4] = PhaseOrder(v) /\ l[5] = v.number
  BY <1>4, KeyForm
<1>6. CASE a.core # b.core \/ a.core[1] < b.core[1] \/ a.core[2] < b.core[2]
           \/ a.core[3] < b.core[3]
  <2>1. \/ k[1] < l[1]
        \/ k[1] = l[1] /\ k[2] < l[2]
        \/ k[1] = l[1] /\ k[2] = l[2] /\ k[3] < l[3]
    <3>1. /\ a.core[1] = k[1] /\ a.core[2] = k[2] /\ a.core[3] = k[3]
          /\ b.core[1] = l[1] /\ b.core[2] = l[2] /\ b.core[3] = l[3]
      BY <1>3, <1>5
    <3>2. k[1] \in Nat /\ k[2] \in Nat /\ k[3] \in Nat
      BY <1>5, KeyForm
    <3>3. a.core = b.core => ~(k[1] < l[1]) /\ ~(k[2] < l[2]) /\ ~(k[3] < l[3])
      <4>1. \A x \in Nat : ~(x < x)
        OBVIOUS
      <4>. QED BY <3>1, <3>2, <4>1
    <3>. QED BY <1>2, <1>6, <3>1, <3>3
  <2>. QED BY <1>4, <2>1, KeyLessForm
<1>7. CASE a.core = b.core /\ ~(a.core[1] < b.core[1]) /\ ~(a.core[2] < b.core[2])
           /\ ~(a.core[3] < b.core[3])
  <2>1. k[1] = l[1] /\ k[2] = l[2] /\ k[3] = l[3]
    BY <1>3, <1>5, <1>7
  <2>2. /\ a.pre # <<>>
        /\ \/ b.pre = <<>>
           \/ word(a.pre[1]) < word(b.pre[1])
           \/ a.pre[1] = b.pre[1] /\ a.pre[2] < b.pre[2]
    BY <1>2, <1>7
  <2>3. u.phase \in {"alpha", "beta", "rc"} /\ a.pre[1] = u.phase /\ a.pre[2] = u.number
    BY <1>3, <2>2 DEF Phases
  <2>4. CASE v.phase = "release"
    <3>1. k[4] < l[4]
      BY <1>5, <2>3, <2>4 DEF PhaseOrder
    <3>. QED BY <1>4, <2>1, <3>1, KeyLessForm
  <2>5. CASE v.phase # "release"
    <3>1. /\ v.phase \in {"alpha", "beta", "rc"} /\ b.pre # <<>>
          /\ b.pre[1] = v.phase /\ b.pre[2] = v.number
      BY <1>3, <2>5 DEF Phases
    <3>2. CASE word(a.pre[1]) < word(b.pre[1])
      <4>1. word(u.phase) = PhaseOrder(u) + 1 /\ word(v.phase) = PhaseOrder(v) + 1
        BY <1>1, <2>3, <3>1 DEF PhaseOrder
      <4>2. PhaseOrder(u) \in Nat /\ PhaseOrder(v) \in Nat
        BY KeyForm
      <4>3. PhaseOrder(u) + 1 < PhaseOrder(v) + 1
        BY <2>3, <3>1, <3>2, <4>1
      <4>4. k[4] < l[4]
        BY <1>5, <4>2, <4>3
      <4>. QED BY <1>4, <2>1, <4>4, KeyLessForm
    <3>3. CASE a.pre[1] = b.pre[1] /\ a.pre[2] < b.pre[2]
      <4>1. k[4] = l[4] /\ k[5] < l[5]
        BY <1>5, <2>3, <3>1, <3>3 DEF PhaseOrder
      <4>. QED BY <1>4, <2>1, <4>1, KeyLessForm
    <3>. QED BY <2>2, <3>1, <3>2, <3>3
  <2>. QED BY <2>4, <2>5
<1>. QED BY <1>6, <1>7

(* So a line that precedes another is not the lower version.               *)
LEMMA PrecedesIsNotLess ==
    ASSUME NEW u \in Version, NEW v \in Version, Precedes(u, v)
    PROVE  ~SemverLess(Semver(u), Semver(v))
<1>1. SemverLess(Semver(u), Semver(v)) => KeyLess(VersionKey(u), VersionKey(v))
  BY SemverAgrees
<1>2. ~KeyLess(VersionKey(u), VersionKey(v))
  BY KeyLessOrder DEF Precedes
<1>. QED BY <1>1, <1>2

(* The archives of a version are in a strict total order: a snapshot has   *)
(* one of them for a target.                                               *)
LEMMA TargetOrder ==
    ASSUME NEW s \in Snapshot, NEW v,
           \A r, q \in s.successful : r.version = q.version /\ r.target = q.target => r = q
    PROVE  StrictOrder(RecordsOf(s, v), ByTarget(RecordsOf(s, v)))
<1> DEFINE R == RecordsOf(s, v)
<1>1. \A x, y \in R : <<x, y>> \in ByTarget(R) <=> x.target < y.target
  BY DEF ByTarget
<1>2. \A x \in R : x.target \in Nat
  BY FeedAssumption DEF RecordsOf, Snapshot, Record
<1>3. \A x, y \in R : x.target = y.target => x = y
  BY DEF RecordsOf
<1> HIDE DEF R
<1>4. \A x \in R : <<x, x>> \notin ByTarget(R)
  <2> TAKE x \in R
  <2>1. ~(x.target < x.target)
    BY <1>2
  <2>. QED BY <1>1, <2>1
<1>5. ASSUME NEW x \in R, NEW y \in R, NEW z \in R,
             <<x, y>> \in ByTarget(R), <<y, z>> \in ByTarget(R)
      PROVE  <<x, z>> \in ByTarget(R)
  <2>1. PICK a \in Nat, b \in Nat, c \in Nat : a = x.target /\ b = y.target /\ c = z.target
    BY <1>2
  <2>2. a < b /\ b < c
    BY <1>1, <1>5, <2>1
  <2>3. a < c
    BY <2>2
  <2>. QED BY <1>1, <2>1, <2>3
<1>6. ASSUME NEW x \in R, NEW y \in R
      PROVE  x = y \/ <<x, y>> \in ByTarget(R) \/ <<y, x>> \in ByTarget(R)
  <2>1. PICK a \in Nat, b \in Nat : a = x.target /\ b = y.target
    BY <1>2
  <2>2. a = b \/ a < b \/ b < a
    BY <2>1
  <2>. QED BY <1>1, <1>3, <2>1, <2>2
<1>. QED BY <1>4, <1>5, <1>6, Zenon DEF StrictOrder, R

(* What a sequence of lines shows: of which releases it is, whether each   *)
(* release's lines are in order, and how often an archive is offered.      *)
OfTags(lines, tags) == \A i \in DOMAIN lines : lines[i].tag \in tags
Descending(lines) ==
    \A i, j \in DOMAIN lines :
        i < j /\ lines[i].tag = lines[j].tag => ~SemverLess(lines[i].version, lines[j].version)

(* The archives of one line are those of the version, each once.           *)
LEMMA ArtifactsForm ==
    ASSUME NEW s \in Snapshot, NEW v, IsFiniteSet(s.successful),
           \A r, q \in s.successful : r.version = q.version /\ r.target = q.target => r = q
    PROVE  LET R == RecordsOf(s, v)
           IN /\ IsFiniteSet(R)
              /\ Artifacts(s, v) \in Seq(R) /\ Len(Artifacts(s, v)) = Cardinality(R)
              /\ DOMAIN Artifacts(s, v) = 1 .. Cardinality(R)
              /\ DOMAIN Line(s, v).artifacts = 1 .. Cardinality(R)
              /\ \A j \in 1 .. Cardinality(R) :
                    /\ Artifacts(s, v)[j] \in R
                    /\ Line(s, v).artifacts[j] = [target |-> Artifacts(s, v)[j].target,
                                                  sha256 |-> Artifacts(s, v)[j].sha256]
              /\ \A i, j \in 1 .. Cardinality(R) :
                    Artifacts(s, v)[i] = Artifacts(s, v)[j] => i = j
              /\ \A r \in R : \E j \in 1 .. Cardinality(R) : Artifacts(s, v)[j] = r
<1> DEFINE R == RecordsOf(s, v)
           a == Artifacts(s, v)
<1>1. IsFiniteSet(R)
  <2>1. R \in SUBSET s.successful
    BY DEF RecordsOf
  <2>. QED BY <2>1, FS_Subset
<1>2. StrictOrder(R, ByTarget(R))
  BY TargetOrder
<1>3. a = InOrder(R, ByTarget(R))
  BY DEF Artifacts
<1> HIDE DEF R, a
<1>4. /\ a \in Seq(R) /\ Len(a) = Cardinality(R)
      /\ \A i, j \in 1 .. Cardinality(R) : a[i] = a[j] => i = j
      /\ \A r \in R : \E j \in 1 .. Cardinality(R) : a[j] = r
  BY <1>1, <1>2, <1>3, InOrderForm
<1>5. a \in Seq(R)
  BY <1>4
<1>6. DOMAIN a = 1 .. Cardinality(R) /\ \A j \in 1 .. Cardinality(R) : a[j] \in R
  <2>1. DOMAIN a = 1 .. Len(a) /\ \A j \in 1 .. Len(a) : a[j] \in R
    BY <1>5, MembersForm
  <2>. QED BY <1>4, <2>1
<1>7. Line(s, v).artifacts =
        [j \in DOMAIN a |-> [target |-> a[j].target, sha256 |-> a[j].sha256]]
  BY DEF Line, a
<1>8. /\ DOMAIN Line(s, v).artifacts = DOMAIN a
      /\ \A j \in DOMAIN a :
            Line(s, v).artifacts[j] = [target |-> a[j].target, sha256 |-> a[j].sha256]
  BY <1>7
<1>. QED BY <1>1, <1>4, <1>6, <1>8 DEF R, a

AnyLine == {Line(s, v) : s \in Snapshot, v \in Versions}

(* A snapshot that can be served.                                          *)
Servable(s) ==
    /\ s \in Snapshot /\ IsFiniteSet(s.successful)
    /\ \A r, q \in s.successful : r.version = q.version /\ r.target = q.target => r = q
    /\ \A v \in VersionsOf(s) : IsPostgresVersion(v)

OfferedBy(s) ==
    {<<s.tag, Semver(r.version), [target |-> r.target, sha256 |-> r.sha256]>> :
        r \in s.successful}

(* A place of a line is the one of its archive.                            *)
LEMMA PlacesForm ==
    ASSUME NEW lines
    PROVE  /\ \A i \in DOMAIN lines : \A j \in DOMAIN lines[i].artifacts :
                <<i, j>> \in Places(lines)
           /\ \A p \in Places(lines) :
                /\ p[1] \in DOMAIN lines /\ p[2] \in DOMAIN lines[p[1]].artifacts
                /\ p = <<p[1], p[2]>>
<1>1. ASSUME NEW p \in Places(lines)
      PROVE  /\ p[1] \in DOMAIN lines /\ p[2] \in DOMAIN lines[p[1]].artifacts
             /\ p = <<p[1], p[2]>>
  <2>1. PICK i \in DOMAIN lines : p \in {<<i, j>> : j \in DOMAIN lines[i].artifacts}
    BY DEF Places
  <2>2. PICK j \in DOMAIN lines[i].artifacts : p = <<i, j>>
    BY <2>1
  <2>3. p[1] = i /\ p[2] = j
    BY <2>2
  <2>. QED BY <2>2, <2>3
<1>. QED BY <1>1 DEF Places

(* What is offered is what is at some place.                               *)
LEMMA OfferedForm ==
    ASSUME NEW lines
    PROVE  \A x : x \in Offered(lines) <=>
                \E i \in DOMAIN lines : \E j \in DOMAIN lines[i].artifacts :
                    x = <<lines[i].tag, lines[i].version, lines[i].artifacts[j]>>
BY DEF Offered

(* The versions of a snapshot, the greatest first.                         *)
LEMMA VersionsForm ==
    ASSUME NEW s, Servable(s)
    PROVE  LET V == VersionsOf(s)
               o == InOrder(V, ByPrecedence(V))
           IN /\ V \subseteq Versions /\ V \subseteq Version /\ Cardinality(V) \in Nat
              /\ o \in Seq(V) /\ DOMAIN o = 1 .. Cardinality(V)
              /\ \A i \in 1 .. Cardinality(V) : o[i] \in V
              /\ \A i, j \in 1 .. Cardinality(V) : i < j => Precedes(o[i], o[j])
              /\ \A i, j \in 1 .. Cardinality(V) : o[i] = o[j] => i = j
              /\ \A v \in V : \E i \in 1 .. Cardinality(V) : o[i] = v
<1> DEFINE V == VersionsOf(s)
           o == InOrder(V, ByPrecedence(V))
<1>1. V \subseteq Versions
  BY DEF Servable, Snapshot, Record, VersionsOf
<1>2. V \subseteq Version
  BY <1>1, FeedAssumption
<1>3. IsFiniteSet(V)
  <2> DEFINE f == [r \in s.successful |-> r.version]
  <2>1. f \in Surjection(s.successful, V)
    BY DEF Surjection, VersionsOf
  <2>. QED BY <2>1, FS_Surjection DEF Servable
<1>4. StrictOrder(V, ByPrecedence(V))
  <2>1. \A v \in V : IsPostgresVersion(v)
    BY DEF Servable
  <2>. QED BY <1>2, <2>1, PrecedenceOrder
<1>5. \A u, v : <<u, v>> \in ByPrecedence(V) => Precedes(u, v)
  BY DEF ByPrecedence
<1>6. Cardinality(V) \in Nat
  BY <1>3, FS_CardinalityType
<1> HIDE DEF V
<1>7. /\ o \in Seq(V) /\ Len(o) = Cardinality(V)
      /\ \A i, j \in 1 .. Cardinality(V) : i < j => <<o[i], o[j]>> \in ByPrecedence(V)
      /\ \A i, j \in 1 .. Cardinality(V) : o[i] = o[j] => i = j
      /\ \A v \in V : \E i \in 1 .. Cardinality(V) : o[i] = v
  BY <1>3, <1>4, InOrderForm
<1> HIDE DEF o
<1>8. o \in Seq(V)
  BY <1>7
<1>9. DOMAIN o = 1 .. Len(o) /\ \A i \in 1 .. Len(o) : o[i] \in V
  BY <1>8, MembersForm
<1>10. DOMAIN o = 1 .. Cardinality(V) /\ \A i \in 1 .. Cardinality(V) : o[i] \in V
  BY <1>7, <1>9
<1>11. \A i, j \in 1 .. Cardinality(V) : i < j => Precedes(o[i], o[j])
  BY <1>5, <1>7
<1>. QED BY <1>1, <1>2, <1>6, <1>7, <1>10, <1>11, Zenon DEF V, o

(* The lines of one snapshot.                                              *)
LEMMA LinesForm ==
    ASSUME NEW s, Servable(s)
    PROVE  /\ Lines(s) \in Seq(AnyLine)
           /\ OfTags(Lines(s), {s.tag}) /\ Descending(Lines(s))
           /\ Offered(Lines(s)) = OfferedBy(s)
           /\ IsFiniteSet(Places(Lines(s)))
           /\ Cardinality(Places(Lines(s))) = Cardinality(s.successful)
<1> DEFINE V == VersionsOf(s)
           n == Cardinality(V)
           o == InOrder(V, ByPrecedence(V))
           L == Lines(s)
           R(v) == RecordsOf(s, v)
           a(v) == Artifacts(s, v)
<1>1. /\ V \subseteq Versions /\ V \subseteq Version /\ n \in Nat
      /\ DOMAIN o = 1 .. n
      /\ \A i \in 1 .. n : o[i] \in V
      /\ \A i, j \in 1 .. n : i < j => Precedes(o[i], o[j])
      /\ \A i, j \in 1 .. n : o[i] = o[j] => i = j
      /\ \A v \in V : \E i \in 1 .. n : o[i] = v
  BY VersionsForm
<1>2. L = [i \in DOMAIN o |-> Line(s, o[i])]
  BY DEF Lines
<1>3. s \in Snapshot /\ IsFiniteSet(s.successful)
  BY DEF Servable
<1>4. ASSUME NEW v \in V
      PROVE  /\ DOMAIN Line(s, v).artifacts = 1 .. Cardinality(R(v))
             /\ \A j \in 1 .. Cardinality(R(v)) :
                    /\ a(v)[j] \in R(v)
                    /\ Line(s, v).artifacts[j] = [target |-> a(v)[j].target,
                                                  sha256 |-> a(v)[j].sha256]
             /\ \A i, j \in 1 .. Cardinality(R(v)) : a(v)[i] = a(v)[j] => i = j
             /\ \A r \in R(v) : \E j \in 1 .. Cardinality(R(v)) : a(v)[j] = r
  BY ArtifactsForm DEF Servable
<1>5. \A v : Line(s, v).tag = s.tag /\ Line(s, v).version = Semver(v)
  BY DEF Line
<1>6. \A v \in V : \A r : r \in R(v) <=> r \in s.successful /\ r.version = v
  BY DEF RecordsOf
<1>7. \A r \in s.successful : r.version \in V
  BY DEF VersionsOf
<1> HIDE DEF V, n, o, L, R, a
<1>8. DOMAIN L = 1 .. n /\ \A i \in 1 .. n : L[i] = Line(s, o[i])
  BY <1>1, <1>2
<1>9. L \in Seq(AnyLine)
  <2>1. \A i \in 1 .. n : Line(s, o[i]) \in AnyLine
    BY <1>1, <1>3 DEF AnyLine
  <2>2. L \in [1 .. n -> AnyLine]
    BY <1>1, <1>2, <2>1
  <2>. QED BY <1>1, <2>2
<1>10. OfTags(L, {s.tag})
  BY <1>5, <1>8 DEF OfTags
<1>11. Descending(L)
  <2> SUFFICES ASSUME NEW i \in 1 .. n, NEW j \in 1 .. n, i < j
               PROVE  ~SemverLess(L[i].version, L[j].version)
    BY <1>8 DEF Descending
  <2>1. Precedes(o[i], o[j]) /\ o[i] \in Version /\ o[j] \in Version
    BY <1>1
  <2>2. ~SemverLess(Semver(o[i]), Semver(o[j]))
    BY <2>1, PrecedesIsNotLess
  <2>. QED BY <1>5, <1>8, <2>2
<1>12. Offered(L) = OfferedBy(s)
  <2>1. ASSUME NEW x \in Offered(L)
        PROVE  x \in OfferedBy(s)
    <3>1. PICK i \in DOMAIN L : \E j \in DOMAIN L[i].artifacts :
                x = <<L[i].tag, L[i].version, L[i].artifacts[j]>>
      <4>1. x \in Offered(L)
        OBVIOUS
      <4>. QED BY <4>1, OfferedForm
    <3>2. PICK v \in V : L[i] = Line(s, v)
      BY <1>1, <1>8
    <3>3. PICK j \in 1 .. Cardinality(R(v)) :
                x = <<s.tag, Semver(v), Line(s, v).artifacts[j]>>
      <4>1. PICK k \in DOMAIN Line(s, v).artifacts :
                x = <<Line(s, v).tag, Line(s, v).version, Line(s, v).artifacts[k]>>
        BY <3>1, <3>2, Zenon
      <4>. QED BY <1>4, <1>5, <4>1, Zenon
    <3>4. PICK r \in R(v) : Line(s, v).artifacts[j] = [target |-> r.target, sha256 |-> r.sha256]
      BY <1>4
    <3>. QED BY <1>6, <3>3, <3>4 DEF OfferedBy
  <2>2. ASSUME NEW x \in OfferedBy(s)
        PROVE  x \in Offered(L)
    <3>1. PICK r \in s.successful :
                x = <<s.tag, Semver(r.version), [target |-> r.target, sha256 |-> r.sha256]>>
      BY DEF OfferedBy
    <3>2. PICK v \in V : v = r.version
      BY <1>7
    <3>3. r \in R(v)
      BY <1>6, <3>2
    <3>4. PICK j \in 1 .. Cardinality(R(v)) : a(v)[j] = r
      BY <1>4, <3>3
    <3>5. /\ j \in DOMAIN Line(s, v).artifacts
          /\ Line(s, v).artifacts[j] = [target |-> r.target, sha256 |-> r.sha256]
      BY <1>4, <3>4
    <3>6. PICK i \in 1 .. n : o[i] = v
      BY <1>1
    <3>7. i \in DOMAIN L /\ L[i] = Line(s, v)
      BY <1>8, <3>6
    <3>8. x = <<L[i].tag, L[i].version, L[i].artifacts[j]>>
      BY <1>5, <3>1, <3>2, <3>5, <3>7
    <3>. QED BY <3>5, <3>7, <3>8, OfferedForm
  <2>. QED BY <2>1, <2>2
<1>13. IsFiniteSet(Places(L)) /\ Cardinality(Places(L)) = Cardinality(s.successful)
  <2> DEFINE f == [p \in Places(L) |-> a(o[p[1]])[p[2]]]
  <2>1. ASSUME NEW p \in Places(L)
        PROVE  /\ p[1] \in 1 .. n /\ o[p[1]] \in V /\ p = <<p[1], p[2]>>
               /\ p[2] \in 1 .. Cardinality(R(o[p[1]]))
    <3>1. p[1] \in DOMAIN L /\ p[2] \in DOMAIN L[p[1]].artifacts /\ p = <<p[1], p[2]>>
      BY PlacesForm
    <3>2. PICK i \in 1 .. n : i = p[1]
      BY <1>8, <3>1, Zenon
    <3>3. PICK v \in V : v = o[i] /\ L[i] = Line(s, v)
      BY <1>1, <1>8
    <3>4. p[2] \in 1 .. Cardinality(R(v))
      <4>1. p[2] \in DOMAIN Line(s, v).artifacts
        BY <3>1, <3>2, <3>3
      <4>. QED BY <1>4, <4>1
    <3>. QED BY <3>1, <3>2, <3>3, <3>4, Zenon
  <2>2. \A p \in Places(L) : f[p] = a(o[p[1]])[p[2]]
    OBVIOUS
  <2>3. \A p \in Places(L) : f[p] \in R(o[p[1]])
    BY <1>4, <2>1, <2>2
  <2>4. \A p \in Places(L) : f[p] \in s.successful /\ f[p].version = o[p[1]]
    BY <1>6, <2>1, <2>3
  <2>5. f \in [Places(L) -> s.successful]
    BY <2>4
  <2> HIDE DEF f
  <2>6. ASSUME NEW p \in Places(L), NEW q \in Places(L), f[p] = f[q]
        PROVE  p = q
    <3>1. p[1] = q[1]
      <4>1. o[p[1]] = o[q[1]]
        BY <2>4, <2>6
      <4>. QED BY <1>1, <2>1, <4>1
    <3>2. PICK v \in V : v = o[p[1]] /\ v = o[q[1]]
      BY <2>1, <3>1
    <3>3. /\ p[2] \in 1 .. Cardinality(R(v)) /\ q[2] \in 1 .. Cardinality(R(v))
          /\ a(v)[p[2]] = a(v)[q[2]]
      BY <2>1, <2>2, <2>6, <3>2
    <3>4. p[2] = q[2]
      BY <1>4, <3>3
    <3>5. p = <<p[1], p[2]>> /\ q = <<q[1], q[2]>>
      BY <2>1
    <3>. QED BY <3>1, <3>4, <3>5, Zenon
  <2>7. ASSUME NEW r \in s.successful
        PROVE  \E p \in Places(L) : f[p] = r
    <3>1. PICK v \in V : v = r.version
      BY <1>7
    <3>2. PICK j \in 1 .. Cardinality(R(v)) : a(v)[j] = r
      BY <1>4, <1>6, <3>1
    <3>3. PICK i \in 1 .. n : o[i] = v
      BY <1>1
    <3>4. i \in DOMAIN L /\ j \in DOMAIN L[i].artifacts
      BY <1>4, <1>8, <3>3
    <3>5. PICK p \in Places(L) : p = <<i, j>>
      BY <3>4, PlacesForm
    <3>6. p[1] = i /\ p[2] = j
      BY <3>5
    <3>. QED BY <2>2, <3>2, <3>3, <3>6
  <2>8. f \in Injection(Places(L), s.successful)
    BY <2>5, <2>6 DEF Injection, IsInjective
  <2>9. f \in Surjection(Places(L), s.successful)
    BY <2>5, <2>7 DEF Surjection
  <2>. QED BY <1>3, <2>8, <2>9, FS_Injection
<1>. QED BY <1>9, <1>10, <1>11, <1>12, <1>13 DEF L

(* The lines of releases that follow one another: nothing is lost, hidden  *)
(* or moved by it, for they are of different releases.                     *)
LEMMA JoinForm ==
    ASSUME NEW a \in Seq(AnyLine), NEW b \in Seq(AnyLine), NEW T, NEW U, T \cap U = {},
           OfTags(a, T), OfTags(b, U), Descending(a), Descending(b),
           IsFiniteSet(Places(a)), IsFiniteSet(Places(b))
    PROVE  /\ a \o b \in Seq(AnyLine)
           /\ OfTags(a \o b, T \cup U) /\ Descending(a \o b)
           /\ Offered(a \o b) = Offered(a) \cup Offered(b)
           /\ IsFiniteSet(Places(a \o b))
           /\ Cardinality(Places(a \o b)) = Cardinality(Places(a)) + Cardinality(Places(b))
<1> DEFINE c == a \o b
<1>1. PICK m \in Nat, n \in Nat : m = Len(a) /\ n = Len(b)
  BY LenProperties
<1>2. c \in Seq(AnyLine)
  BY ConcatForm
<1>3. DOMAIN a = 1 .. m /\ DOMAIN b = 1 .. n
  BY <1>1, LenProperties
<1>4. DOMAIN c = 1 .. m + n
  <2>1. DOMAIN c = 1 .. Len(c)
    BY <1>2, LenProperties
  <2>2. Len(c) = m + n
    BY <1>1, ConcatForm
  <2>. QED BY <2>1, <2>2
<1>5. /\ \A i \in 1 .. m : c[i] = a[i]
      /\ \A i \in 1 .. n : c[m + i] = b[i]
      /\ \A i \in 1 .. m + n : i \in 1 .. m \/ \E k \in 1 .. n : i = m + k
  BY <1>1, ConcatForm
<1>6. /\ \A i \in 1 .. m : i \in 1 .. m + n
      /\ \A i \in 1 .. n : m + i \in 1 .. m + n
      /\ \A i \in 1 .. m, k \in 1 .. n : i < m + k /\ i # m + k /\ ~(m + k < i)
      /\ \A i, k \in 1 .. n : m + i < m + k => i < k
      /\ \A i, k \in 1 .. n : m + i = m + k => i = k
  BY <1>1
<1> HIDE DEF c
<1>7. OfTags(c, T \cup U)
  <2> SUFFICES ASSUME NEW i \in 1 .. m + n PROVE c[i].tag \in T \cup U
    BY <1>4 DEF OfTags
  <2>1. CASE i \in 1 .. m
    BY <1>3, <1>5, <2>1 DEF OfTags
  <2>2. ASSUME NEW k \in 1 .. n, i = m + k
        PROVE  c[i].tag \in U
    BY <1>3, <1>5, <2>2 DEF OfTags
  <2>. QED BY <1>5, <2>1, <2>2
<1>8. Descending(c)
  <2> SUFFICES ASSUME NEW i \in 1 .. m + n, NEW j \in 1 .. m + n,
                      i < j, c[i].tag = c[j].tag
               PROVE  ~SemverLess(c[i].version, c[j].version)
    BY <1>4 DEF Descending
  <2>1. CASE i \in 1 .. m /\ j \in 1 .. m
    BY <1>3, <1>5, <2>1 DEF Descending
  <2>2. CASE i \in 1 .. m /\ \E k \in 1 .. n : j = m + k
    BY <1>3, <1>5, <2>2 DEF OfTags
  <2>3. CASE j \in 1 .. m /\ \E k \in 1 .. n : i = m + k
    BY <1>6, <2>3
  <2>4. ASSUME NEW k \in 1 .. n, NEW l \in 1 .. n, i = m + k, j = m + l
        PROVE  ~SemverLess(c[i].version, c[j].version)
    <3>1. k < l /\ c[i] = b[k] /\ c[j] = b[l]
      BY <1>5, <1>6, <2>4
    <3>. QED BY <1>3, <3>1 DEF Descending
  <2>. QED BY <1>5, <2>1, <2>2, <2>3, <2>4
<1>9. Offered(c) = Offered(a) \cup Offered(b)
  <2> DEFINE At(lines, i, x) == \E j \in DOMAIN lines[i].artifacts :
                x = <<lines[i].tag, lines[i].version, lines[i].artifacts[j]>>
  <2>1. \A x : /\ x \in Offered(a) <=> \E i \in 1 .. m : At(a, i, x)
               /\ x \in Offered(b) <=> \E i \in 1 .. n : At(b, i, x)
               /\ x \in Offered(c) <=> \E i \in 1 .. m + n : At(c, i, x)
    BY <1>3, <1>4 DEF Offered
  <2>2. /\ \A i \in 1 .. m : \A x : At(c, i, x) <=> At(a, i, x)
        /\ \A i \in 1 .. n : \A x : At(c, m + i, x) <=> At(b, i, x)
    BY <1>5
  <2> HIDE DEF At
  <2>3. ASSUME NEW x \in Offered(c)
        PROVE  x \in Offered(a) \cup Offered(b)
    <3>1. PICK i \in 1 .. m + n : At(c, i, x)
      BY <2>1
    <3>. QED BY <1>5, <2>1, <2>2, <3>1
  <2>4. ASSUME NEW x \in Offered(a)
        PROVE  x \in Offered(c)
    BY <1>6, <2>1, <2>2
  <2>5. ASSUME NEW x \in Offered(b)
        PROVE  x \in Offered(c)
    <3>1. PICK i \in 1 .. n : At(b, i, x)
      BY <2>1
    <3>2. At(c, m + i, x) /\ m + i \in 1 .. m + n
      BY <1>6, <2>2, <3>1
    <3>. QED BY <2>1, <3>2
  <2>. QED BY <2>3, <2>4, <2>5
<1>10. /\ IsFiniteSet(Places(c))
       /\ Cardinality(Places(c)) = Cardinality(Places(a)) + Cardinality(Places(b))
  <2> DEFINE f == [p \in Places(b) |-> <<m + p[1], p[2]>>]
             moved == {f[p] : p \in Places(b)}
  <2>1. \A p \in Places(b) : f[p][1] = m + p[1] /\ f[p][2] = p[2] /\ f[p] = <<m + p[1], p[2]>>
    OBVIOUS
  <2>2. /\ \A p \in Places(a) : /\ p[1] \in 1 .. m /\ p[2] \in DOMAIN a[p[1]].artifacts
                                /\ p = <<p[1], p[2]>>
        /\ \A p \in Places(b) : /\ p[1] \in 1 .. n /\ p[2] \in DOMAIN b[p[1]].artifacts
                                /\ p = <<p[1], p[2]>>
        /\ \A p \in Places(c) : /\ p[1] \in 1 .. m + n /\ p[2] \in DOMAIN c[p[1]].artifacts
                                /\ p = <<p[1], p[2]>>
    BY <1>3, <1>4, PlacesForm, Zenon
  <2>3. f \in Bijection(Places(b), moved)
    <3>1. f \in Surjection(Places(b), moved)
      BY DEF Surjection
    <3>2. ASSUME NEW p \in Places(b), NEW q \in Places(b), f[p] = f[q]
          PROVE  p = q
      <4>1. m + p[1] = m + q[1] /\ p[2] = q[2]
        BY <2>1, <3>2
      <4>2. p[1] = q[1]
        BY <1>6, <2>2, <4>1
      <4>. QED BY <2>2, <4>1, <4>2, Zenon
    <3> HIDE DEF f, moved
    <3>. QED BY <3>1, <3>2 DEF Bijection, Injection, IsInjective, Surjection
  <2>4. IsFiniteSet(moved) /\ Cardinality(moved) = Cardinality(Places(b))
    <3>1. ExistsBijection(Places(b), moved)
      BY <2>3, Zenon DEF ExistsBijection
    <3> HIDE DEF moved
    <3>. QED BY <3>1, FS_Bijection
  <2>5. Places(c) = Places(a) \cup moved
    <3>1. ASSUME NEW p \in Places(c)
          PROVE  p \in Places(a) \cup moved
      <4>1. CASE p[1] \in 1 .. m
        <5>1. p[2] \in DOMAIN a[p[1]].artifacts
          BY <1>5, <2>2, <4>1
        <5>2. <<p[1], p[2]>> \in Places(a)
          BY <1>3, <4>1, <5>1, PlacesForm
        <5>. QED BY <2>2, <5>2
      <4>2. ASSUME NEW k \in 1 .. n, p[1] = m + k
            PROVE  p \in moved
        <5>1. p[2] \in DOMAIN b[k].artifacts
          BY <1>5, <2>2, <4>2
        <5>2. PICK q \in Places(b) : q = <<k, p[2]>>
          BY <1>3, <5>1, PlacesForm
        <5>3. q[1] = k /\ q[2] = p[2]
          BY <5>2
        <5>4. f[q] = p
          BY <2>1, <2>2, <4>2, <5>3
        <5>. QED BY <5>4
      <4>. QED BY <1>5, <2>2, <4>1, <4>2
    <3>2. ASSUME NEW p \in Places(a)
          PROVE  p \in Places(c)
      <4>1. /\ p[1] \in 1 .. m + n /\ p[2] \in DOMAIN c[p[1]].artifacts
            /\ p = <<p[1], p[2]>>
        BY <1>5, <1>6, <2>2
      <4>2. <<p[1], p[2]>> \in Places(c)
        BY <1>4, <4>1, PlacesForm
      <4>. QED BY <4>1, <4>2
    <3>3. ASSUME NEW p \in Places(b)
          PROVE  f[p] \in Places(c)
      <4>1. /\ m + p[1] \in 1 .. m + n /\ p[2] \in DOMAIN c[m + p[1]].artifacts
        BY <1>5, <1>6, <2>2
      <4>2. <<m + p[1], p[2]>> \in Places(c)
        BY <1>4, <4>1, PlacesForm
      <4>. QED BY <2>1, <4>2
    <3>. QED BY <3>1, <3>2, <3>3
  <2>6. Places(a) \cap moved = {}
    <3> SUFFICES ASSUME NEW p \in Places(a), NEW q \in Places(b), p = f[q] PROVE FALSE
      OBVIOUS
    <3>1. p[1] \in 1 .. m /\ q[1] \in 1 .. n
      BY <2>2
    <3>2. p[1] = m + q[1]
      BY <2>1
    <3>. QED BY <1>6, <3>1, <3>2
  <2> HIDE DEF moved, f
  <2>7. PICK x \in Nat, y \in Nat : x = Cardinality(Places(a)) /\ y = Cardinality(Places(b))
    BY FS_CardinalityType
  <2>8. /\ IsFiniteSet(Places(a) \cup moved)
        /\ Cardinality(Places(a) \cup moved) =
                Cardinality(Places(a)) + Cardinality(moved) - Cardinality(Places(a) \cap moved)
    BY <2>4, FS_Union
  <2>9. Cardinality(Places(a) \cap moved) = 0
    BY <2>6, FS_EmptySet
  <2>10. Cardinality(Places(a) \cup moved) = x + y - 0
    BY <2>4, <2>7, <2>8, <2>9, Zenon
  <2>. QED BY <2>5, <2>7, <2>8, <2>10
<1>. QED BY <1>2, <1>7, <1>8, <1>9, <1>10 DEF c

(* The lines of the first n snapshots, for every n.                        *)
UpTo(snapshots, k, g) ==
    g = [n \in 0 .. k |-> IF n = 0 THEN <<>> ELSE g[n - 1] \o Lines(snapshots[n])]

(* There are such lines: else there were a first snapshot without.         *)
LEMMA UpToExists ==
    ASSUME NEW snapshots, NEW k \in Nat
    PROVE  \E g : UpTo(snapshots, k, g)
<1> DEFINE without == {l \in Nat : ~\E g : UpTo(snapshots, l, g)}
<1>1. SUFFICES ASSUME without # {} PROVE FALSE
  OBVIOUS
<1>2. PICK n \in without : \A m \in without : n <= m
  <2>1. without \in SUBSET Nat
    OBVIOUS
  <2> HIDE DEF without
  <2>. QED BY <1>1, <2>1, LeastExists
<1>3. n \in Nat /\ ~\E g : UpTo(snapshots, n, g)
  OBVIOUS
<1>4. CASE n = 0
  <2> DEFINE h == [x \in 0 .. 0 |-> <<>>]
  <2>1. h = [x \in 0 .. 0 |-> IF x = 0 THEN <<>> ELSE h[x - 1] \o Lines(snapshots[x])]
    OBVIOUS
  <2>2. UpTo(snapshots, 0, h)
    BY <2>1 DEF UpTo
  <2>. QED BY <1>3, <1>4, <2>2
<1>5. CASE n # 0
  <2>1. n - 1 \in Nat /\ ~(n <= n - 1)
    BY <1>3, <1>5
  <2>2. PICK g : UpTo(snapshots, n - 1, g)
    BY <1>2, <2>1
  <2>3. \A x \in 0 .. n - 1 :
            g[x] = IF x = 0 THEN <<>> ELSE g[x - 1] \o Lines(snapshots[x])
    <3> DEFINE e(x) == IF x = 0 THEN <<>> ELSE g[x - 1] \o Lines(snapshots[x])
    <3>1. g = [x \in 0 .. n - 1 |-> e(x)]
      BY <2>2 DEF UpTo
    <3> HIDE DEF e
    <3>2. \A x \in 0 .. n - 1 : g[x] = e(x)
      BY <3>1
    <3>. QED BY <3>2 DEF e
  <2> DEFINE h == [x \in 0 .. n |->
                    IF x = n THEN g[n - 1] \o Lines(snapshots[n]) ELSE g[x]]
             e(x) == IF x = 0 THEN <<>> ELSE h[x - 1] \o Lines(snapshots[x])
  <2>4. h[n] = g[n - 1] \o Lines(snapshots[n]) /\ \A x \in 0 .. n - 1 : h[x] = g[x]
    <3>1. n \in 0 .. n /\ \A x \in 0 .. n - 1 : x \in 0 .. n /\ x # n
      BY <1>3
    <3>. QED BY <3>1
  <2>5. DOMAIN h = 0 .. n /\ h = [x \in 0 .. n |-> h[x]]
    OBVIOUS
  <2> HIDE DEF h
  <2>6. ASSUME NEW x \in 0 .. n
        PROVE  h[x] = e(x)
    <3>1. CASE x = n
      <4>1. n - 1 \in 0 .. n - 1
        BY <2>1
      <4>. QED BY <1>5, <2>4, <3>1, <4>1
    <3>2. CASE x # n /\ x = 0
      <4>1. 0 \in 0 .. n - 1
        BY <2>1
      <4>. QED BY <2>3, <2>4, <3>2, <4>1
    <3>3. CASE x # n /\ x # 0
      <4>1. x \in 0 .. n - 1 /\ x - 1 \in 0 .. n - 1
        BY <1>3, <3>3
      <4>. QED BY <2>3, <2>4, <3>3, <4>1
    <3>. QED BY <3>1, <3>2, <3>3
  <2> HIDE DEF e
  <2>7. h = [x \in 0 .. n |-> e(x)]
    BY <2>5, <2>6
  <2>8. UpTo(snapshots, n, h)
    BY <2>7 DEF UpTo, e
  <2>. QED BY <1>3, <2>8
<1>. QED BY <1>4, <1>5

(* So the feed is the lines of all.                                        *)
LEMMA FeedForm ==
    ASSUME NEW snapshots, Len(snapshots) \in Nat
    PROVE  \E u : /\ UpTo(snapshots, Len(snapshots), u)
                  /\ VersionsNdjson(snapshots) = u[Len(snapshots)]
<1> DEFINE P(g) ==
            g = [n \in 0 .. Len(snapshots) |->
                    IF n = 0 THEN <<>> ELSE g[n - 1] \o Lines(snapshots[n])]
           u == CHOOSE g : P(g)
<1>1. VersionsNdjson(snapshots) = u[Len(snapshots)]
  BY DEF VersionsNdjson
<1>2. \A g : UpTo(snapshots, Len(snapshots), g) <=> P(g)
  BY DEF UpTo
<1> HIDE DEF P
<1>3. \E g : P(g)
  BY <1>2, UpToExists
<1>4. P(u)
  BY <1>3
<1> HIDE DEF u
<1>. QED BY <1>1, <1>2, <1>4

TagsUpTo(snapshots, k) == {snapshots[i].tag : i \in 1 .. k}
IndexedUpTo(snapshots, k) == UNION {OfferedBy(snapshots[i]) : i \in 1 .. k}
EntriesUpTo(snapshots, k) == UNION {{<<i, r>> : r \in snapshots[i].successful} : i \in 1 .. k}

(* The lines of the first k snapshots are in order, and offer each archive *)
(* of them once.                                                           *)
Faithful(lines, snapshots, k) ==
    /\ lines \in Seq(AnyLine)
    /\ OfTags(lines, TagsUpTo(snapshots, k)) /\ Descending(lines)
    /\ Offered(lines) = IndexedUpTo(snapshots, k)
    /\ IsFiniteSet(Places(lines)) /\ IsFiniteSet(EntriesUpTo(snapshots, k))
    /\ Cardinality(Places(lines)) = Cardinality(EntriesUpTo(snapshots, k))

LEMMA FaithfulAtFirst ==
    ASSUME NEW snapshots
    PROVE  Faithful(<<>>, snapshots, 0)
<1>1. <<>> \in Seq(AnyLine) /\ DOMAIN <<>> = {} /\ 1 .. 0 = {}
  OBVIOUS
<1> DEFINE none == <<>>
<1>2. none \in Seq(AnyLine) /\ DOMAIN none = {}
  BY <1>1
<1> HIDE DEF none
<1>3. OfTags(none, TagsUpTo(snapshots, 0)) /\ Descending(none)
  BY <1>2 DEF OfTags, Descending
<1>4. Offered(none) = {} /\ Places(none) = {}
  BY <1>2 DEF Offered, Places
<1>5. IndexedUpTo(snapshots, 0) = {} /\ EntriesUpTo(snapshots, 0) = {}
  BY <1>1 DEF IndexedUpTo, EntriesUpTo
<1>6. Faithful(none, snapshots, 0)
  BY <1>2, <1>3, <1>4, <1>5, FS_EmptySet DEF Faithful
<1>. QED BY <1>6 DEF none

(* One snapshot more.                                                      *)
LEMMA FaithfulNext ==
    ASSUME NEW snapshots, Canonical(snapshots), Feedable(snapshots),
           NEW k \in 1 .. Len(snapshots), NEW lines, Faithful(lines, snapshots, k - 1)
    PROVE  Faithful(lines \o Lines(snapshots[k]), snapshots, k)
<1> DEFINE s == snapshots[k]
           next == Lines(s)
           more == {<<k, r>> : r \in s.successful}
<1>1. snapshots \in Seq(Snapshot)
  BY DEF Canonical
<1>2. /\ Len(snapshots) \in Nat /\ DOMAIN snapshots = 1 .. Len(snapshots)
      /\ \A i \in 1 .. Len(snapshots) : snapshots[i] \in Snapshot
  BY <1>1, MembersForm
<1>3. PICK n \in Nat : n = Len(snapshots)
  BY <1>2
<1>4. k \in 1 .. n
  BY <1>3
<1>5. /\ 1 .. k = 1 .. k - 1 \cup {k} /\ \A i \in 1 .. k - 1 : i # k /\ i \in 1 .. n
      /\ k \in Nat
  BY <1>4
<1>6. Servable(s)
  BY <1>2 DEF Servable, Canonical, Feedable
<1>7. /\ next \in Seq(AnyLine) /\ OfTags(next, {s.tag}) /\ Descending(next)
      /\ Offered(next) = OfferedBy(s) /\ IsFiniteSet(Places(next))
      /\ Cardinality(Places(next)) = Cardinality(s.successful)
  BY <1>6, LinesForm
<1>8. /\ lines \in Seq(AnyLine) /\ OfTags(lines, TagsUpTo(snapshots, k - 1))
      /\ Descending(lines) /\ IsFiniteSet(Places(lines))
      /\ Offered(lines) = IndexedUpTo(snapshots, k - 1)
      /\ IsFiniteSet(EntriesUpTo(snapshots, k - 1))
      /\ Cardinality(Places(lines)) = Cardinality(EntriesUpTo(snapshots, k - 1))
  BY DEF Faithful
<1>9. TagsUpTo(snapshots, k - 1) \cap {s.tag} = {}
  <2> SUFFICES ASSUME NEW i \in 1 .. k - 1, snapshots[i].tag = snapshots[k].tag
               PROVE  FALSE
    BY DEF TagsUpTo
  <2>1. i \in DOMAIN snapshots /\ k \in DOMAIN snapshots /\ i # k
    BY <1>2, <1>3, <1>4, <1>5
  <2>. QED BY <2>1 DEF Canonical
<1>10. /\ TagsUpTo(snapshots, k) = TagsUpTo(snapshots, k - 1) \cup {s.tag}
       /\ IndexedUpTo(snapshots, k) = IndexedUpTo(snapshots, k - 1) \cup OfferedBy(s)
       /\ EntriesUpTo(snapshots, k) = EntriesUpTo(snapshots, k - 1) \cup more
  <2> DEFINE I == 1 .. k - 1
  <2>1. 1 .. k = I \cup {k}
    BY <1>5
  <2> HIDE DEF I
  <2>2. TagsUpTo(snapshots, k) = {snapshots[i].tag : i \in I} \cup {s.tag}
    BY <2>1 DEF TagsUpTo
  <2>3. IndexedUpTo(snapshots, k) = (UNION {OfferedBy(snapshots[i]) : i \in I}) \cup OfferedBy(s)
    BY <2>1 DEF IndexedUpTo
  <2>4. EntriesUpTo(snapshots, k) =
            (UNION {{<<i, r>> : r \in snapshots[i].successful} : i \in I}) \cup more
    BY <2>1 DEF EntriesUpTo
  <2>. QED BY <2>2, <2>3, <2>4 DEF I, TagsUpTo, IndexedUpTo, EntriesUpTo
<1>11. EntriesUpTo(snapshots, k - 1) \cap more = {}
  <2> SUFFICES ASSUME NEW e \in EntriesUpTo(snapshots, k - 1), e \in more PROVE FALSE
    OBVIOUS
  <2>1. PICK i \in 1 .. k - 1 : e \in {<<i, r>> : r \in snapshots[i].successful}
    BY DEF EntriesUpTo
  <2>2. e[1] = i
    BY <2>1
  <2>3. e[1] = k
    OBVIOUS
  <2>. QED BY <1>5, <2>2, <2>3
<1>12. IsFiniteSet(more) /\ Cardinality(more) = Cardinality(s.successful)
  <2> DEFINE f == [r \in s.successful |-> <<k, r>>]
  <2>1. f \in Bijection(s.successful, more)
    BY DEF Bijection, Injection, IsInjective, Surjection
  <2>2. ExistsBijection(s.successful, more)
    BY <2>1, Zenon DEF ExistsBijection
  <2>3. IsFiniteSet(s.successful)
    BY <1>6 DEF Servable
  <2> HIDE DEF more, s
  <2>. QED BY <2>2, <2>3, FS_Bijection
<1> HIDE DEF next, more, s
<1>13. /\ lines \o next \in Seq(AnyLine)
       /\ OfTags(lines \o next, TagsUpTo(snapshots, k - 1) \cup {s.tag})
       /\ Descending(lines \o next)
       /\ Offered(lines \o next) = Offered(lines) \cup Offered(next)
       /\ IsFiniteSet(Places(lines \o next))
       /\ Cardinality(Places(lines \o next)) =
                Cardinality(Places(lines)) + Cardinality(Places(next))
  BY <1>7, <1>8, <1>9, JoinForm
<1>14. /\ IsFiniteSet(EntriesUpTo(snapshots, k))
       /\ Cardinality(EntriesUpTo(snapshots, k)) =
                Cardinality(EntriesUpTo(snapshots, k - 1)) + Cardinality(more)
  <2>1. PICK A, B : A = EntriesUpTo(snapshots, k - 1) /\ B = more
    OBVIOUS
  <2>2. IsFiniteSet(A) /\ IsFiniteSet(B) /\ A \cap B = {}
    BY <1>8, <1>11, <1>12, <2>1
  <2>3. PICK x \in Nat, y \in Nat : x = Cardinality(A) /\ y = Cardinality(B)
    BY <2>2, FS_CardinalityType
  <2>4. IsFiniteSet(A \cup B) /\ Cardinality(A \cup B) = x + y - Cardinality(A \cap B)
    BY <2>2, <2>3, FS_Union
  <2>5. Cardinality(A \cap B) = 0
    BY <2>2, FS_EmptySet
  <2>6. Cardinality(A \cup B) = x + y
    <3>1. x + y - 0 = x + y
      OBVIOUS
    <3>. QED BY <2>4, <2>5, <3>1
  <2>. QED BY <1>10, <2>1, <2>3, <2>4, <2>6
<1>15. Cardinality(Places(lines \o next)) = Cardinality(EntriesUpTo(snapshots, k))
  BY <1>7, <1>8, <1>12, <1>13, <1>14, Zenon
<1>16. Offered(lines \o next) = IndexedUpTo(snapshots, k)
  BY <1>7, <1>8, <1>10, <1>13, Zenon
<1>17. OfTags(lines \o next, TagsUpTo(snapshots, k))
  BY <1>10, <1>13, Zenon
<1>18. Faithful(lines \o next, snapshots, k)
  BY <1>13, <1>14, <1>15, <1>16, <1>17 DEF Faithful
<1>. QED BY <1>18 DEF next, s

(* So the feed is faithful to its whole index: else there were a first     *)
(* snapshot up to which it is not.                                         *)
LEMMA FeedIsFaithful ==
    ASSUME NEW snapshots, Canonical(snapshots), Feedable(snapshots)
    PROVE  Faithful(VersionsNdjson(snapshots), snapshots, Len(snapshots))
<1>1. PICK n \in Nat : n = Len(snapshots)
  <2>1. snapshots \in Seq(Snapshot)
    BY DEF Canonical
  <2>. QED BY <2>1, LenProperties
<1>2. PICK u : UpTo(snapshots, n, u) /\ VersionsNdjson(snapshots) = u[n]
  BY <1>1, FeedForm
<1> DEFINE e(k) == IF k = 0 THEN <<>> ELSE u[k - 1] \o Lines(snapshots[k])
<1>3. \A k \in 0 .. n : u[k] = e(k)
  <2>1. u = [k \in 0 .. n |-> e(k)]
    BY <1>2 DEF UpTo
  <2> HIDE DEF e
  <2>. QED BY <2>1
<1> DEFINE unfaithful == {k \in 0 .. n : ~Faithful(u[k], snapshots, k)}
<1>4. ASSUME unfaithful # {}
      PROVE  FALSE
  <2>1. PICK k \in unfaithful : \A m \in unfaithful : k <= m
    <3>1. unfaithful \in SUBSET Nat
      OBVIOUS
    <3> HIDE DEF unfaithful
    <3>. QED BY <1>4, <3>1, LeastExists
  <2>2. k \in 0 .. n /\ ~Faithful(u[k], snapshots, k)
    OBVIOUS
  <2>3. k # 0
    <3>1. u[0] = <<>>
      BY <1>3
    <3>. QED BY <2>2, <3>1, FaithfulAtFirst
  <2>4. k \in 1 .. n /\ k - 1 \in 0 .. n /\ ~(k <= k - 1)
    BY <2>2, <2>3
  <2>5. Faithful(u[k - 1], snapshots, k - 1)
    BY <2>1, <2>4
  <2>6. u[k] = u[k - 1] \o Lines(snapshots[k])
    BY <1>3, <2>2, <2>3
  <2> HIDE DEF unfaithful
  <2>7. Faithful(u[k - 1] \o Lines(snapshots[k]), snapshots, k)
    <3>1. k \in 1 .. Len(snapshots)
      BY <1>1, <2>4
    <3>. QED BY <2>5, <3>1, FaithfulNext
  <2>. QED BY <2>2, <2>6, <2>7
<1>5. n \in 0 .. n
  BY <1>1
<1>6. Faithful(u[n], snapshots, n)
  BY <1>4, <1>5
<1>. QED BY <1>1, <1>2, <1>6

-----------------------------------------------------------------------------
(* The service.                                                            *)

(* What is stored is an index that the ingestion may have left, and what   *)
(* was served last was the feed of it.                                     *)
FeedInv ==
    /\ stored \in {NoIndex, CorruptIndex} \cup {Index(h) : h \in Histories}
    /\ Served => /\ stored.snapshots \in Histories /\ Feedable(stored.snapshots)
                 /\ response.lines = VersionsNdjson(stored.snapshots)

LEMMA FeedInitInv == FeedInit => FeedInv
BY DEF FeedInit, FeedInv, NoAnswer, Served

LEMMA FeedStepInv == FeedInv /\ [FeedNext]_feedVars => FeedInv'
<1> SUFFICES ASSUME FeedInv, [FeedNext]_feedVars PROVE FeedInv'
  OBVIOUS
<1>1. CASE GetIndex
  <2>1. stored' = stored /\ response'.route = "index.json"
    BY <1>1 DEF GetIndex
  <2>. QED BY <2>1 DEF FeedInv, Served
<1>2. CASE GetVersions
  <2>1. stored' = stored
    BY <1>2 DEF GetVersions
  <2>2. CASE stored.state = "none"
    <3>1. response'.status = 404
      BY <1>2, <2>2 DEF GetVersions
    <3>. QED BY <2>1, <3>1 DEF FeedInv, Served
  <2>3. CASE stored.state # "none" /\ (stored.state = "corrupt" \/ ~Feedable(stored.snapshots))
    <3>1. response'.status = 500
      BY <1>2, <2>3 DEF GetVersions
    <3>. QED BY <2>1, <3>1 DEF FeedInv, Served
  <2>4. CASE stored.state # "none" /\ stored.state # "corrupt" /\ Feedable(stored.snapshots)
    <3>1. response'.lines = VersionsNdjson(stored.snapshots)
      BY <1>2, <2>4 DEF GetVersions
    <3>2. stored.snapshots \in Histories
      BY <2>4 DEF FeedInv, NoIndex, CorruptIndex, Index
    <3>. QED BY <2>1, <2>4, <3>1, <3>2 DEF FeedInv
  <2>. QED BY <2>2, <2>3, <2>4
<1>3. CASE UNCHANGED feedVars
  BY <1>3 DEF feedVars, FeedInv, Served
<1>. QED BY <1>1, <1>2, <1>3 DEF FeedNext

(* Whatever the ingestion may have left, of any number of releases and     *)
(* versions, a feed that is served is that of the index that is stored.    *)
THEOREM FeedInvariant == FeedSpec => []FeedInv
<1>. QED BY FeedInitInv, FeedStepInv, PTL DEF FeedSpec

(* What was served offers the index of the service, in order.              *)
LEMMA FeedInvIsFaithful ==
    FeedInv /\ Served => Faithful(response.lines, stored.snapshots, Len(stored.snapshots))
<1> SUFFICES ASSUME FeedInv, Served
             PROVE  Faithful(response.lines, stored.snapshots, Len(stored.snapshots))
  OBVIOUS
<1>1. /\ stored.snapshots \in Histories /\ Feedable(stored.snapshots)
      /\ response.lines = VersionsNdjson(stored.snapshots)
  BY DEF FeedInv
<1>2. PICK h \in Histories : h = stored.snapshots
  BY <1>1
<1>3. Canonical(h) /\ Feedable(h)
  BY <1>1, <1>2, FeedAssumption
<1>4. Faithful(VersionsNdjson(h), h, Len(h))
  BY <1>3, FeedIsFaithful
<1>. QED BY <1>1, <1>2, <1>4

(* Of the lines of one release an earlier one never has a lower precedence *)
(* by SemVer: where SemVer orders two versions, the key that               *)
(* _postgres_version_key sorts by does too.                                *)
THEOREM FeedOrdered == FeedSpec => []FeedIsInPrecedenceOrder
<1>1. FeedInv => FeedIsInPrecedenceOrder
  BY FeedInvIsFaithful DEF FeedIsInPrecedenceOrder, Faithful, Descending
<1>. QED BY <1>1, FeedInvariant, PTL

(* Every archive of the index is in the feed once, under its own release,  *)
(* version, target and digest, and nothing else is: sorting and grouping   *)
(* lose nothing, not even where versions compare equal.                    *)
THEOREM FeedComplete == FeedSpec => []FeedIsTheIndex
<1>1. FeedInv => FeedIsTheIndex
  <2> SUFFICES ASSUME FeedInv, Served
               PROVE  /\ Offered(response.lines) = Indexed(stored.snapshots)
                      /\ Cardinality(Places(response.lines)) =
                            Cardinality(Entries(stored.snapshots))
    BY DEF FeedIsTheIndex
  <2>1. PICK h \in Histories : h = stored.snapshots
    BY DEF FeedInv
  <2>2. DOMAIN h = 1 .. Len(h)
    <3>1. h \in Seq(Snapshot)
      BY FeedAssumption DEF Canonical
    <3>. QED BY <3>1, LenProperties
  <2>3. IndexedUpTo(h, Len(h)) = Indexed(h)
    BY <2>2 DEF IndexedUpTo, OfferedBy, Indexed
  <2>4. EntriesUpTo(h, Len(h)) = Entries(h)
    BY <2>2 DEF EntriesUpTo, Entries
  <2>5. Faithful(response.lines, h, Len(h))
    BY <2>1, FeedInvIsFaithful
  <2>. QED BY <2>1, <2>3, <2>4, <2>5 DEF Faithful
<1>. QED BY <1>1, FeedInvariant, PTL

===============================================================================

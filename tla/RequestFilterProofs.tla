------------------------- MODULE RequestFilterProofs -------------------------
(***************************************************************************)
(* Theorems about RequestFilter, for any configurations and agents, any    *)
(* messages and any failures of the calls.                                 *)
(*                                                                         *)
(* The first two parts are about patterns.  A text fits a pattern if it    *)
(* can be cut into pieces that the letters of the pattern stand for.       *)
(* glob_match takes each part of the pattern where it lies first, which    *)
(* leaves the most to the parts that follow: it finds a cut if there is    *)
(* one (MatchesIs).  What a pattern means is a text put together from such *)
(* pieces (CoversIs), so the two agree (GlobIsExact).                      *)
(*                                                                         *)
(* The next two are about the skills of a card.  BuildSkills folds over    *)
(* two lists; FoldSteps says that such a fold adds one element after the   *)
(* other, which is shown once, for both, by way of the recursive function  *)
(* that a fold is.  The last two hold the invariant of a request.          *)
(***************************************************************************)
EXTENDS RequestFilter, FiniteSetTheorems, SequenceTheorems, WellFoundedInduction, TLAPS

\* A non-empty set of naturals has a smallest element, and Min picks it.
LEMMA SmallestPicked ==
  ASSUME NEW S \in SUBSET Nat, S # {}
  PROVE  Min(S) \in S /\ \A y \in S : Min(S) <= y
<1> DEFINE R == {ss \in Nat \X Nat : ss[1] < ss[2]}
<1>1. IsWellFoundedOn(R, Nat)
  BY NatLessThanWellFounded DEF OpToRel
<1>2. PICK x \in S : \A y \in S : ~(<<y, x>> \in R)
  BY <1>1, WFMin
<1>3. ASSUME NEW y \in S, y < x  PROVE FALSE
  <2>1. <<y, x>> \in Nat \X Nat /\ <<y, x>>[1] < <<y, x>>[2]
    BY <1>3
  <2>2. <<y, x>> \in R
    BY <2>1
  <2> QED
    BY <1>2, <2>2
<1>4. \A y \in S : x <= y
  BY <1>3
<1> QED
  BY <1>4 DEF Min

\* Nor has one that is bounded no largest, which Max picks.
LEMMA LargestPicked ==
  ASSUME NEW n \in Nat, NEW S \in SUBSET (0..n), S # {}
  PROVE  Max(S) \in S /\ \A y \in S : y <= Max(S)
<1> DEFINE T == {n - y : y \in S}
<1>1. T \in SUBSET Nat /\ T # {}
  <2>1. \A y \in S : n - y \in Nat
    OBVIOUS
  <2>2. PICK y \in S : TRUE
    OBVIOUS
  <2>3. n - y \in T
    OBVIOUS
  <2> QED
    BY <2>1, <2>3
<1>2. Min(T) \in T /\ \A z \in T : Min(T) <= z
  BY <1>1, SmallestPicked
<1>3. PICK x \in S : Min(T) = n - x
  BY <1>2
<1> HIDE DEF T
<1>4. \A y \in S : n - x <= n - y
  BY <1>2, <1>3 DEF T
<1>5. \A y \in S : x >= y
  BY <1>4
<1>6. Max(S) \in S /\ \A y \in S : Max(S) >= y
  BY <1>5 DEF Max
<1> QED
  BY <1>6

----------------------------------------------------------------------------
(* What glob_match computes. *)

\* cut says where the pieces of t[1..k] end that the first i letters of p stand for.
Cuts(cut, p, i, t, k) ==
  /\ cut \in [0..i -> 0..Len(t)] /\ cut[0] = 0 /\ cut[i] = k
  /\ \A j \in 1..i : IF p[j] = Star THEN cut[j - 1] <= cut[j]
                     ELSE cut[j] = cut[j - 1] + 1 /\ t[cut[j]] = p[j]

Fits(p, i, t, k) == \E cut : Cuts(cut, p, i, t, k)

\* Nothing stands for nothing, ...
LEMMA NothingFits ==
  ASSUME NEW S, NEW p, NEW t \in Seq(S), NEW k \in 0..Len(t)
  PROVE  Fits(p, 0, t, k) <=> k = 0
<1>1. Len(t) \in Nat
  BY LenProperties
<1>2. ASSUME k = 0  PROVE Fits(p, 0, t, k)
  <2>1. Cuts([j \in 0..0 |-> 0], p, 0, t, k)
    BY <1>1, <1>2 DEF Cuts
  <2> QED
    BY <2>1 DEF Fits
<1> QED
  BY <1>2 DEF Fits, Cuts

\* A shorter pattern has the cuts of a longer one, and one more makes the longer one's.
LEMMA OneMoreCut ==
  ASSUME NEW S, NEW p, NEW i \in Nat \ {0}, NEW t \in Seq(S), NEW k \in 0..Len(t)
  PROVE  Fits(p, i, t, k) <=>
           \E j \in 0..Len(t) :
             /\ Fits(p, i - 1, t, j)
             /\ IF p[i] = Star THEN j <= k ELSE k = j + 1 /\ t[k] = p[i]
<1>1. Len(t) \in Nat /\ i \in Nat /\ i - 1 \in Nat
  BY LenProperties
<1> DEFINE Next1(j) == IF p[i] = Star THEN j <= k ELSE k = j + 1 /\ t[k] = p[i]
<1>2. ASSUME NEW cut, Cuts(cut, p, i, t, k)
      PROVE  cut[i - 1] \in 0..Len(t) /\ Fits(p, i - 1, t, cut[i - 1]) /\ Next1(cut[i - 1])
  <2> DEFINE less == [j \in 0..(i - 1) |-> cut[j]]
  <2>1. Cuts(less, p, i - 1, t, cut[i - 1])
    <3>1. less \in [0..(i - 1) -> 0..Len(t)] /\ less[0] = 0 /\ less[i - 1] = cut[i - 1]
      BY <1>1, <1>2 DEF Cuts
    <3>2. \A j \in 1..(i - 1) : j \in 1..i /\ less[j] = cut[j] /\ less[j - 1] = cut[j - 1]
      BY <1>1
    <3> QED
      BY <1>2, <3>1, <3>2 DEF Cuts
  <2>2. i \in 1..i /\ i - 1 \in 0..i
    BY <1>1
  <2> QED
    BY <1>2, <2>1, <2>2 DEF Cuts, Fits
<1>3. ASSUME NEW j \in 0..Len(t), Fits(p, i - 1, t, j), Next1(j)
      PROVE  Fits(p, i, t, k)
  <2>1. PICK cut : Cuts(cut, p, i - 1, t, j)
    BY <1>3 DEF Fits
  <2> DEFINE more == [x \in 0..i |-> IF x = i THEN k ELSE cut[x]]
  <2>2. more \in [0..i -> 0..Len(t)] /\ more[0] = 0 /\ more[i] = k /\ more[i - 1] = j
    BY <1>1, <2>1 DEF Cuts
  <2>3. \A x \in 1..(i - 1) : more[x] = cut[x] /\ more[x - 1] = cut[x - 1]
    BY <1>1
  <2>4. \A x \in 1..i : x = i \/ x \in 1..(i - 1)
    BY <1>1
  <2> HIDE DEF more
  <2>5. Cuts(more, p, i, t, k)
    BY <1>3, <2>1, <2>2, <2>3, <2>4 DEF Cuts
  <2> QED
    BY <2>5 DEF Fits
<1> QED
  BY <1>2, <1>3 DEF Fits

\* m letters of p behind position i, none of which is a star, and the same letters in t.
Plain(p, i, m)   == \A x \in 1..m : p[i + x] # Star
Same(p, i, t, j, m) == \A x \in 1..m : t[j + x] = p[i + x]

\* Such letters stand for themselves.
LEMMA PartFits ==
  ASSUME NEW S, NEW p, NEW i \in Nat, NEW m \in Nat, NEW t \in Seq(S), NEW k \in 0..Len(t),
         Plain(p, i, m), NEW e, e = i + m
  PROVE  Fits(p, e, t, k) <=> k >= m /\ Fits(p, i, t, k - m) /\ Same(p, i, t, k - m, m)
<1>1. Len(t) \in Nat
  BY LenProperties
<1> DEFINE Good(l) == \A j \in 0..Len(t) :
             Fits(p, i + l, t, j) <=>
               j >= l /\ Fits(p, i, t, j - l) /\ \A x \in 1..l : t[j - l + x] = p[i + x]
           Bad == {l \in 0..m : ~Good(l)}
<1>2. Good(0)
  BY <1>1
<1>3. ASSUME NEW l \in 1..m, Good(l - 1)  PROVE Good(l)
  <2> SUFFICES ASSUME NEW j \in 0..Len(t)
               PROVE  Fits(p, i + l, t, j) <=>
                        j >= l /\ Fits(p, i, t, j - l) /\ \A x \in 1..l : t[j - l + x] = p[i + x]
    OBVIOUS
  <2>1. i + l \in Nat \ {0} /\ i + l - 1 = i + (l - 1) /\ p[i + l] # Star
    <3> HIDE DEF Good
    <3>1. l \in Nat /\ l >= 1 /\ p[i + l] # Star
      BY DEF Plain
    <3> QED
      BY <3>1
  <2>2. Fits(p, i + l, t, j) <=>
          \E y \in 0..Len(t) : Fits(p, i + (l - 1), t, y) /\ j = y + 1 /\ t[j] = p[i + l]
    <3> DEFINE n == i + l
    <3> HIDE DEF n, Good
    <3>1. n \in Nat \ {0} /\ n - 1 = i + (l - 1) /\ p[n] # Star
      BY <2>1 DEF n
    <3>2. Fits(p, n, t, j) <=>
            \E y \in 0..Len(t) : Fits(p, n - 1, t, y) /\ j = y + 1 /\ t[j] = p[n]
      BY <3>1, OneMoreCut
    <3> QED
      BY <3>1, <3>2 DEF n
  <2>3. Fits(p, i + l, t, j) <=>
          j - 1 \in 0..Len(t) /\ Fits(p, i + (l - 1), t, j - 1) /\ t[j] = p[i + l]
    BY <1>1, <2>2
  <2>4. j - 1 \in 0..Len(t) =>
          (Fits(p, i + (l - 1), t, j - 1) <=>
             /\ j - 1 >= l - 1 /\ Fits(p, i, t, j - 1 - (l - 1))
             /\ \A x \in 1..(l - 1) : t[j - 1 - (l - 1) + x] = p[i + x])
    BY <1>3
  <2>5. j - 1 - (l - 1) = j - l /\ (j - 1 >= l - 1 <=> j >= l) /\ j - l + l = j
    BY <1>1
  <2>6. \A x \in 1..l : x \in 1..(l - 1) \/ x = l
    OBVIOUS
  <2>7. \A x \in 1..(l - 1) : x \in 1..l
    OBVIOUS
  <2>8. l \in 1..l /\ (j >= l => j - 1 \in 0..Len(t))
    BY <1>1
  <2> QED
    BY <2>3, <2>4, <2>5, <2>6, <2>7, <2>8
<1> HIDE DEF Good
<1>4. Bad = {}
  <2> SUFFICES ASSUME Bad # {}  PROVE FALSE
    OBVIOUS
  <2>1. Bad \in SUBSET Nat
    OBVIOUS
  <2>3. Min(Bad) \in Bad /\ \A y \in Bad : Min(Bad) <= y
    BY <2>1, SmallestPicked
  <2> DEFINE l == Min(Bad)
  <2> HIDE DEF l
  <2>2. l \in 1..m /\ l - 1 \in 0..m /\ ~(l <= l - 1)
    BY <1>2, <2>3 DEF l
  <2> QED
    BY <1>3, <2>2, <2>3 DEF l
<1>5. Good(m)
  BY <1>4
<1> QED
  BY <1>5 DEF Good, Same

\* The part before e is what lies between the star before e, or the start, and e.
LEMMA PartFacts ==
  ASSUME NEW S, NEW p \in Seq(S), NEW e \in 1..(Len(p) + 1)
  PROVE  LET b == Before(p, e) IN
         /\ b \in 0..(e - 1) /\ (b # 0 => b \in Stars(p))
         /\ \A i \in Stars(p) : i < e => i <= b
         /\ Part(p, e) \in Seq(S) /\ Len(Part(p, e)) = e - 1 - b
         /\ \A x \in 1..(e - 1 - b) : Part(p, e)[x] = p[b + x] /\ p[b + x] # Star
<1> DEFINE b == Before(p, e)
           T == {0} \union {i \in Stars(p) : i < e}
<1>1. Len(p) \in Nat /\ DOMAIN p = 1..Len(p) /\ p \in [1..Len(p) -> S]
  BY LenProperties
<1>2. T \in SUBSET (0..(e - 1)) /\ T # {} /\ e - 1 \in Nat
  BY <1>1 DEF Stars
<1>3. b \in T /\ \A i \in T : i <= b
  BY <1>2, LargestPicked DEF Before
<1> HIDE DEF b
<1>4. b \in 0..(e - 1) /\ (b # 0 => b \in Stars(p)) /\ \A i \in Stars(p) : i < e => i <= b
  BY <1>2, <1>3
<1>5. \A i \in (b + 1)..(e - 1) : i \in 1..Len(p) /\ p[i] \in S /\ p[i] # Star
  <2>1. \A i \in (b + 1)..(e - 1) : i \in 1..Len(p) /\ i < e /\ ~(i <= b)
    BY <1>1, <1>4
  <2> QED
    BY <1>1, <1>4, <2>1 DEF Stars
<1>6. /\ Part(p, e) \in Seq(S) /\ Len(Part(p, e)) = e - 1 - b
      /\ \A x \in 1..(e - 1 - b) : Part(p, e)[x] = p[b + x]
  <2> DEFINE m == b + 1
             n == e - 1
  <2>1. m \in Int /\ n \in Int /\ \A i \in m..n : p[i] \in S
    BY <1>4, <1>5
  <2>2. /\ SubSeq(p, m, n) \in Seq(S)
        /\ Len(SubSeq(p, m, n)) = IF m <= n THEN n - m + 1 ELSE 0
        /\ \A i \in 1..(n - m + 1) : SubSeq(p, m, n)[i] = p[m + i - 1]
    <3> HIDE DEF m, n
    <3> QED
      BY <2>1, SubSeqProperties
  <2>3. Part(p, e) = SubSeq(p, m, n)
    BY DEF Part, b
  <2>4. n - m + 1 = e - 1 - b /\ (IF m <= n THEN n - m + 1 ELSE 0) = e - 1 - b
    BY <1>4
  <2>5. \A i \in 1..(e - 1 - b) : m + i - 1 = b + i
    BY <1>4
  <2> QED
    BY <2>2, <2>3, <2>4, <2>5
<1>7. \A x \in 1..(e - 1 - b) : b + x \in (b + 1)..(e - 1)
  BY <1>4
<1> QED
  BY <1>4, <1>5, <1>6, <1>7 DEF b

\* part lies in t behind position i.
Lies(part, t, i) == \A x \in 1..Len(part) : t[i + x] = part[x]

\* The slice of a text behind i is the part just if the part lies there.
LEMMA SliceIs ==
  ASSUME NEW S, NEW t \in Seq(S), NEW part \in Seq(S), NEW i \in Nat, i + Len(part) <= Len(t)
  PROVE  SubSeq(t, i + 1, i + Len(part)) = part <=> Lies(part, t, i)
<1> DEFINE m == i + 1
           n == i + Len(part)
           u == SubSeq(t, m, n)
<1>1. /\ Len(t) \in Nat /\ t \in [1..Len(t) -> S]
      /\ Len(part) \in Nat
  BY LenProperties
<1>2. m \in Int /\ n \in Int /\ \A j \in m..n : t[j] \in S
  BY <1>1
<1>3. /\ u \in Seq(S)
      /\ Len(u) = IF m <= n THEN n - m + 1 ELSE 0
      /\ \A j \in 1..(n - m + 1) : u[j] = t[m + j - 1]
  <2> HIDE DEF m, n
  <2> QED
    BY <1>2, SubSeqProperties
<1>4. Len(u) = Len(part) /\ \A j \in 1..Len(part) : u[j] = t[i + j]
  <2>1. n - m + 1 = Len(part) /\ (IF m <= n THEN n - m + 1 ELSE 0) = Len(part)
    BY <1>1
  <2>2. \A j \in 1..Len(part) : m + j - 1 = i + j
    BY <1>1
  <2> HIDE DEF u
  <2> QED
    BY <1>3, <2>1, <2>2
<1> HIDE DEF u
<1>5. u = part <=> \A j \in 1..Len(part) : u[j] = part[j]
  BY <1>3, <1>4, SeqEqual
<1> QED
  BY <1>4, <1>5 DEF u, Lies

\* So it is with the start of a text, ...
LEMMA PrefixIs ==
  ASSUME NEW S, NEW t \in Seq(S), NEW part \in Seq(S)
  PROVE  IsPrefix(part, t) <=> Len(part) <= Len(t) /\ Lies(part, t, 0)
<1>1. Len(t) \in Nat /\ Len(part) \in Nat
  BY LenProperties
<1>2. SubSeq(part, 1, Len(part)) = part
  BY SubSeqFull
<1>3. Len(part) <= Len(t) =>
        (SubSeq(t, 0 + 1, 0 + Len(part)) = part <=> Lies(part, t, 0))
  BY <1>1, SliceIs
<1>4. 0 + 1 = 1 /\ 0 + Len(part) = Len(part)
  BY <1>1
<1> QED
  BY <1>2, <1>3, <1>4 DEF IsPrefix

\* ... and with its end.
LEMMA SuffixIs ==
  ASSUME NEW S, NEW t \in Seq(S), NEW part \in Seq(S)
  PROVE  IsSuffix(part, t) <=> Len(part) <= Len(t) /\ Lies(part, t, Len(t) - Len(part))
<1> DEFINE n == Len(t)
           l == Len(part)
<1>1. /\ n \in Nat /\ t \in [1..n -> S]
      /\ l \in Nat /\ part \in [1..l -> S]
  BY LenProperties
<1>2. /\ Reverse(t) \in Seq(S) /\ Len(Reverse(t)) = n
      /\ \A x \in 1..n : Reverse(t)[x] = t[n - x + 1]
  <2>1. \A x \in 1..n : t[n - x + 1] \in S
    BY <1>1
  <2>2. Reverse(t) \in [1..n -> S]
    BY <1>1, <2>1 DEF Reverse
  <2> QED
    BY <1>1, <2>2 DEF Reverse
<1>3. /\ Reverse(part) \in Seq(S) /\ Len(Reverse(part)) = l
      /\ \A x \in 1..l : Reverse(part)[x] = part[l - x + 1]
  <2>1. \A x \in 1..l : part[l - x + 1] \in S
    BY <1>1
  <2>2. Reverse(part) \in [1..l -> S]
    BY <1>1, <2>1 DEF Reverse
  <2> QED
    BY <1>1, <2>2 DEF Reverse
<1>4. IsSuffix(part, t) <=> l <= n /\ \A x \in 1..l : Reverse(t)[x] = Reverse(part)[x]
  <2>1. \A x \in 1..l : 0 + x = x
    OBVIOUS
  <2> QED
    BY <1>2, <1>3, <2>1, PrefixIs DEF IsSuffix, Lies
<1> HIDE DEF n, l
<1>5. ASSUME l <= n
      PROVE  (\A x \in 1..l : Reverse(t)[x] = Reverse(part)[x]) <=>
               \A x \in 1..l : t[n - l + x] = part[x]
  <2>1. \A x \in 1..l : /\ l - x + 1 \in 1..l /\ x \in 1..n
                        /\ n - l + (l - x + 1) = n - x + 1
                        /\ l - (l - x + 1) + 1 = x
                        /\ n - (l - x + 1) + 1 = n - l + x
    BY <1>1, <1>5
  <2>2. ASSUME \A x \in 1..l : t[n - l + x] = part[x], NEW x \in 1..l
        PROVE  Reverse(t)[x] = Reverse(part)[x]
    <3> DEFINE y == l - x + 1
    <3>1. y \in 1..l /\ n - l + y = n - x + 1 /\ x \in 1..n
      BY <1>1, <1>5
    <3>2. Reverse(part)[x] = part[y] /\ Reverse(t)[x] = t[n - x + 1]
      BY <1>2, <1>3, <3>1
    <3> HIDE DEF y
    <3> QED
      BY <2>2, <3>1, <3>2
  <2>3. ASSUME \A x \in 1..l : Reverse(t)[x] = Reverse(part)[x], NEW x \in 1..l
        PROVE  t[n - l + x] = part[x]
    <3> DEFINE y == l - x + 1
    <3>1. y \in 1..l /\ y \in 1..n /\ n - y + 1 = n - l + x /\ l - y + 1 = x
      BY <1>1, <1>5
    <3> HIDE DEF y
    <3> QED
      BY <1>2, <1>3, <2>3, <3>1
  <2> QED
    BY <2>2, <2>3
<1> QED
  BY <1>4, <1>5 DEF n, l, Lies

\* The place that glob_match reaches at star e, given those at the stars before.
PlaceAt(f, t, p, e) ==
  IF Before(p, e) = 0 THEN Len(Part(p, e)) ELSE Behind(t, f[Before(p, e)], Part(p, e))

Places(f, t, p) == f = [e \in Stars(p) |-> PlaceAt(f, t, p, e)]

\* There are such places.
LEMMA PlacesExist ==
  ASSUME NEW S, NEW p \in Seq(S), NEW t
  PROVE  \E f : Places(f, t, p)
<1>1. Len(p) \in Nat /\ Stars(p) \subseteq 1..Len(p)
  BY LenProperties DEF Stars
<1> DEFINE Upto(k) == {e \in Stars(p) : e <= k}
           Solves(f, k) == f = [e \in Upto(k) |-> PlaceAt(f, t, p, e)]
           Bad == {k \in Nat : ~ \E f : Solves(f, k)}
<1>2. \A e \in Stars(p) :
        Before(p, e) \in 0..(e - 1) /\ (Before(p, e) # 0 => Before(p, e) \in Stars(p))
  BY <1>1, PartFacts
<1>3. \E f : Solves(f, 0)
  <2>1. Upto(0) = {}
    BY <1>1
  <2>2. Solves([e \in {} |-> 0], 0)
    BY <2>1
  <2> HIDE DEF Solves
  <2> QED
    BY <2>2
<1>4. ASSUME NEW k \in Nat \ {0}, NEW f, Solves(f, k - 1)
      PROVE  \E g : Solves(g, k)
  <2> DEFINE g == [e \in Upto(k) |-> PlaceAt(f, t, p, e)]
  <2>1. ASSUME NEW e \in Upto(k - 1)  PROVE g[e] = f[e]
    <3>1. e \in Upto(k)
      BY <1>1
    <3>2. f[e] = PlaceAt(f, t, p, e)
      BY <1>4
    <3> QED
      BY <3>1, <3>2
  <2>2. ASSUME NEW e \in Upto(k)  PROVE PlaceAt(f, t, p, e) = PlaceAt(g, t, p, e)
    <3> DEFINE b == Before(p, e)
    <3>1. b # 0 => b \in Upto(k - 1)
      BY <1>1, <1>2, SMTT(30)
    <3>2. b # 0 => g[b] = f[b]
      BY <2>1, <3>1
    <3> HIDE DEF g
    <3> QED
      BY <3>2 DEF PlaceAt
  <2>3. Solves(g, k)
    BY <2>2
  <2> HIDE DEF Solves, g
  <2> QED
    BY <2>3
<1> HIDE DEF Solves
<1>5. Bad = {}
  <2> SUFFICES ASSUME Bad # {}  PROVE FALSE
    OBVIOUS
  <2>1. Bad \in SUBSET Nat
    OBVIOUS
  <2> DEFINE k == Min(Bad)
  <2>2. k \in Bad /\ \A y \in Bad : k <= y
    BY <2>1, SmallestPicked
  <2> HIDE DEF k
  <2>3. k \in Nat \ {0} /\ k - 1 \in Nat /\ ~(k <= k - 1)
    BY <1>3, <2>2
  <2> QED
    BY <1>4, <2>2, <2>3
<1>6. PICK f : Solves(f, Len(p))
  BY <1>1, <1>5
<1>7. Upto(Len(p)) = Stars(p)
  BY <1>1
<1> QED
  BY <1>6, <1>7 DEF Solves, Places

\* The place glob_match reaches is that of the last star.
LEMMA ReachedIs ==
  ASSUME NEW S, NEW p \in Seq(S), NEW t
  PROVE  \E f : Places(f, t, p) /\ Reached(t, p) = f[Max(Stars(p))]
<1> DEFINE f == CHOOSE g : Places(g, t, p)
<1>1. Places(f, t, p)
  BY PlacesExist
<1>2. Reached(t, p) = f[Max(Stars(p))]
  BY Zenon DEF Reached, Places, PlaceAt
<1> HIDE DEF f
<1> QED
  BY <1>1, <1>2

\* What lies behind a place: the nearest occurrence of the part, if there is one.
LEMMA BehindIs ==
  ASSUME NEW S, NEW t \in Seq(S), NEW part \in Seq(S), NEW pos \in Nat
  PROVE  LET at == Behind(t, pos, part)
             Is(j) == j + Len(part) <= Len(t) /\ Lies(part, t, j)
         IN  /\ at = Lost \/ at \in Nat
             /\ \A k \in 0..Len(t) :
                  (at # Lost /\ at <= k) <=>
                    \E j \in Nat : pos <= j /\ j + Len(part) <= k /\ Is(j)
<1> DEFINE l    == Len(part)
           Is(j) == j + l <= Len(t) /\ Lies(part, t, j)
           all  == {i \in pos..(Len(t) - l) : SubSeq(t, i + 1, i + l) = part}
           at   == Behind(t, pos, part)
           m    == Min(all)
<1>1. Len(t) \in Nat /\ l \in Nat
  BY LenProperties
<1>2. \A j \in Nat : j \in all <=> pos <= j /\ Is(j)
  <2> SUFFICES ASSUME NEW j \in Nat  PROVE j \in all <=> pos <= j /\ Is(j)
    OBVIOUS
  <2>1. j + l <= Len(t) => (SubSeq(t, j + 1, j + l) = part <=> Lies(part, t, j))
    <3> HIDE DEF Is, all, at, m
    <3> QED
      BY SliceIs
  <2>2. j \in pos..(Len(t) - l) <=> pos <= j /\ j + l <= Len(t)
    BY <1>1
  <2> QED
    BY <2>1, <2>2
<1>3. all \in SUBSET Nat
  BY <1>1
<1>4. at = IF all = {} THEN Lost ELSE m + l
  <2>1. pos # Lost
    BY DEF Lost
  <2> QED
    BY <2>1, Zenon DEF Behind
<1>5. all # {} => m \in all /\ \A j \in all : m <= j
  BY <1>3, SmallestPicked
<1> HIDE DEF m, all, at, l
<1>6. at = Lost \/ at \in Nat
  <2>1. m \in all => m \in Nat
    BY <1>3
  <2>2. m \in all => m + l \in Nat
    BY <1>1, <2>1
  <2> QED
    BY <1>4, <1>5, <2>2
<1>7. ASSUME NEW k \in 0..Len(t)
      PROVE  (at # Lost /\ at <= k) <=> \E j \in Nat : pos <= j /\ j + l <= k /\ Is(j)
  <2>1. CASE all = {}
    BY <1>2, <1>4, <2>1
  <2>2. CASE all # {}
    <3>4. m \in Nat /\ m \in all
      BY <1>3, <1>5, <2>2
    <3>5. at = m + l
      BY <1>4, <2>2
    <3>1. at = m + l /\ m \in Nat /\ m \in all /\ at # Lost
      BY <1>1, <3>4, <3>5 DEF Lost
    <3>2. ASSUME at <= k
          PROVE  \E j \in Nat : pos <= j /\ j + l <= k /\ Is(j)
      BY <1>2, <3>1, <3>2
    <3>3. ASSUME NEW j \in Nat, pos <= j, j + l <= k, Is(j)
          PROVE  at <= k
      <4>1. m <= j
        BY <1>2, <1>5, <2>2, <3>3
      <4> QED
        BY <1>1, <1>7, <3>1, <3>3, <4>1
    <3> QED
      BY <3>1, <3>2, <3>3
  <2> QED
    BY <2>1, <2>2
<1> QED
  BY <1>6, <1>7 DEF at, l

\* A star stands for whatever is left once the part before it has a place.
LEMMA StarFits ==
  ASSUME NEW S, NEW p \in Seq(S), NEW t \in Seq(S), NEW e \in Stars(p), NEW k \in 0..Len(t)
  PROVE  LET b    == Before(p, e)
             part == Part(p, e)
         IN  Fits(p, e, t, k) <=>
               \E i \in Nat : i + Len(part) <= k /\ Fits(p, b, t, i) /\ Lies(part, t, i)
<1> DEFINE b    == Before(p, e)
           part == Part(p, e)
           m    == Len(part)
<1>1. Len(t) \in Nat /\ Len(p) \in Nat /\ e \in 1..Len(p) /\ p[e] = Star
  BY LenProperties DEF Stars
<1>2. /\ b \in 0..(e - 1) /\ m = e - 1 - b
      /\ \A x \in 1..m : part[x] = p[b + x] /\ p[b + x] # Star
  BY <1>1, PartFacts
<1> HIDE DEF b, part, m
<1>3. b \in Nat /\ m \in Nat /\ e - 1 = b + m /\ e \in Nat \ {0} /\ Plain(p, b, m)
  BY <1>1, <1>2 DEF Plain
<1>4. Fits(p, e, t, k) <=> \E j \in 0..Len(t) : Fits(p, e - 1, t, j) /\ j <= k
  BY <1>1, <1>3, OneMoreCut
<1>5. \A j \in 0..Len(t) :
        Fits(p, e - 1, t, j) <=> j >= m /\ Fits(p, b, t, j - m) /\ Same(p, b, t, j - m, m)
  BY <1>3, PartFits
<1>6. ASSUME NEW j \in 0..Len(t), Fits(p, e - 1, t, j), j <= k
      PROVE  \E i \in Nat : i + m <= k /\ Fits(p, b, t, i) /\ Lies(part, t, i)
  <2> DEFINE i == j - m
  <2>1. i \in Nat /\ i + m <= k /\ Fits(p, b, t, i)
    BY <1>1, <1>3, <1>5, <1>6
  <2>2. Lies(part, t, i)
    BY <1>2, <1>5, <1>6 DEF Lies, Same, m
  <2> HIDE DEF i
  <2> QED
    BY <2>1, <2>2
<1>7. ASSUME NEW i \in Nat, i + m <= k, Fits(p, b, t, i), Lies(part, t, i)
      PROVE  Fits(p, e, t, k)
  <2> DEFINE j == i + m
  <2>1. j \in 0..Len(t) /\ j <= k /\ j >= m /\ j - m = i
    BY <1>1, <1>3, <1>7
  <2>2. Same(p, b, t, i, m)
    BY <1>2, <1>7 DEF Lies, Same, m
  <2> HIDE DEF j
  <2>3. Fits(p, e - 1, t, j)
    BY <1>5, <1>7, <2>1, <2>2
  <2> QED
    BY <1>4, <2>1, <2>3
<1> QED
  BY <1>4, <1>6, <1>7 DEF b, part, m

\* glob_match reaches the nearest place that the pattern up to a star can end at; the
\* star takes the rest, so no later place leaves more to what follows.
LEMMA PlaceFits ==
  ASSUME NEW S, NEW p \in Seq(S), NEW t \in Seq(S), NEW f, Places(f, t, p)
  PROVE  \A e \in Stars(p) :
           /\ f[e] = Lost \/ f[e] \in Nat
           /\ \A k \in 0..Len(t) :
                Fits(p, e, t, k) <=>
                  IsPrefix(Part(p, Min(Stars(p))), t) /\ f[e] # Lost /\ f[e] <= k
<1> DEFINE starts  == IsPrefix(Part(p, Min(Stars(p))), t)
           Good(e) == /\ f[e] = Lost \/ f[e] \in Nat
                      /\ \A k \in 0..Len(t) :
                           Fits(p, e, t, k) <=> starts /\ f[e] # Lost /\ f[e] <= k
           Bad == {e \in Stars(p) : ~Good(e)}
<1>1. Len(p) \in Nat /\ Len(t) \in Nat /\ Stars(p) \subseteq 1..Len(p)
  BY LenProperties DEF Stars
<1>2. ASSUME NEW e \in Stars(p), \A d \in Stars(p) : d < e => Good(d)
      PROVE  Good(e)
  <2> DEFINE b    == Before(p, e)
             part == Part(p, e)
             m    == Len(part)
  <2>1. /\ b \in 0..(e - 1) /\ (b # 0 => b \in Stars(p))
        /\ \A i \in Stars(p) : i < e => i <= b
        /\ part \in Seq(S) /\ m = e - 1 - b /\ m \in Nat /\ e \in Nat
    <3>1. e \in 1..(Len(p) + 1) /\ e \in Nat
      BY <1>1
    <3>2. /\ b \in 0..(e - 1) /\ (b # 0 => b \in Stars(p))
          /\ \A i \in Stars(p) : i < e => i <= b
          /\ part \in Seq(S) /\ m = e - 1 - b
      <4> HIDE DEF Good, Bad, starts
      <4> QED
        BY <3>1, PartFacts
    <3>3. m \in Nat
      BY <3>2, LenProperties
    <3> QED
      BY <3>1, <3>2, <3>3
  <2>2. f[e] = IF b = 0 THEN m ELSE Behind(t, f[b], part)
    BY DEF Places, PlaceAt
  <2>3. \A k \in 0..Len(t) :
          Fits(p, e, t, k) <=> \E i \in Nat : i + m <= k /\ Fits(p, b, t, i) /\ Lies(part, t, i)
    <3> HIDE DEF Good, Bad, starts
    <3> QED
      BY StarFits
  <2>4. CASE b = 0
    <3>1. Min(Stars(p)) = e
      <4>1. \A i \in Stars(p) : e <= i
        BY <1>1, <2>1, <2>4
      <4>2. Min(Stars(p)) \in Stars(p) /\ Min(Stars(p)) <= e
        BY <1>1, SmallestPicked
      <4> QED
        BY <1>1, <4>1, <4>2
    <3>2. starts <=> m <= Len(t) /\ Lies(part, t, 0)
      <4>1. IsPrefix(part, t) <=> m <= Len(t) /\ Lies(part, t, 0)
        BY <2>1, PrefixIs
      <4> QED
        BY <3>1, <4>1
    <3>3. f[e] = m
      BY <2>2, <2>4
    <3> HIDE DEF starts, b, part, m
    <3>4. \A i \in 0..Len(t) : Fits(p, 0, t, i) <=> i = 0
      BY NothingFits
    <3>5. \A k \in 0..Len(t) : Fits(p, e, t, k) <=> m <= k /\ Lies(part, t, 0)
      <4> SUFFICES ASSUME NEW k \in 0..Len(t)  PROVE Fits(p, e, t, k) <=> m <= k /\ Lies(part, t, 0)
        OBVIOUS
      <4>1. \A i \in Nat : i + m <= k => i \in 0..Len(t)
        BY <1>1, <2>1
      <4>2. 0 + m = m /\ 0 \in Nat /\ 0 \in 0..Len(t)
        BY <1>1, <2>1
      <4> QED
        BY <2>3, <2>4, <3>4, <4>1, <4>2
    <3>6. m # Lost
      BY <2>1 DEF Lost
    <3>7. \A k \in 0..Len(t) : m <= k => m <= Len(t)
      BY <1>1, <2>1
    <3> QED
      BY <2>1, <3>2, <3>3, <3>5, <3>6, <3>7
  <2>5. CASE b # 0
    <3>1. Good(b)
      BY <1>2, <2>1, <2>5
    <3>2. f[e] = Behind(t, f[b], part)
      BY <2>2, <2>5
    <3>3. CASE f[b] = Lost
      <4>1. f[e] = Lost
        BY <3>2, <3>3 DEF Behind
      <4>2. \A i \in 0..Len(t) : ~Fits(p, b, t, i)
        BY <3>1, <3>3
      <4>3. \A k \in 0..Len(t), i \in Nat : i + m <= k => i \in 0..Len(t)
        BY <1>1, <2>1
      <4> HIDE DEF b, part, m, starts
      <4> QED
        BY <2>3, <4>1, <4>2, <4>3
    <3>4. CASE f[b] \in Nat
      <4>1. f[b] # Lost
        BY <3>4 DEF Lost
      <4>2. /\ f[e] = Lost \/ f[e] \in Nat
            /\ \A k \in 0..Len(t) :
                 (f[e] # Lost /\ f[e] <= k) <=>
                   \E j \in Nat : f[b] <= j /\ j + m <= k /\ j + m <= Len(t) /\ Lies(part, t, j)
        <5> DEFINE pos == f[b]
        <5> HIDE DEF Good, Bad, starts, b, pos
        <5>1. pos \in Nat
          BY <3>4 DEF pos
        <5> HIDE DEF part
        <5>2. LET at == Behind(t, pos, part)
              IN  /\ at = Lost \/ at \in Nat
                  /\ \A k \in 0..Len(t) :
                       (at # Lost /\ at <= k) <=>
                         \E j \in Nat : pos <= j /\ j + m <= k /\ j + m <= Len(t) /\ Lies(part, t, j)
          BY <2>1, <5>1, BehindIs
        <5> QED
          BY <3>2, <5>2 DEF pos
      <4>3. \A k \in 0..Len(t), i \in Nat :
              i + m <= k => i \in 0..Len(t) /\ i + m <= Len(t)
        BY <1>1, <2>1
      <4>4. \A i \in 0..Len(t) : Fits(p, b, t, i) <=> starts /\ f[b] <= i
        BY <3>1, <4>1
      <4> HIDE DEF b, part, m, starts
      <4> QED
        BY <2>3, <4>2, <4>3, <4>4
    <3> QED
      BY <3>1, <3>3, <3>4
  <2> QED
    BY <2>4, <2>5
<1> HIDE DEF Good
<1>3. Bad = {}
  <2> SUFFICES ASSUME Bad # {}  PROVE FALSE
    OBVIOUS
  <2>1. Bad \in SUBSET Nat
    BY <1>1
  <2> DEFINE e == Min(Bad)
  <2>2. e \in Bad /\ \A y \in Bad : e <= y
    BY <2>1, SmallestPicked
  <2> HIDE DEF e
  <2>3. \A d \in Stars(p) : d < e => Good(d)
    BY <1>1, <2>1, <2>2
  <2> QED
    BY <1>2, <2>2, <2>3
<1> QED
  BY <1>3 DEF Good

\* glob_match finds out whether the whole pattern stands for the whole text.
LEMMA MatchesIs ==
  ASSUME NEW S, NEW p \in Seq(S), NEW t \in Seq(S)
  PROVE  Matches(t, p) <=> Fits(p, Len(p), t, Len(t))
<1> DEFINE end  == Len(p) + 1
           b    == Before(p, end)
           last == Part(p, end)
           m    == Len(last)
           n    == Len(t)
<1>1. n \in Nat /\ Len(p) \in Nat /\ end \in 1..(Len(p) + 1) /\ Stars(p) \subseteq 1..Len(p)
  BY LenProperties DEF Stars
<1>2. /\ b \in 0..(end - 1) /\ (b # 0 => b \in Stars(p))
      /\ \A i \in Stars(p) : i < end => i <= b
      /\ last \in Seq(S) /\ m = end - 1 - b
      /\ \A x \in 1..m : last[x] = p[b + x] /\ p[b + x] # Star
  BY <1>1, PartFacts
<1>3. b \in Nat /\ m \in Nat /\ Len(p) = b + m /\ Plain(p, b, m) /\ n \in 0..n
  BY <1>1, <1>2 DEF Plain
<1>4. \A i \in Nat : Same(p, b, t, i, m) <=> Lies(last, t, i)
  BY <1>2 DEF Same, Lies
<1>5. Fits(p, Len(p), t, n) <=> n >= m /\ Fits(p, b, t, n - m) /\ Same(p, b, t, n - m, m)
  <2> HIDE DEF b, m, n
  <2>1. n \in 0..Len(t)
    BY <1>3 DEF n
  <2> QED
    BY <1>3, <2>1, PartFits
<1>6. n >= m => n - m \in Nat /\ n - m \in 0..n
  BY <1>1, <1>3
<1>7. CASE Stars(p) = {}
  <2>1. b = 0 /\ m = Len(p)
    BY <1>2, <1>3, <1>7
  <2>2. n >= m => (Fits(p, 0, t, n - m) <=> n - m = 0)
    BY <1>6, NothingFits
  <2>3. Fits(p, Len(p), t, n) <=> n = m /\ Same(p, 0, t, 0, m)
    BY <1>1, <1>3, <1>5, <2>1, <2>2
  <2>4. Same(p, 0, t, 0, m) <=> \A x \in 1..m : t[x] = p[x]
    <3>1. \A x \in 1..m : 0 + x = x
      BY <1>3
    <3> QED
      BY <3>1 DEF Same
  <2>5. t = p <=> Len(t) = Len(p) /\ \A x \in 1..Len(p) : t[x] = p[x]
    BY SeqEqual
  <2>6. Matches(t, p) <=> t = p
    BY <1>7 DEF Matches
  <2> QED
    BY <2>1, <2>3, <2>4, <2>5, <2>6
<1>8. CASE Stars(p) # {}
  <2>1. b \in Stars(p) /\ b = Max(Stars(p))
    <3>1. \A i \in Stars(p) : i <= b /\ i \in Nat /\ i # 0
      BY <1>1, <1>2
    <3>2. b \in Stars(p)
      BY <1>2, <1>3, <1>8, <3>1
    <3>3. Stars(p) \in SUBSET (0..Len(p))
      BY <1>1
    <3>4. Max(Stars(p)) \in Stars(p) /\ \A y \in Stars(p) : y <= Max(Stars(p))
      BY <1>1, <1>8, <3>3, LargestPicked
    <3>5. Max(Stars(p)) <= b /\ b <= Max(Stars(p)) /\ Max(Stars(p)) \in Nat
      BY <3>1, <3>2, <3>4
    <3> QED
      BY <1>3, <3>2, <3>5
  <2>2. PICK f : Places(f, t, p) /\ Reached(t, p) = f[Max(Stars(p))]
    BY ReachedIs
  <2> DEFINE starts == IsPrefix(Part(p, Min(Stars(p))), t)
             pos    == Reached(t, p)
  <2>3. /\ pos = Lost \/ pos \in Nat
        /\ \A k \in 0..n : Fits(p, b, t, k) <=> starts /\ pos # Lost /\ pos <= k
    BY <2>1, <2>2, PlaceFits
  <2>4. IsSuffix(last, t) <=> m <= n /\ Lies(last, t, n - m)
    BY <1>2, SuffixIs
  <2>5. Matches(t, p) <=> starts /\ pos # Lost /\ n >= pos + m /\ IsSuffix(last, t)
    BY <1>8 DEF Matches
  <2> HIDE DEF starts, pos, b, last, m, n
  <2>6. ASSUME n >= m  PROVE Fits(p, b, t, n - m) <=> starts /\ pos # Lost /\ pos <= n - m
    BY <1>6, <2>3, <2>6
  <2>7. pos \in Nat => (n >= pos + m <=> n >= m /\ pos <= n - m)
    BY <1>1, <1>3
  <2>8. n >= m <=> m <= n
    BY <1>1, <1>3
  <2>9. n >= m => (Same(p, b, t, n - m, m) <=> Lies(last, t, n - m))
    BY <1>4, <1>6
  <2> QED
    BY <1>5, <2>3, <2>4, <2>5, <2>6, <2>7, <2>8, <2>9 DEF n
<1> QED
  BY <1>7, <1>8

----------------------------------------------------------------------------
(* What a pattern means. *)

\* The recursion behind FlattenSeq.
Flattens(f, seqs, k) ==
  f = [i \in 1..k |-> IF i = 1 THEN seqs[i] ELSE f[i - 1] \o seqs[i]]

LEMMA FlattenExists ==
  ASSUME NEW seqs, NEW n \in Nat
  PROVE  \E f : Flattens(f, seqs, n)
<1> DEFINE Bad == {k \in Nat : ~ \E f : Flattens(f, seqs, k)}
<1>1. \E f : Flattens(f, seqs, 0)
  <2>1. 1..0 = {}
    OBVIOUS
  <2>2. Flattens([i \in {} |-> 0], seqs, 0)
    BY <2>1 DEF Flattens
  <2> QED
    BY <2>2
<1>2. ASSUME NEW k \in Nat \ {0}, NEW f, Flattens(f, seqs, k - 1)
      PROVE  \E g : Flattens(g, seqs, k)
  <2> DEFINE g == [i \in 1..k |-> IF i = 1 THEN seqs[i] ELSE f[i - 1] \o seqs[i]]
  <2>1. ASSUME NEW i \in 1..(k - 1)  PROVE g[i] = f[i]
    <3>1. i \in 1..k
      OBVIOUS
    <3>2. f[i] = IF i = 1 THEN seqs[i] ELSE f[i - 1] \o seqs[i]
      BY <1>2 DEF Flattens
    <3> QED
      BY <3>1, <3>2
  <2>2. ASSUME NEW i \in 1..k, i # 1  PROVE g[i - 1] = f[i - 1]
    <3>1. i - 1 \in 1..(k - 1)
      BY <2>2
    <3> HIDE DEF g
    <3> QED
      BY <2>1, <3>1
  <2>3. ASSUME NEW i \in 1..k
        PROVE  g[i] = IF i = 1 THEN seqs[i] ELSE g[i - 1] \o seqs[i]
    <3>1. g[i] = IF i = 1 THEN seqs[i] ELSE f[i - 1] \o seqs[i]
      OBVIOUS
    <3> HIDE DEF g
    <3> QED
      BY <2>2, <3>1
  <2>4. g = [i \in 1..k |-> g[i]]
    OBVIOUS
  <2> HIDE DEF g
  <2>5. Flattens(g, seqs, k)
    BY <2>3, <2>4 DEF Flattens
  <2> QED
    BY <2>5
<1> SUFFICES ASSUME Bad # {}  PROVE FALSE
  OBVIOUS
<1>3. Bad \in SUBSET Nat
  OBVIOUS
<1> DEFINE k == Min(Bad)
<1>4. k \in Bad /\ \A y \in Bad : k <= y
  BY <1>3, SmallestPicked
<1> HIDE DEF k
<1>5. k \in Nat \ {0} /\ k - 1 \in Nat /\ ~(k <= k - 1)
  BY <1>1, <1>4
<1> QED
  BY <1>2, <1>4, <1>5

\* acc puts the first n of some sequences one behind the other.
Accumulates(acc, seqs, n) ==
  acc[0] = <<>> /\ \A i \in 1..n : acc[i] = acc[i - 1] \o seqs[i]

\* So does FlattenSeq.
LEMMA FlattenSteps ==
  ASSUME NEW S, NEW n \in Nat, NEW seqs \in [1..n -> Seq(S)], Len(seqs) = n
  PROVE  \E acc \in [0..n -> Seq(S)] :
           Accumulates(acc, seqs, n) /\ (n # 0 => FlattenSeq(seqs) = acc[n])
<1> DEFINE f   == CHOOSE g : Flattens(g, seqs, n)
           acc == [i \in 0..n |-> IF i = 0 THEN <<>> ELSE f[i]]
<1>1. Flattens(f, seqs, n)
  BY FlattenExists
<1>2. n # 0 => FlattenSeq(seqs) = f[n]
  BY Zenon DEF FlattenSeq, Flattens
<1> HIDE DEF f
<1>3. <<>> \in Seq(S) /\ \A s \in Seq(S) : <<>> \o s = s
  BY EmptySeq, ConcatEmptySeq
<1>4. acc[0] = <<>>
  OBVIOUS
<1>5. ASSUME NEW i \in 1..n  PROVE acc[i] = acc[i - 1] \o seqs[i]
  <2>1. acc[i] = f[i] /\ i - 1 \in 0..n
    OBVIOUS
  <2>2. f[i] = IF i = 1 THEN seqs[i] ELSE f[i - 1] \o seqs[i]
    BY <1>1 DEF Flattens
  <2>3. CASE i = 1
    <3>1. seqs[i] \in Seq(S) /\ acc[i - 1] = <<>>
      BY <2>3
    <3> HIDE DEF acc
    <3> QED
      BY <1>3, <2>1, <2>2, <2>3, <3>1
  <2>4. CASE i # 1
    <3>1. acc[i - 1] = f[i - 1]
      BY <2>4
    <3> HIDE DEF acc
    <3> QED
      BY <2>1, <2>2, <2>4, <3>1
  <2> QED
    BY <2>3, <2>4
<1>6. n # 0 => FlattenSeq(seqs) = acc[n]
  BY <1>2
<1>7. acc = [i \in 0..n |-> acc[i]]
  OBVIOUS
<1> HIDE DEF acc
<1> DEFINE Bad == {i \in 0..n : acc[i] \notin Seq(S)}
<1>8. Bad = {}
  <2> SUFFICES ASSUME Bad # {}  PROVE FALSE
    OBVIOUS
  <2>1. Bad \in SUBSET Nat
    OBVIOUS
  <2> DEFINE k == Min(Bad)
  <2>2. k \in Bad /\ \A y \in Bad : k <= y
    BY <2>1, SmallestPicked
  <2> HIDE DEF k
  <2>6. acc[0] \in Seq(S)
    BY <1>3, <1>4
  <2>7. k \in 0..n /\ k # 0
    BY <2>2, <2>6
  <2>3. k \in 1..n /\ k - 1 \in 0..n /\ ~(k <= k - 1)
    BY <2>7
  <2>4. acc[k - 1] \in Seq(S) /\ seqs[k] \in Seq(S)
    BY <2>2, <2>3
  <2>5. acc[k] \in Seq(S)
    BY <1>5, <2>3, <2>4, ConcatProperties
  <2> QED
    BY <2>2, <2>5
<1>9. acc \in [0..n -> Seq(S)]
  BY <1>7, <1>8
<1>10. Accumulates(acc, seqs, n)
  BY <1>4, <1>5 DEF Accumulates
<1> QED
  BY <1>6, <1>9, <1>10

Begins(u, v) == Len(u) <= Len(v) /\ \A x \in 1..Len(u) : v[x] = u[x]

\* A sequence is what a concatenation with it begins with.
LEMMA ConcatBegins ==
  ASSUME NEW S, NEW u \in Seq(S), NEW v \in Seq(S)
  PROVE  /\ u \o v \in Seq(S) /\ Len(u \o v) = Len(u) + Len(v) /\ Begins(u, u \o v)
         /\ \A x \in 1..Len(v) : (u \o v)[Len(u) + x] = v[x]
<1>1. Len(u) \in Nat /\ Len(v) \in Nat
  BY LenProperties
<1> DEFINE w == u \o v
<1>2. /\ w \in Seq(S) /\ Len(w) = Len(u) + Len(v)
      /\ \A i \in 1..(Len(u) + Len(v)) : w[i] = IF i <= Len(u) THEN u[i] ELSE v[i - Len(u)]
  BY ConcatProperties
<1> HIDE DEF w
<1>3. Begins(u, w)
  BY <1>1, <1>2 DEF Begins
<1>4. ASSUME NEW x \in 1..Len(v)  PROVE w[Len(u) + x] = v[x]
  <2>1. Len(u) + x \in 1..(Len(u) + Len(v)) /\ ~(Len(u) + x <= Len(u)) /\ Len(u) + x - Len(u) = x
    BY <1>1
  <2> QED
    BY <1>2, <2>1
<1> QED
  BY <1>2, <1>3, <1>4 DEF w

\* Beginning with is transitive.
LEMMA BeginsFurther ==
  ASSUME NEW S, NEW u \in Seq(S), NEW v \in Seq(S), NEW w \in Seq(S), Begins(u, v), Begins(v, w)
  PROVE  Begins(u, w)
<1>1. Len(u) \in Nat /\ Len(v) \in Nat /\ Len(w) \in Nat /\ Len(u) <= Len(v) /\ Len(v) <= Len(w)
  BY LenProperties DEF Begins
<1>2. \A x \in 1..Len(u) : x \in 1..Len(v)
  BY <1>1
<1> QED
  BY <1>1, <1>2 DEF Begins

\* What an accumulation begins with it keeps.
LEMMA FlattenKeeps ==
  ASSUME NEW S, NEW n \in Nat, NEW seqs \in [1..n -> Seq(S)], NEW acc \in [0..n -> Seq(S)],
         Accumulates(acc, seqs, n)
  PROVE  \A j \in 0..n : \A i \in 0..j : Begins(acc[i], acc[j])
<1> DEFINE Good(j) == \A i \in 0..j : Begins(acc[i], acc[j])
           Bad == {j \in 0..n : ~Good(j)}
<1>1. \A i \in 0..n : Begins(acc[i], acc[i])
  BY LenProperties DEF Begins
<1>2. Good(0)
  BY <1>1
<1>3. ASSUME NEW j \in 1..n, Good(j - 1)  PROVE Good(j)
  <2>1. j - 1 \in 0..n /\ j \in 0..n
    OBVIOUS
  <2>2. acc[j] = acc[j - 1] \o seqs[j] /\ acc[j - 1] \in Seq(S) /\ seqs[j] \in Seq(S)
    BY <2>1 DEF Accumulates
  <2>3. Begins(acc[j - 1], acc[j]) /\ acc[j] \in Seq(S)
    BY <2>2, ConcatBegins
  <2>4. ASSUME NEW i \in 0..j, i # j  PROVE Begins(acc[i], acc[j])
    <3>1. i \in 0..(j - 1) /\ i \in 0..n
      BY <2>4
    <3>2. Begins(acc[i], acc[j - 1]) /\ acc[i] \in Seq(S)
      BY <1>3, <3>1
    <3> QED
      BY <2>2, <2>3, <3>2, BeginsFurther
  <2> QED
    BY <1>1, <2>1, <2>4
<1> HIDE DEF Good
<1>4. Bad = {}
  <2> SUFFICES ASSUME Bad # {}  PROVE FALSE
    OBVIOUS
  <2>1. Bad \in SUBSET Nat
    OBVIOUS
  <2> DEFINE j == Min(Bad)
  <2>2. j \in Bad /\ \A y \in Bad : j <= y
    BY <2>1, SmallestPicked
  <2> HIDE DEF j
  <2>3. j \in 1..n /\ j - 1 \in 0..n /\ ~(j <= j - 1)
    BY <1>2, <2>2
  <2> QED
    BY <1>3, <2>2, <2>3
<1> QED
  BY <1>4 DEF Good

\* The pieces of a text that the letters of a pattern stand for.
Pieces(p, fill) == [i \in DOMAIN p |-> IF p[i] = Star THEN fill[i] ELSE <<p[i]>>]
Fillings(t)     == {SubSeq(t, i, j) : i \in 1..(Len(t) + 1), j \in 0..Len(t)}

\* Covers says that some fillings of the stars make the text.
LEMMA CoversIs ==
  ASSUME NEW p, NEW t
  PROVE  Covers(p, t) <=> \E fill \in [Stars(p) -> Fillings(t)] : t = FlattenSeq(Pieces(p, fill))
  BY DEF Covers, Pieces, Fillings

\* What is put in the place of a star is a sequence, and so is every piece.
LEMMA FillingsFacts ==
  ASSUME NEW S, NEW p \in Seq(S), NEW t \in Seq(S), NEW fill \in [Stars(p) -> Fillings(t)]
  PROVE  /\ Pieces(p, fill) \in [1..Len(p) -> Seq(S)] /\ Len(Pieces(p, fill)) = Len(p)
         /\ \A i \in 1..Len(p) :
              Pieces(p, fill)[i] = IF p[i] = Star THEN fill[i] ELSE <<p[i]>>
<1>1. /\ Len(p) \in Nat /\ DOMAIN p = 1..Len(p) /\ p \in [1..Len(p) -> S]
      /\ Len(t) \in Nat /\ t \in [1..Len(t) -> S]
  BY LenProperties
<1>2. ASSUME NEW i \in Stars(p)  PROVE fill[i] \in Seq(S)
  <2>1. PICK x \in 1..(Len(t) + 1), y \in 0..Len(t) : fill[i] = SubSeq(t, x, y)
    BY DEF Fillings
  <2>2. x \in Int /\ y \in Int /\ \A z \in x..y : t[z] \in S
    BY <1>1
  <2>3. SubSeq(t, x, y) \in Seq(S)
    BY <2>2, SubSeqProperties
  <2> QED
    BY <2>1, <2>3
<1>3. \A i \in 1..Len(p) : <<p[i]>> \in Seq(S)
  BY <1>1
<1>4. \A i \in 1..Len(p) : (IF p[i] = Star THEN fill[i] ELSE <<p[i]>>) \in Seq(S)
  BY <1>1, <1>2, <1>3 DEF Stars
<1>5. Pieces(p, fill) \in [1..Len(p) -> Seq(S)]
  BY <1>1, <1>4 DEF Pieces
<1>6. Len(Pieces(p, fill)) = Len(p)
  BY <1>1, <1>5
<1> QED
  BY <1>1, <1>5, <1>6 DEF Pieces

\* A text that is put together from a pattern can be cut where its pieces end, ...
LEMMA CoveredFits ==
  ASSUME NEW S, NEW p \in Seq(S), NEW t \in Seq(S), Covers(p, t)
  PROVE  Fits(p, Len(p), t, Len(t))
<1> DEFINE n == Len(p)
<1>1. n \in Nat /\ Len(t) \in Nat /\ DOMAIN p = 1..n /\ p \in [1..n -> S]
  BY LenProperties
<1>2. PICK fill \in [Stars(p) -> Fillings(t)] : t = FlattenSeq(Pieces(p, fill))
  BY CoversIs
<1> DEFINE seqs == Pieces(p, fill)
<1>3. /\ seqs \in [1..n -> Seq(S)] /\ Len(seqs) = n
      /\ \A i \in 1..n : seqs[i] = IF p[i] = Star THEN fill[i] ELSE <<p[i]>>
  BY FillingsFacts
<1> HIDE DEF seqs, n
<1>4. PICK acc \in [0..n -> Seq(S)] :
        Accumulates(acc, seqs, n) /\ (n # 0 => FlattenSeq(seqs) = acc[n])
  BY <1>1, <1>3, FlattenSteps
<1>5. t = acc[n]
  <2>1. CASE n = 0
    <3>1. seqs = <<>> /\ FlattenSeq(seqs) = seqs
      BY <1>3, <2>1 DEF FlattenSeq
    <3> QED
      BY <1>2, <1>4, <2>1, <3>1 DEF seqs, Accumulates
  <2>2. CASE n # 0
    BY <1>2, <1>4, <2>2 DEF seqs
  <2> QED
    BY <2>1, <2>2
<1>6. \A i \in 0..n : Len(acc[i]) \in Nat /\ Begins(acc[i], t)
  <2>3. \A j \in 0..n : \A i \in 0..j : Begins(acc[i], acc[j])
    BY <1>1, <1>3, <1>4, FlattenKeeps
  <2>1. \A i \in 0..n : Begins(acc[i], acc[n])
    <3>1. n \in 0..n
      BY <1>1
    <3> QED
      BY <2>3, <3>1
  <2>2. \A i \in 0..n : acc[i] \in Seq(S)
    BY <1>4
  <2> QED
    BY <1>5, <2>1, <2>2, LenProperties
<1> DEFINE cut == [i \in 0..n |-> Len(acc[i])]
<1>7. cut \in [0..n -> 0..Len(t)] /\ cut[0] = 0 /\ cut[n] = Len(t)
  <2>1. \A i \in 0..n : Len(acc[i]) \in 0..Len(t)
    BY <1>1, <1>6 DEF Begins
  <2> QED
    BY <1>1, <1>4, <1>5, <2>1, EmptySeq DEF Accumulates
<1>8. ASSUME NEW j \in 1..n
      PROVE  IF p[j] = Star THEN cut[j - 1] <= cut[j]
             ELSE cut[j] = cut[j - 1] + 1 /\ t[cut[j]] = p[j]
  <2> DEFINE u == acc[j - 1]
             v == seqs[j]
  <2>1. j \in 0..n /\ j - 1 \in 0..n /\ cut[j] = Len(acc[j]) /\ cut[j - 1] = Len(u)
    BY <1>1
  <2> HIDE DEF cut
  <2>2. acc[j] = u \o v /\ u \in Seq(S) /\ v \in Seq(S)
    BY <1>3, <1>4, <2>1 DEF Accumulates
  <2>3. v = IF p[j] = Star THEN fill[j] ELSE <<p[j]>>
    BY <1>3
  <2> HIDE DEF u, v
  <2>4. /\ Len(acc[j]) = Len(u) + Len(v) /\ Len(u) \in Nat /\ Len(v) \in Nat
        /\ \A x \in 1..Len(v) : acc[j][Len(u) + x] = v[x]
    BY <2>2, ConcatBegins, LenProperties
  <2>5. CASE p[j] = Star
    BY <2>1, <2>4, <2>5
  <2>6. CASE p[j] # Star
    <3>1. Len(v) = 1 /\ v[1] = p[j]
      BY <2>3, <2>6
    <3>2. cut[j] = Len(u) + 1 /\ acc[j][cut[j]] = p[j] /\ cut[j] \in 1..Len(acc[j])
      BY <2>1, <2>4, <3>1
    <3>3. t[cut[j]] = acc[j][cut[j]]
      BY <1>6, <2>1, <3>2 DEF Begins
    <3> QED
      BY <2>1, <2>6, <3>2, <3>3
  <2> QED
    BY <2>5, <2>6
<1> HIDE DEF cut
<1>9. Cuts(cut, p, n, t, Len(t))
  BY <1>7, <1>8 DEF Cuts
<1> QED
  BY <1>9 DEF Fits, n

\* ... and one that can be cut is put together from its pieces.
LEMMA FittingCovered ==
  ASSUME NEW S, NEW p \in Seq(S), NEW t \in Seq(S), Fits(p, Len(p), t, Len(t))
  PROVE  Covers(p, t)
<1> DEFINE n == Len(p)
<1>1. /\ n \in Nat /\ Len(t) \in Nat /\ DOMAIN p = 1..n /\ p \in [1..n -> S]
      /\ t \in [1..Len(t) -> S]
  BY LenProperties
<1>2. PICK cut : Cuts(cut, p, n, t, Len(t))
  BY DEF Fits
<1> DEFINE fill == [i \in Stars(p) |-> SubSeq(t, cut[i - 1] + 1, cut[i])]
           seqs == Pieces(p, fill)
<1> HIDE DEF n
<1>3. \A i \in 0..n : cut[i] \in 0..Len(t)
  BY <1>2 DEF Cuts
<1>4. fill \in [Stars(p) -> Fillings(t)]
  <2>1. ASSUME NEW i \in Stars(p)
        PROVE  SubSeq(t, cut[i - 1] + 1, cut[i]) \in Fillings(t)
    <3>1. i \in 0..n /\ i - 1 \in 0..n
      BY <1>1 DEF Stars
    <3>2. cut[i - 1] + 1 \in 1..(Len(t) + 1) /\ cut[i] \in 0..Len(t)
      BY <1>1, <1>3, <3>1
    <3> DEFINE x == cut[i - 1] + 1
               y == cut[i]
    <3>4. x \in 1..(Len(t) + 1) /\ y \in 0..Len(t)
      BY <3>2
    <3> HIDE DEF x, y
    <3>3. SubSeq(t, x, y) \in Fillings(t)
      BY <3>4 DEF Fillings
    <3> QED
      BY <3>3 DEF x, y
  <2> QED
    BY <2>1
<1>5. /\ seqs \in [1..n -> Seq(S)] /\ Len(seqs) = n
      /\ \A i \in 1..n : seqs[i] = IF p[i] = Star THEN fill[i] ELSE <<p[i]>>
  <2> HIDE DEF fill
  <2> QED
    BY <1>4, FillingsFacts DEF n
<1>6. ASSUME NEW i \in 1..n
      PROVE  cut[i - 1] <= cut[i] /\ seqs[i] = SubSeq(t, cut[i - 1] + 1, cut[i])
  <2>1. cut[i - 1] \in 0..Len(t) /\ cut[i] \in 0..Len(t)
    BY <1>1, <1>3
  <2>2. CASE p[i] = Star
    <3>1. i \in Stars(p)
      BY <1>1, <2>2 DEF Stars
    <3>2. fill[i] = SubSeq(t, cut[i - 1] + 1, cut[i])
      BY <3>1
    <3> HIDE DEF fill, seqs
    <3> QED
      BY <1>2, <1>5, <2>2, <3>2 DEF Cuts
  <2>3. CASE p[i] # Star
    <3> HIDE DEF fill, seqs
    <3> DEFINE a == cut[i - 1] + 1
               u == SubSeq(t, a, a)
    <3>1. cut[i] = a /\ t[a] = p[i] /\ seqs[i] = <<p[i]>> /\ a \in 1..Len(t)
      BY <1>1, <1>2, <1>5, <2>1, <2>3 DEF Cuts
    <3>2. a \in Int /\ t[a] \in S /\ \A z \in a..a : z = a
      BY <1>1, <3>1
    <3> HIDE DEF a
    <3>3. a + Len(<<t[a]>>) - 1 = a /\ Len(<<t[a]>>) = 1 /\ <<t[a]>> \in Seq(S)
      BY <3>2
    <3>4. a - 1 \in Nat /\ a - 1 + 1 = a /\ a - 1 + Len(<<t[a]>>) = a /\ a <= Len(t)
      BY <3>1, <3>2, <3>3
    <3>5. Lies(<<t[a]>>, t, a - 1)
      BY <3>3, <3>4 DEF Lies
    <3>6. u = <<t[a]>>
      <4> DEFINE c == a - 1
                 w == <<t[a]>>
      <4>1. c \in Nat /\ c + Len(w) <= Len(t) /\ w \in Seq(S) /\ Lies(w, t, c)
        BY <3>3, <3>4, <3>5
      <4>2. c + 1 = a /\ c + Len(w) = a
        BY <3>4
      <4> HIDE DEF c, w
      <4>3. SubSeq(t, c + 1, c + Len(w)) = w
        BY <4>1, SliceIs
      <4> QED
        BY <4>2, <4>3 DEF w
    <3>7. cut[i - 1] <= cut[i] /\ cut[i] = cut[i - 1] + 1
      BY <2>1, <3>1 DEF a
    <3> QED
      BY <3>1, <3>6, <3>7 DEF u, a
  <2> QED
    BY <2>2, <2>3
<1> HIDE DEF fill, seqs
<1>7. PICK acc \in [0..n -> Seq(S)] :
        Accumulates(acc, seqs, n) /\ (n # 0 => FlattenSeq(seqs) = acc[n])
  BY <1>1, <1>5, FlattenSteps
<1> DEFINE Good(i) == acc[i] = SubSeq(t, 1, cut[i])
           Bad     == {i \in 0..n : ~Good(i)}
<1>8. Good(0)
  <2>1. cut[0] = 0 /\ SubSeq(t, 1, 0) = <<>>
    BY <1>2, SubSeqEmpty DEF Cuts
  <2> QED
    BY <1>7, <2>1 DEF Accumulates
<1>9. ASSUME NEW i \in 1..n, Good(i - 1)  PROVE Good(i)
  <2> DEFINE a == cut[i - 1]
             c == cut[i]
  <2>1. a \in 0..Len(t) /\ c \in 0..Len(t) /\ a <= c
    BY <1>1, <1>3, <1>6
  <2>2. acc[i] = SubSeq(t, 1, a) \o SubSeq(t, a + 1, c)
    BY <1>6, <1>7, <1>9 DEF Accumulates
  <2> HIDE DEF a, c
  <2>3. 1 \in 1..(Len(t) + 1) /\ a \in (1 - 1)..Len(t) /\ c \in a..Len(t)
    BY <1>1, <2>1
  <2>4. SubSeq(t, 1, a) \o SubSeq(t, a + 1, c) = SubSeq(t, 1, c)
    BY <2>3, ConcatAdjacentSubSeq
  <2> QED
    BY <2>2, <2>4 DEF c
<1> HIDE DEF Good
<1>10. Bad = {}
  <2> SUFFICES ASSUME Bad # {}  PROVE FALSE
    OBVIOUS
  <2>1. Bad \in SUBSET Nat
    OBVIOUS
  <2> DEFINE j == Min(Bad)
  <2>2. j \in Bad /\ \A y \in Bad : j <= y
    BY <2>1, SmallestPicked
  <2> HIDE DEF j
  <2>3. j \in 1..n /\ j - 1 \in 0..n /\ ~(j <= j - 1)
    BY <1>1, <1>8, <2>2
  <2> QED
    BY <1>9, <2>2, <2>3
<1>11. acc[n] = t
  <2>1. cut[n] = Len(t) /\ n \in 0..n
    BY <1>1, <1>2 DEF Cuts
  <2> QED
    BY <1>10, <2>1, SubSeqFull DEF Good
<1>12. t = FlattenSeq(seqs)
  <2>1. CASE n = 0
    <3>1. seqs = <<>> /\ FlattenSeq(seqs) = seqs
      BY <1>5, <2>1 DEF FlattenSeq
    <3> QED
      BY <1>7, <1>11, <2>1, <3>1 DEF Accumulates
  <2>2. CASE n # 0
    BY <1>7, <1>11, <2>2
  <2> QED
    BY <2>1, <2>2
<1> QED
  BY <1>4, <1>12, CoversIs DEF seqs

\* So glob_match computes what a glob means, for every text and every pattern.
LEMMA GlobIsExact ==
  ASSUME NEW S, NEW p \in Seq(S), NEW t \in Seq(S)
  PROVE  Matches(t, p) <=> Covers(p, t)
  BY MatchesIs, CoveredFits, FittingCovered

----------------------------------------------------------------------------
(* The folds that build a card. *)

\* What is at least as large as all the others is the largest.
LEMMA MaxIs ==
  ASSUME NEW S, NEW k \in S, k \in Nat, \A y \in S : y \in Nat /\ k >= y
  PROVE  Max(S) = k
<1> DEFINE m == Max(S)
<1>1. m \in S /\ m >= k
  BY DEF Max
<1>2. m \in Nat /\ k >= m
  BY <1>1
<1> HIDE DEF m
<1>3. m = k
  BY <1>1, <1>2
<1> QED
  BY <1>3 DEF m

\* What one element adds to the skills of a card: a declared skill, or a server.
Add(skills, e, declared, exclude) ==
  IF declared THEN AddDeclared(skills, e) ELSE AddServer(skills, e, exclude)

\* The recursion behind a fold over the elements of s at D.
Unfolds(f, D, base, s, declared, exclude) ==
  f = [S \in SUBSET D |->
         IF S = {} THEN base
         ELSE Add(f[S \ {Max(S)}], s[Max(S)], declared, exclude)]

\* It has a solution.
LEMMA FoldDefined ==
  ASSUME NEW base, NEW s, NEW declared, NEW exclude, NEW n \in Nat
  PROVE  \E f : Unfolds(f, 1..n, base, s, declared, exclude)
<1> USE DEF Unfolds
<1> DEFINE Solves(f, k) == Unfolds(f, 1..k, base, s, declared, exclude)
           Bad == {k \in Nat : ~ \E f : Solves(f, k)}
<1> SUFFICES ASSUME Bad # {}  PROVE FALSE
  OBVIOUS
<1>1. PICK k \in Bad : \A i \in Bad : k <= i
  <2>1. Bad \in SUBSET Nat
    OBVIOUS
  <2> QED
    BY <2>1, SmallestPicked
<1>2. k # 0
  <2>1. Solves([S \in {{}} |-> base], 0)
    <3>1. SUBSET (1..0) = {{}}
      OBVIOUS
    <3> QED
      BY <3>1
  <2> QED
    BY <2>1, <1>1
<1>3. PICK f : Solves(f, k - 1)
  <2>1. k - 1 \in Nat /\ ~(k <= k - 1)
    BY <1>1, <1>2
  <2>2. k - 1 \notin Bad
    BY <1>1, <2>1
  <2> HIDE DEF Solves
  <2> QED
    BY <2>1, <2>2
<1> DEFINE g == [S \in SUBSET (1..k) |->
                   IF k \in S THEN Add(f[S \ {k}], s[k], declared, exclude) ELSE f[S]]
<1>4. ASSUME NEW S \in SUBSET (1..k), k \in S
      PROVE  g[S] = Add(g[S \ {Max(S)}], s[Max(S)], declared, exclude)
  <2>1. k \in Nat /\ \A y \in S : y \in Nat /\ k >= y
    BY <1>1
  <2>2. Max(S) = k
    BY <1>4, <2>1, MaxIs
  <2>3. g[S] = Add(f[S \ {k}], s[k], declared, exclude)
    BY <1>4
  <2>4. g[S \ {k}] = f[S \ {k}]
    OBVIOUS
  <2> HIDE DEF g
  <2> QED
    BY <2>2, <2>3, <2>4
<1>5. ASSUME NEW S \in SUBSET (1..k), k \notin S
      PROVE  g[S] = IF S = {} THEN base
                    ELSE Add(g[S \ {Max(S)}], s[Max(S)], declared, exclude)
  <2>1. S \in SUBSET (1..(k - 1))
    BY <1>5, <1>1
  <2>2. g[S] = f[S] /\ g[S \ {Max(S)}] = f[S \ {Max(S)}]
    BY <1>5
  <2> HIDE DEF g
  <2> QED
    BY <1>3, <2>1, <2>2
<1>6. Solves(g, k)
  <2>1. g = [S \in SUBSET (1..k) |-> g[S]]
    OBVIOUS
  <2> HIDE DEF g
  <2>2. \A S \in SUBSET (1..k) :
          g[S] = IF S = {} THEN base
                 ELSE Add(g[S \ {Max(S)}], s[Max(S)], declared, exclude)
    BY <1>4, <1>5
  <2> QED
    BY <2>1, <2>2
<1> QED
  BY <1>1, <1>6

Folded(base, s, declared, exclude) ==
  (CHOOSE f : Unfolds(f, DOMAIN s, base, s, declared, exclude))[DOMAIN s]

LEMMA FoldedDeclared ==
  ASSUME NEW s, NEW exclude
  PROVE  FoldLeft(AddDeclared, <<>>, s) = Folded(<<>>, s, TRUE, exclude)
  BY Zenon DEF FoldLeft, MapThenFoldSet, Folded, Unfolds, Add

LEMMA FoldedServers ==
  ASSUME NEW s, NEW exclude, NEW base
  PROVE  FoldLeft(LAMBDA skills, n : AddServer(skills, n, exclude), base, s)
           = Folded(base, s, FALSE, exclude)
  BY DEF FoldLeft, MapThenFoldSet, Folded, Unfolds, Add

\* A fold adds one element after the other.
LEMMA FoldSteps ==
  ASSUME NEW base, NEW s, NEW declared, NEW exclude, NEW n \in Nat, DOMAIN s = 1..n
  PROVE  \E acc : /\ acc[0] = base
                  /\ \A i \in 1..n : acc[i] = Add(acc[i - 1], s[i], declared, exclude)
                  /\ Folded(base, s, declared, exclude) = acc[n]
<1> DEFINE f   == CHOOSE g : Unfolds(g, 1..n, base, s, declared, exclude)
           acc == [i \in 0..n |-> f[1..i]]
<1>2. Folded(base, s, declared, exclude) = f[1..n]
  BY DEF Folded
<1>3. Unfolds(f, 1..n, base, s, declared, exclude)
  BY FoldDefined
<1> HIDE DEF f
<1>4. acc[0] = base
  <2>1. 1..0 = {} /\ {} \in SUBSET (1..n)
    OBVIOUS
  <2>2. f[{}] = base
    BY <1>3, <2>1 DEF Unfolds
  <2>3. acc[0] = f[1..0]
    OBVIOUS
  <2> QED
    BY <2>1, <2>2, <2>3
<1>5. ASSUME NEW i \in 1..n
      PROVE  acc[i] = Add(acc[i - 1], s[i], declared, exclude)
  <2>1. i \in Nat /\ i \in 1..i /\ i <= n /\ i - 1 \in 0..n /\ \A y \in 1..i : y \in Nat /\ i >= y
    OBVIOUS
  <2>2. Max(1..i) = i
    BY <2>1, MaxIs
  <2>3. 1..i \in SUBSET (1..n) /\ 1..i # {}
    BY <2>1
  <2>4. (1..i) \ {i} = 1..(i - 1)
    BY <2>1
  <2>5. f[1..i] = Add(f[1..(i - 1)], s[i], declared, exclude)
    BY <1>3, <2>2, <2>3, <2>4 DEF Unfolds
  <2> QED
    BY <2>1, <2>5
<1>6. acc[n] = f[1..n]
  OBVIOUS
<1> HIDE DEF acc
<1> QED
  BY <1>2, <1>4, <1>5, <1>6

----------------------------------------------------------------------------
(* The skills of a card. *)

Distinct(skills) == \A i, j \in DOMAIN skills : skills[i].id = skills[j].id => i = j

\* What a card calls the skills it builds from some names.
SkillsOver(names) ==
  {[id |-> Slug(n), of |-> o, name |-> m] : n \in names, o \in {"agent", "mcp"}, m \in names}

OwnNames(s) == {n \in {s.id, s.name, s.skill} : Given(n)}

\* A declared skill that has a name is on the card by one of its names.
Shown(s, skills) == OwnNames(s) # {} => \E n \in OwnNames(s) : Slug(n) \in Ids(skills)

LEMMA FirstIsGiven ==
  ASSUME NEW a, NEW b, NEW c, {n \in {a, b, c} : Given(n)} # {}
  PROVE  FirstGiven(<<a, b, c>>) \in {n \in {a, b, c} : Given(n)}
<1>1. FirstGiven(<<a, b, c>>) =
        IF Given(a) THEN a ELSE IF Given(b) THEN b ELSE IF Given(c) THEN c ELSE None
  BY DEF FirstGiven, Min
<1> QED
  BY <1>1

LEMMA NoneGiven ==
  ASSUME NEW a, NEW b, NEW c, {n \in {a, b, c} : Given(n)} = {}
  PROVE  FirstGiven(<<a, b, c>>) = None
<1>1. FirstGiven(<<a, b, c>>) =
        IF Given(a) THEN a ELSE IF Given(b) THEN b ELSE IF Given(c) THEN c ELSE None
  BY DEF FirstGiven, Min
<1> QED
  BY <1>1

LEMMA AddedOnce ==
  ASSUME NEW S, NEW skills \in Seq(S), NEW skill \in S, Distinct(skills)
  PROVE  LET is == AddOnce(skills, skill) IN
         /\ is \in Seq(S) /\ Distinct(is)
         /\ Ids(skills) \subseteq Ids(is) /\ skill.id \in Ids(is)
         /\ ToSet(is) \subseteq ToSet(skills) \union {skill}
<1>1. CASE skill.id \in Ids(skills)
  BY <1>1 DEF AddOnce
<1>2. CASE skill.id \notin Ids(skills)
  <2> DEFINE is == Append(skills, skill)
             n  == Len(skills)
  <2>1. /\ is \in Seq(S) /\ n \in Nat /\ DOMAIN skills = 1..n /\ DOMAIN is = 1..(n + 1)
        /\ \A i \in 1..n : is[i] = skills[i]
        /\ is[n + 1] = skill
    OBVIOUS
  <2>2. \A i \in 1..n : skills[i].id \in Ids(skills)
    BY <2>1 DEF Ids, ToSet
  <2>3. AddOnce(skills, skill) = is
    BY <1>2 DEF AddOnce
  <2> HIDE DEF is, n
  <2>4. Distinct(is)
    <3>1. \A i, j \in 1..n : is[i].id = is[j].id => i = j
      BY <2>1 DEF Distinct
    <3>2. \A i \in 1..n : is[i].id # is[n + 1].id
      BY <1>2, <2>1, <2>2
    <3>3. \A i \in 1..(n + 1) : i \in 1..n \/ i = n + 1
      BY <2>1
    <3> QED
      BY <2>1, <3>1, <3>2, <3>3 DEF Distinct
  <2>5. Ids(skills) \subseteq Ids(is)
    <3>1. \A i \in 1..n : i \in 1..(n + 1)
      BY <2>1
    <3> QED
      BY <2>1, <3>1 DEF Ids, ToSet
  <2>6. skill.id \in Ids(is)
    <3>1. n + 1 \in 1..(n + 1)
      BY <2>1
    <3> QED
      BY <2>1, <3>1 DEF Ids, ToSet
  <2>7. ToSet(is) \subseteq ToSet(skills) \union {skill}
    <3>1. \A i \in 1..(n + 1) : i \in 1..n \/ i = n + 1
      BY <2>1
    <3> QED
      BY <2>1, <3>1 DEF ToSet
  <2> QED
    BY <2>1, <2>3, <2>4, <2>5, <2>6, <2>7
<1> QED
  BY <1>1, <1>2

\* No server on the card is plumbing, and every other one is on it.
Clean(skills, exclude) ==
  \A skill \in ToSet(skills) : skill.of = "mcp" => ~Excluded(skill.name, exclude)

Listed(n, exclude, skills) == Given(n) /\ ~Excluded(n, exclude) => Slug(n) \in Ids(skills)

\* The names an element of a fold brings along.
NamesIn(e, declared) == IF declared THEN OwnNames(e) ELSE {e}

LEMMA AddKeeps ==
  ASSUME NEW names, NEW skills \in Seq(SkillsOver(names)), Distinct(skills),
         NEW e, NEW declared, NEW exclude, NamesIn(e, declared) \subseteq names
  PROVE  LET is == Add(skills, e, declared, exclude) IN
         /\ is \in Seq(SkillsOver(names)) /\ Distinct(is)
         /\ Ids(skills) \subseteq Ids(is)
         /\ IF declared THEN Shown(e, is) ELSE Listed(e, exclude, is)
         /\ Clean(skills, exclude) => Clean(is, exclude)
<1>1. CASE declared /\ OwnNames(e) = {}
  <2>1. FirstGiven(<<e.id, e.name, e.skill>>) = None
    BY <1>1, NoneGiven DEF OwnNames
  <2> QED
    BY <1>1, <2>1 DEF Add, AddDeclared, Shown
<1>2. CASE declared /\ OwnNames(e) # {}
  <2> DEFINE id    == FirstGiven(<<e.id, e.name, e.skill>>)
             name  == FirstGiven(<<e.name, e.id, e.skill>>)
             skill == [id |-> Slug(id), of |-> "agent", name |-> name]
  <2>1. id \in OwnNames(e) /\ id # None
    BY <1>2, FirstIsGiven DEF OwnNames, Given
  <2>2. name \in OwnNames(e)
    <3>1. {n \in {e.name, e.id, e.skill} : Given(n)} = OwnNames(e)
      BY DEF OwnNames
    <3> QED
      BY <1>2, <3>1, FirstIsGiven
  <2>3. Add(skills, e, declared, exclude) = AddOnce(skills, skill)
    BY <1>2, <2>1 DEF Add, AddDeclared
  <2> HIDE DEF id, name
  <2>4. skill \in SkillsOver(names) /\ skill.id = Slug(id)
    BY <1>2, <2>1, <2>2 DEF SkillsOver, NamesIn
  <2>5. skill.of # "mcp"
    OBVIOUS
  <2> HIDE DEF skill
  <2> DEFINE is == AddOnce(skills, skill)
  <2>6. /\ is \in Seq(SkillsOver(names)) /\ Distinct(is)
        /\ Ids(skills) \subseteq Ids(is) /\ skill.id \in Ids(is)
        /\ ToSet(is) \subseteq ToSet(skills) \union {skill}
    <3> HIDE DEF is
    <3> QED
      BY <2>4, AddedOnce DEF is
  <2> HIDE DEF is
  <2>7. Shown(e, is)
    BY <2>1, <2>4, <2>6 DEF Shown
  <2>8. Clean(skills, exclude) => Clean(is, exclude)
    BY <2>5, <2>6 DEF Clean
  <2>9. Add(skills, e, declared, exclude) = is
    BY <2>3 DEF is
  <2> QED
    BY <1>2, <2>6, <2>7, <2>8, <2>9
<1>3. CASE ~declared
  <2> DEFINE skill == [id |-> Slug(e), of |-> "mcp", name |-> e]
  <2>1. Add(skills, e, declared, exclude) =
          IF ~Given(e) \/ Excluded(e, exclude) THEN skills ELSE AddOnce(skills, skill)
    BY <1>3 DEF Add, AddServer
  <2>2. skill \in SkillsOver(names) /\ skill.id = Slug(e) /\ skill.name = e
    BY <1>3 DEF SkillsOver, NamesIn
  <2> HIDE DEF skill
  <2> QED
    BY <1>3, <2>1, <2>2, AddedOnce DEF Listed, Clean
<1> QED
  BY <1>1, <1>2, <1>3

\* So a whole fold keeps what is there, and shows each declared skill.
LEMMA FoldKeeps ==
  ASSUME NEW names, NEW base \in Seq(SkillsOver(names)), Distinct(base),
         NEW s, NEW n \in Nat, DOMAIN s = 1..n, NEW declared, NEW exclude,
         \A i \in 1..n : NamesIn(s[i], declared) \subseteq names
  PROVE  LET all == Folded(base, s, declared, exclude) IN
         /\ all \in Seq(SkillsOver(names)) /\ Distinct(all)
         /\ Ids(base) \subseteq Ids(all)
         /\ \A i \in 1..n : IF declared THEN Shown(s[i], all) ELSE Listed(s[i], exclude, all)
         /\ Clean(base, exclude) => Clean(all, exclude)
<1>1. PICK acc : /\ acc[0] = base
                 /\ \A i \in 1..n : acc[i] = Add(acc[i - 1], s[i], declared, exclude)
                 /\ Folded(base, s, declared, exclude) = acc[n]
  <2>1. n \in Nat /\ DOMAIN s = 1..n
    OBVIOUS
  <2>2. \E acc : /\ acc[0] = base
                 /\ \A i \in 1..n : acc[i] = Add(acc[i - 1], s[i], declared, exclude)
                 /\ Folded(base, s, declared, exclude) = acc[n]
    BY ONLY <2>1, FoldSteps
  <2> QED
    BY ONLY <2>2
<1> DEFINE Good(i) == /\ acc[i] \in Seq(SkillsOver(names)) /\ Distinct(acc[i])
                      /\ Ids(base) \subseteq Ids(acc[i])
                      /\ \A j \in 1..i : IF declared THEN Shown(s[j], acc[i])
                                        ELSE Listed(s[j], exclude, acc[i])
                      /\ Clean(base, exclude) => Clean(acc[i], exclude)
           Bad == {i \in 0..n : ~Good(i)}
<1>2. Good(0)
  BY <1>1
<1>3. ASSUME NEW i \in 1..n, Good(i - 1)  PROVE Good(i)
  <2>1. acc[i] = Add(acc[i - 1], s[i], declared, exclude)
    BY <1>1
  <2>2. /\ acc[i] \in Seq(SkillsOver(names)) /\ Distinct(acc[i])
        /\ Ids(acc[i - 1]) \subseteq Ids(acc[i])
        /\ IF declared THEN Shown(s[i], acc[i]) ELSE Listed(s[i], exclude, acc[i])
        /\ Clean(acc[i - 1], exclude) => Clean(acc[i], exclude)
    BY <1>3, <2>1, AddKeeps
  <2>3. \A j \in 1..i : j \in 1..(i - 1) \/ j = i
    OBVIOUS
  <2>4. \A j \in 1..i : IF declared THEN Shown(s[j], acc[i]) ELSE Listed(s[j], exclude, acc[i])
    BY <1>3, <2>2, <2>3 DEF Shown, Listed
  <2> QED
    BY <1>3, <2>2, <2>4
<1>4. Bad = {}
  <2> SUFFICES ASSUME Bad # {}  PROVE FALSE
    OBVIOUS
  <2>1. Bad \in SUBSET Nat
    OBVIOUS
  <2> DEFINE i == Min(Bad)
  <2>2. i \in Bad /\ \A j \in Bad : i <= j
    BY <2>1, SmallestPicked
  <2> HIDE DEF i
  <2>3. i \in 1..n /\ i - 1 \in 0..n /\ ~(i <= i - 1)
    <3> HIDE DEF Good
    <3> QED
      BY <1>2, <2>2
  <2> HIDE DEF Good
  <2> QED
    BY <1>3, <2>2, <2>3
<1>5. Good(n)
  <2> HIDE DEF Good
  <2> QED
    BY <1>4
<1> QED
  BY <1>1, <1>5

LEMMA IdsCounted ==
  ASSUME NEW S, NEW skills \in Seq(S), Distinct(skills)
  PROVE  Cardinality(Ids(skills)) = Len(skills)
<1> DEFINE n == Len(skills)
           f == [i \in 1..n |-> skills[i].id]
<1>1. n \in Nat /\ DOMAIN skills = 1..n
  OBVIOUS
<1> HIDE DEF n
<1>2. f \in Bijection(1..n, Ids(skills))
  BY <1>1 DEF Bijection, Injection, Surjection, IsInjective, Distinct, Ids, ToSet
<1>3. ExistsBijection(1..n, Ids(skills))
  BY <1>2 DEF ExistsBijection
<1> QED
  BY <1>1, <1>3, FS_CountingElements DEF n

IsSeq(s) == s \in Seq(ToSet(s))

\* The skills of a built card have ids of their own, and each declared one is there.
LEMMA SkillsBuilt ==
  ASSUME NEW declared, IsSeq(declared), NEW servers, IsSeq(servers), NEW exclude
  PROVE  LET skills == BuildSkills(declared, servers, exclude) IN
         /\ Cardinality(Ids(skills)) = Len(skills)
         /\ \A s \in ToSet(declared) : Shown(s, skills)
         /\ \A n \in ToSet(servers) : Listed(n, exclude, skills)
         /\ Clean(skills, exclude)
<1> DEFINE names == (UNION {OwnNames(s) : s \in ToSet(declared)}) \union ToSet(servers)
           own   == Folded(<<>>, declared, TRUE, exclude)
           all   == Folded(own, servers, FALSE, exclude)
<1>1. BuildSkills(declared, servers, exclude) = IF all = <<>> THEN <<General>> ELSE all
  BY FoldedDeclared, FoldedServers DEF BuildSkills
<1>2. /\ Len(declared) \in Nat /\ DOMAIN declared = 1..Len(declared)
      /\ \A i \in 1..Len(declared) : declared[i] \in ToSet(declared)
      /\ \A s \in ToSet(declared) : \E i \in 1..Len(declared) : s = declared[i]
  BY DEF IsSeq, ToSet
<1>3. /\ Len(servers) \in Nat /\ DOMAIN servers = 1..Len(servers)
      /\ \A i \in 1..Len(servers) : servers[i] \in ToSet(servers)
      /\ \A n \in ToSet(servers) : \E i \in 1..Len(servers) : n = servers[i]
  BY DEF IsSeq, ToSet
<1>4. /\ own \in Seq(SkillsOver(names)) /\ Distinct(own)
      /\ \A i \in 1..Len(declared) : Shown(declared[i], own)
      /\ Clean(own, exclude)
  <2>1. <<>> \in Seq(SkillsOver(names)) /\ Distinct(<<>>) /\ Clean(<<>>, exclude)
    BY DEF Distinct, Clean, ToSet
  <2>2. \A i \in 1..Len(declared) : NamesIn(declared[i], TRUE) \subseteq names
    BY <1>2 DEF NamesIn
  <2> HIDE DEF names
  <2> QED
    BY <1>2, <2>1, <2>2, FoldKeeps
<1>5. /\ all \in Seq(SkillsOver(names)) /\ Distinct(all) /\ Ids(own) \subseteq Ids(all)
      /\ \A i \in 1..Len(servers) : Listed(servers[i], exclude, all)
      /\ Clean(all, exclude)
  <2>1. ToSet(servers) \subseteq names
    OBVIOUS
  <2> HIDE DEF names, own
  <2>2. \A i \in 1..Len(servers) : NamesIn(servers[i], FALSE) \subseteq names
    BY <1>3, <2>1 DEF NamesIn
  <2> QED
    BY <1>3, <1>4, <2>2, FoldKeeps
<1> HIDE DEF names, own, all
<1>6. \A s \in ToSet(declared) : Shown(s, all)
  BY <1>2, <1>4, <1>5 DEF Shown
<1>9. \A n \in ToSet(servers) : Listed(n, exclude, all)
  BY <1>3, <1>5
<1>7. CASE all # <<>>
  BY <1>1, <1>5, <1>6, <1>7, <1>9, IdsCounted
<1>8. CASE all = <<>>
  <2>1. Ids(all) = {}
    BY <1>8 DEF Ids, ToSet
  <2>2. \A s \in ToSet(declared) : Shown(s, <<General>>)
    BY <1>6, <2>1 DEF Shown
  <2>3. <<General>> \in Seq({General}) /\ Distinct(<<General>>)
    BY DEF Distinct
  <2>4. \A n \in ToSet(servers) : Listed(n, exclude, <<General>>)
    BY <1>9, <2>1 DEF Listed
  <2>5. Clean(<<General>>, exclude)
    <3>1. ToSet(<<General>>) = {General}
      BY DEF ToSet
    <3>2. General.of # "mcp"
      BY DEF General
    <3> QED
      BY <3>1, <3>2 DEF Clean
  <2> QED
    BY <1>1, <1>8, <2>2, <2>3, <2>4, <2>5, IdsCounted
<1> QED
  BY <1>7, <1>8

----------------------------------------------------------------------------
(* The invariant of a request. *)

\* A declared skill, or what has been resolved of it.
Resolved(r, s) ==
  \/ r = s
  \/ NeedsLookup(s) /\ r = [s EXCEPT !.name = SkillNames[LookupId(s)]]

\* The skills of a request are those of its agent, some with the name they lacked.
Known(skills, own) ==
  /\ skills = [i \in DOMAIN own |-> skills[i]]
  /\ \A i \in DOMAIN own : Resolved(skills[i], own[i])

\* The policy serves requests with a configuration that has been checked, and on the
\* way to a derived card or to dispatch the request is of the right kind.
FilterInv ==
  /\ setup \in Setups
  /\ DOMAIN req = DOMAIN Idle
  /\ req.pc # "idle" => policy = "loaded"
  /\ policy = "loaded" /\ setup.source = "paste" =>
       setup.card = None \/ Canonical(setup.card)
  /\ req.pc \in {"idle", "agent", "detail", "version", "dispatch", "upstream", "done"}
  /\ req.pc = "idle" => req.verb = "none" /\ req.text = "none" /\ req.reply = NoReply
  /\ req.pc \in {"agent", "detail", "version"} =>
       req.verb = "GET" /\ setup.source = "derive" /\ req.reply = NoReply
  /\ req.pc = "dispatch" =>
       req.verb = "POST" /\ req.routed /\ req.text = "none" /\ req.reply = NoReply
  /\ req.pc = "upstream" => req.verb # "POST" /\ req.reply = NoReply
  /\ req.pc \in {"detail", "version"} =>
       /\ Known(req.skills, setup.skills)
       /\ req.next \in DOMAIN req.skills /\ NeedsLookup(req.skills[req.next])
  /\ CardIsComplete
  /\ CallersAreAnswered
  /\ FailedLookupsLoseNoSkill
  /\ ExcludesWhatPatternsCover

\* A built card has every field, whatever overrides it.
LEMMA BuiltComplete ==
  ASSUME NEW declared, NEW servers, NEW exclude, NEW card
  PROVE  Required \subseteq BuildCard(declared, servers, exclude, card).fields
  BY DEF BuildCard

\* So has a pasted one, if it has been checked.
LEMMA PastedComplete ==
  ASSUME setup.card # None, Canonical(setup.card)
  PROVE  Required \subseteq Pasted.card.fields
  BY DEF Pasted, PasteCard, CardReply, Canonical

LEMMA PastedReply == Pasted.kind = "card" /\ ~Pasted.built /\ ~Pasted.card.derived
  BY DEF Pasted, CardReply, PasteCard

LEMMA SetupFacts ==
  ASSUME setup \in Setups
  PROVE  /\ IsSeq(setup.skills) /\ IsSeq(setup.servers)
         /\ DOMAIN setup.skills = 1..Len(setup.skills)
         /\ \A i \in DOMAIN setup.skills : /\ setup.skills[i] \in ToSet(setup.skills)
                                          /\ DOMAIN setup.skills[i] = {"id", "skill", "name"}
<1>1. IsSeq(setup.skills) /\ IsSeq(setup.servers)
  BY RequestAssumption DEF IsSeq
<1>2. \A skill \in ToSet(setup.skills) : DOMAIN skill = {"id", "skill", "name"}
  BY RequestAssumption
<1>3. \A i \in DOMAIN setup.skills : setup.skills[i] \in ToSet(setup.skills)
  BY DEF ToSet
<1> QED
  BY <1>1, <1>2, <1>3 DEF IsSeq

LEMMA SkillsStay ==
  ASSUME UNCHANGED <<setup, req>>
  PROVE  /\ FailedLookupsLoseNoSkill' <=> FailedLookupsLoseNoSkill
         /\ ExcludesWhatPatternsCover' <=> ExcludesWhatPatternsCover
  BY DEF FailedLookupsLoseNoSkill, ExcludesWhatPatternsCover, ServesSkills, ServesCard

LEMMA KnownIsSeq ==
  ASSUME setup \in Setups, NEW skills, Known(skills, setup.skills)
  PROVE  /\ IsSeq(skills) /\ DOMAIN skills = DOMAIN setup.skills
         /\ DOMAIN skills \subseteq Nat
<1> DEFINE n == Len(setup.skills)
<1>1. n \in Nat /\ DOMAIN setup.skills = 1..n
  BY SetupFacts DEF IsSeq
<1> HIDE DEF n
<1>2. skills = [i \in 1..n |-> skills[i]] /\ DOMAIN skills = 1..n
  BY <1>1 DEF Known
<1>3. \A i \in 1..n : skills[i] \in ToSet(skills)
  BY <1>2 DEF ToSet
<1>4. [i \in 1..n |-> skills[i]] \in Seq(ToSet(skills))
  BY <1>1, <1>3
<1> QED
  BY <1>1, <1>2, <1>4 DEF IsSeq

\* A name of a resolved skill is one of those the declared one may be shown by.
LEMMA NamesResolved ==
  ASSUME NEW s, DOMAIN s = {"id", "skill", "name"}, NEW r, Resolved(r, s)
  PROVE  OwnNames(r) \subseteq NamesOf(s) /\ (NamesOf(s) # {} => OwnNames(r) # {})
<1>1. CASE r = s
  <2>1. NeedsLookup(s) => OwnNames(s) # {}
    BY DEF NeedsLookup, LookupId, ValidSegment, OwnNames, Given
  <2> QED
    BY <1>1, <2>1 DEF OwnNames, NamesOf
<1>2. CASE NeedsLookup(s) /\ r = [s EXCEPT !.name = SkillNames[LookupId(s)]]
  <2>1. r.id = s.id /\ r.skill = s.skill /\ r.name = SkillNames[LookupId(s)]
    BY <1>2
  <2>2. OwnNames(r) # {}
    BY <1>2, <2>1 DEF NeedsLookup, LookupId, ValidSegment, OwnNames, Given
  <2> QED
    BY <1>2, <2>1, <2>2 DEF OwnNames, NamesOf
<1> QED
  BY <1>1, <1>2 DEF Resolved

\* What an exclude pattern is taken to cover is what it covers.
LEMMA ExcludedIs ==
  ASSUME setup \in Setups, NEW n \in ToSet(setup.servers) \ {None}
  PROVE  Excluded(n, setup.exclude) <=> \E p \in ToSet(setup.exclude) : Covers(p, n)
<1> SUFFICES ASSUME NEW p \in ToSet(setup.exclude)
             PROVE  Matches(n, p) <=> Covers(p, n)
  BY DEF Excluded
<1> DEFINE S == ToSet(n) \union ToSet(p)
<1>1. n \in Seq(ToSet(n)) /\ p \in Seq(ToSet(p))
  BY RequestAssumption
<1>2. ToSet(n) \subseteq S /\ ToSet(p) \subseteq S
  OBVIOUS
<1> HIDE DEF S
<1>3. n \in Seq(S) /\ p \in Seq(S)
  BY <1>1, <1>2, SeqMonotonic
<1> QED
  BY <1>3, GlobIsExact

\* Server n is on a card or not as the patterns say.
Sorted(n, skills) ==
  LET covered == \E p \in ToSet(setup.exclude) : Covers(p, n)
  IN  /\ covered  => \A skill \in ToSet(skills) : ~(skill.of = "mcp" /\ skill.name = n)
      /\ ~covered => Slug(n) \in Ids(skills)

\* A derived card shows each declared skill, however many of them have been resolved.
LEMMA KnownShown ==
  ASSUME setup \in Setups, NEW skills, Known(skills, setup.skills)
  PROVE  LET card == BuildCard(skills, setup.servers, setup.exclude, setup.card) IN
         card.derived =>
           /\ Cardinality(Ids(card.skills)) = Len(card.skills)
           /\ \A s \in ToSet(setup.skills) :
                NamesOf(s) # {} => \E n \in NamesOf(s) : Slug(n) \in Ids(card.skills)
           /\ \A n \in ToSet(setup.servers) \ {None, <<>>} : Sorted(n, card.skills)
<1> DEFINE card  == BuildCard(skills, setup.servers, setup.exclude, setup.card)
           built == BuildSkills(skills, setup.servers, setup.exclude)
<1> SUFFICES ASSUME card.derived
             PROVE  /\ Cardinality(Ids(card.skills)) = Len(card.skills)
                    /\ \A s \in ToSet(setup.skills) :
                         NamesOf(s) # {} => \E n \in NamesOf(s) : Slug(n) \in Ids(card.skills)
                    /\ \A n \in ToSet(setup.servers) \ {None, <<>>} : Sorted(n, card.skills)
  OBVIOUS
<1>1. card.skills = built
  BY DEF BuildCard
<1>2. /\ Cardinality(Ids(built)) = Len(built)
      /\ \A r \in ToSet(skills) : Shown(r, built)
      /\ \A n \in ToSet(setup.servers) : Listed(n, setup.exclude, built)
      /\ Clean(built, setup.exclude)
  BY KnownIsSeq, SetupFacts, SkillsBuilt
<1> HIDE DEF card, built
<1>3. ASSUME NEW s \in ToSet(setup.skills), NamesOf(s) # {}
      PROVE  \E n \in NamesOf(s) : Slug(n) \in Ids(built)
  <2>1. PICK i \in DOMAIN setup.skills : s = setup.skills[i]
    BY DEF ToSet
  <2>2. Resolved(skills[i], s) /\ DOMAIN s = {"id", "skill", "name"}
    BY <2>1, SetupFacts DEF Known
  <2>3. skills[i] \in ToSet(skills)
    BY <2>1, KnownIsSeq DEF ToSet
  <2> QED
    BY <1>2, <1>3, <2>2, <2>3, NamesResolved DEF Shown
<1>4. ASSUME NEW n \in ToSet(setup.servers) \ {None, <<>>}  PROVE Sorted(n, built)
  <2>1. Excluded(n, setup.exclude) <=> \E p \in ToSet(setup.exclude) : Covers(p, n)
    BY ExcludedIs
  <2> QED
    BY <1>2, <2>1 DEF Sorted, Listed, Clean, Given
<1> QED
  BY <1>1, <1>2, <1>3, <1>4

\* What a request is once it is answered.
LEMMA Answer ==
  ASSUME NEW rec, NEW reply, DOMAIN rec = DOMAIN Idle
  PROVE  /\ Reply(rec, reply).pc = "done" /\ Reply(rec, reply).reply = reply
         /\ DOMAIN Reply(rec, reply) = DOMAIN Idle
         /\ Reply(rec, reply).verb = rec.verb /\ Reply(rec, reply).routed = rec.routed
         /\ Reply(rec, reply).body = rec.body /\ Reply(rec, reply).text = rec.text
  BY DEF Reply, Idle

\* A card request that has its agent goes on to a lookup or is answered.
LEMMA NextSkillGoesOn ==
  ASSUME NEW rec, DOMAIN rec = DOMAIN Idle, DOMAIN rec.skills \subseteq Nat
  PROVE  LET is == NextSkill(rec) IN
         /\ DOMAIN is = DOMAIN Idle /\ is.verb = rec.verb
         /\ \/ /\ is.pc = "detail" /\ is.reply = rec.reply /\ is.skills = rec.skills
               /\ is.next \in DOMAIN rec.skills /\ NeedsLookup(rec.skills[is.next])
            \/ /\ is.pc = "done" /\ is.reply.kind = "card"
               /\ is.reply.card = BuildCard(rec.skills, setup.servers, setup.exclude, setup.card)
<1> DEFINE built == BuildCard(rec.skills, setup.servers, setup.exclude, setup.card)
           todo  == {i \in DOMAIN rec.skills : i > rec.next /\ NeedsLookup(rec.skills[i])}
<1>1. CASE todo # {}
  <2>1. todo \in SUBSET Nat
    OBVIOUS
  <2>2. Min(todo) \in todo
    BY <1>1, <2>1, SmallestPicked
  <2>3. NextSkill(rec) = [rec EXCEPT !.pc = "detail", !.next = Min(todo)]
    BY <1>1 DEF NextSkill
  <2>4. Min(todo) \in DOMAIN rec.skills /\ NeedsLookup(rec.skills[Min(todo)])
    BY <2>2
  <2> HIDE DEF todo, built
  <2> DEFINE next == Min(todo)
  <2> HIDE DEF next
  <2>5. LET is == [rec EXCEPT !.pc = "detail", !.next = next] IN
        /\ DOMAIN is = DOMAIN Idle /\ is.verb = rec.verb /\ is.pc = "detail"
        /\ is.reply = rec.reply /\ is.skills = rec.skills /\ is.next = next
    BY DEF Idle
  <2> QED
    BY <2>3, <2>4, <2>5 DEF next
<1>2. CASE todo = {}
  <2>1. NextSkill(rec) = Reply(rec, CardReply(built, TRUE))
    BY <1>2 DEF NextSkill
  <2> DEFINE reply == CardReply(built, TRUE)
  <2>2. reply.kind = "card" /\ reply.card = built
    BY DEF CardReply
  <2> HIDE DEF reply
  <2>3. /\ Reply(rec, reply).pc = "done" /\ Reply(rec, reply).reply = reply
        /\ DOMAIN Reply(rec, reply) = DOMAIN Idle /\ Reply(rec, reply).verb = rec.verb
    BY Answer
  <2>4. NextSkill(rec) = Reply(rec, reply)
    BY <2>1 DEF reply
  <2> HIDE DEF built
  <2> QED
    BY <2>2, <2>3, <2>4 DEF built
<1> QED
  BY <1>1, <1>2

----------------------------------------------------------------------------
(* FilterInv is an invariant. *)

LEMMA InitFilterInv == Init => FilterInv
  BY DEF Init, FilterInv, Idle, NoReply, CardIsComplete, CallersAreAnswered,
      FailedLookupsLoseNoSkill, ExcludesWhatPatternsCover, ServesSkills, ServesCard

LEMMA ConfigureInv == ASSUME FilterInv, Configure  PROVE FilterInv'
  BY RequestAssumption DEF FilterInv, Configure, CardIsComplete, CallersAreAnswered,
      FailedLookupsLoseNoSkill, ExcludesWhatPatternsCover, ServesSkills, ServesCard

\* The card that is served is the configured one, complete unless a derived one failed.
LEMMA PastedInv ==
  ASSUME FilterInv, NEW rec, DOMAIN rec = DOMAIN Idle, rec.verb = "GET",
         policy = "loaded", UNCHANGED <<policy, setup>>, req' = Reply(rec, Pasted)
  PROVE  FilterInv'
<1>1. setup.source \in {"paste", "derive"}
  BY RequestAssumption DEF FilterInv
<1>2. \/ Required \subseteq Pasted.card.fields
      \/ setup.card = None \/ setup.source = "derive"
  BY <1>1, PastedComplete DEF FilterInv
<1> QED
  BY <1>2, PastedReply, Answer DEF FilterInv, CardIsComplete, CallersAreAnswered,
      FailedLookupsLoseNoSkill, ExcludesWhatPatternsCover, ServesSkills, ServesCard

\* A request that goes on with its derived card.
LEMMA DerivedInv ==
  ASSUME FilterInv, NEW rec, DOMAIN rec = DOMAIN Idle, rec.verb = "GET", rec.reply = NoReply,
         policy = "loaded", setup.source = "derive", UNCHANGED <<policy, setup>>,
         \/ req' = rec /\ rec.pc = "agent"
         \/ /\ req' = rec /\ rec.pc = "version" /\ Known(rec.skills, setup.skills)
            /\ rec.next \in DOMAIN rec.skills /\ NeedsLookup(rec.skills[rec.next])
         \/ req' = NextSkill(rec) /\ Known(rec.skills, setup.skills)
  PROVE  FilterInv'
<1> DEFINE card == BuildCard(rec.skills, setup.servers, setup.exclude, setup.card)
<1> USE DEF FilterInv, CardIsComplete, CallersAreAnswered,
            FailedLookupsLoseNoSkill, ExcludesWhatPatternsCover, ServesSkills, ServesCard, NoReply
<1>1. CASE /\ req' = rec
           /\ \/ rec.pc = "agent"
              \/ /\ rec.pc = "version" /\ Known(rec.skills, setup.skills)
                 /\ rec.next \in DOMAIN rec.skills /\ NeedsLookup(rec.skills[rec.next])
  BY <1>1
<1>2. CASE req' = NextSkill(rec) /\ Known(rec.skills, setup.skills)
  <2>1. Required \subseteq card.fields
    BY BuiltComplete
  <2>2. DOMAIN rec.skills \subseteq Nat
    BY <1>2, KnownIsSeq
  <2>3. \/ req'.pc = "detail"
        \/ req'.pc = "done" /\ req'.reply.kind = "card" /\ req'.reply.card = card
    BY <1>2, <2>2, NextSkillGoesOn
  <2>4. CASE req'.pc = "detail"
    BY <1>2, <2>2, <2>4, NextSkillGoesOn
  <2>5. CASE req'.pc = "done" /\ req'.reply.kind = "card" /\ req'.reply.card = card
    <3>1. DOMAIN req' = DOMAIN Idle /\ req'.verb = "GET"
      BY <1>2, <2>2, NextSkillGoesOn
    <3>2. FailedLookupsLoseNoSkill'
      BY <1>2, <2>5, KnownShown
    <3>3. /\ setup \in Setups
          /\ card.derived => \A n \in ToSet(setup.servers) \ {None, <<>>} : Sorted(n, card.skills)
      <4> HIDE DEF card
      <4> QED
        BY <1>2, KnownShown DEF card
    <3>4. ExcludesWhatPatternsCover'
      <4> HIDE DEF card
      <4> QED
        BY <2>5, <3>3 DEF Sorted
    <3> HIDE DEF card
    <3> QED
      BY <2>1, <2>5, <3>1, <3>2, <3>4
  <2> QED
    BY <2>3, <2>4, <2>5
<1> QED
  BY <1>1, <1>2

LEMMA GetCardInv == ASSUME FilterInv, NEW routed \in BOOLEAN, GetCard(routed)  PROVE FilterInv'
<1> DEFINE rec == [req EXCEPT !.verb = "GET", !.path = "card", !.routed = routed]
<1>1. /\ DOMAIN rec = DOMAIN Idle /\ rec.verb = "GET" /\ rec.reply = NoReply
      /\ policy = "loaded" /\ UNCHANGED <<policy, setup>>
  BY DEF FilterInv, GetCard, Idle
<1>2. CASE setup.source = "derive" /\ routed
  <2> DEFINE next == [rec EXCEPT !.pc = "agent"]
  <2>1. DOMAIN next = DOMAIN Idle /\ next.pc = "agent" /\ next.verb = "GET" /\ next.reply = NoReply
    BY <1>1 DEF Idle
  <2>2. req' = next
    BY <1>2 DEF GetCard
  <2> HIDE DEF next
  <2> QED
    BY <1>1, <1>2, <2>1, <2>2, DerivedInv
<1>3. CASE ~(setup.source = "derive" /\ routed)
  BY <1>1, <1>3, PastedInv DEF GetCard
<1> QED
  BY <1>2, <1>3

\* A name that has been looked up is one more that is known.
LEMMA NamedIsKnown ==
  ASSUME setup \in Setups, NEW skills, Known(skills, setup.skills), NEW i \in DOMAIN skills,
         NeedsLookup(skills[i])
  PROVE  Known([skills EXCEPT ![i] =
                  [skills[i] EXCEPT !.name = SkillNames[LookupId(skills[i])]]],
               setup.skills)
<1> DEFINE s     == setup.skills[i]
           r     == skills[i]
           named == [r EXCEPT !.name = SkillNames[LookupId(r)]]
<1>1. Resolved(r, s) /\ DOMAIN s = {"id", "skill", "name"} /\ DOMAIN skills = DOMAIN setup.skills
  BY KnownIsSeq, SetupFacts DEF Known
<1>2. NeedsLookup(r)
  OBVIOUS
<1> HIDE DEF s, r
<1>3. Resolved(named, s)
  <2>1. CASE r = s
    BY <1>2, <2>1 DEF Resolved
  <2>2. CASE NeedsLookup(s) /\ r = [s EXCEPT !.name = SkillNames[LookupId(s)]]
    <3>1. LookupId(r) = LookupId(s)
      BY <1>1, <2>2 DEF LookupId
    <3>2. named = [s EXCEPT !.name = SkillNames[LookupId(s)]]
      BY <1>1, <2>2, <3>1
    <3> QED
      BY <2>2, <3>2 DEF Resolved
  <2> QED
    BY <1>1, <2>1, <2>2 DEF Resolved
<1> HIDE DEF named
<1>4. Known([skills EXCEPT ![i] = named], setup.skills)
  BY <1>1, <1>3 DEF Known, s
<1> QED
  BY <1>4 DEF named, r

LEMMA CardCallInv ==
  ASSUME FilterInv, FetchAgent \/ FetchDetail \/ FetchVersion
  PROVE  FilterInv'
<1>1. /\ DOMAIN req = DOMAIN Idle /\ req.verb = "GET" /\ req.reply = NoReply
      /\ policy = "loaded" /\ setup.source = "derive" /\ UNCHANGED <<policy, setup>>
  BY DEF FilterInv, FetchAgent, FetchDetail, FetchVersion
<1>2. CASE FetchAgent
  <2> DEFINE rec == [req EXCEPT !.skills = setup.skills]
  <2>1. /\ DOMAIN rec = DOMAIN Idle /\ rec.verb = "GET" /\ rec.reply = NoReply
        /\ rec.skills = setup.skills
    BY <1>1 DEF Idle
  <2>2. Known(setup.skills, setup.skills)
    <3> DEFINE own == setup.skills
    <3>1. own \in Seq(ToSet(own))
      BY SetupFacts DEF IsSeq, FilterInv
    <3> HIDE DEF own
    <3>2. own = [i \in DOMAIN own |-> own[i]]
      BY <3>1
    <3>3. \A i \in DOMAIN own : Resolved(own[i], own[i])
      BY DEF Resolved
    <3>4. Known(own, own)
      BY <3>2, <3>3, Zenon DEF Known
    <3> QED
      BY <3>4 DEF own
  <2>3. req' = NextSkill(rec) \/ req' = Reply(req, Pasted)
    BY <1>2 DEF FetchAgent
  <2> HIDE DEF rec
  <2> QED
    BY <1>1, <2>1, <2>2, <2>3, PastedInv, DerivedInv
<1>3. ASSUME FetchDetail \/ FetchVersion
      PROVE  /\ Known(req.skills, setup.skills) /\ req.next \in DOMAIN req.skills
             /\ NeedsLookup(req.skills[req.next])
  BY <1>3 DEF FetchDetail, FetchVersion, FilterInv
<1>4. CASE req' = NextSkill(req) /\ (FetchDetail \/ FetchVersion)
  BY <1>1, <1>3, <1>4, DerivedInv
<1>5. CASE FetchDetail /\ req' = [req EXCEPT !.pc = "version"]
  <2> DEFINE rec == [req EXCEPT !.pc = "version"]
  <2>1. /\ DOMAIN rec = DOMAIN Idle /\ rec.verb = "GET" /\ rec.reply = NoReply
        /\ rec.pc = "version" /\ rec.skills = req.skills /\ rec.next = req.next
    BY <1>1 DEF Idle
  <2> HIDE DEF rec
  <2> QED
    BY <1>1, <1>3, <1>5, <2>1, DerivedInv DEF rec
<1>6. ASSUME FetchVersion,
             req' = NextSkill([req EXCEPT !.skills[req.next].name =
                                            SkillNames[LookupId(req.skills[req.next])]])
      PROVE  FilterInv'
  <2> DEFINE i      == req.next
             named  == [req.skills[i] EXCEPT !.name = SkillNames[LookupId(req.skills[i])]]
             skills == [req.skills EXCEPT ![i] = named]
             rec    == [req EXCEPT !.skills = skills]
  <2>1. req' = NextSkill(rec)
    BY <1>6
  <2>2. Known(skills, setup.skills)
    BY <1>3, <1>6, NamedIsKnown DEF FilterInv
  <2> HIDE DEF skills
  <2>3. /\ DOMAIN rec = DOMAIN Idle /\ rec.verb = "GET" /\ rec.reply = NoReply
        /\ rec.skills = skills
    BY <1>1 DEF Idle
  <2> HIDE DEF rec
  <2> QED
    BY <1>1, <2>1, <2>2, <2>3, DerivedInv
<1> QED
  BY <1>2, <1>4, <1>5, <1>6 DEF FetchDetail, FetchVersion

\* A POST that is answered, with or without the text of a turn.
LEMMA AnsweredInv ==
  ASSUME FilterInv, NEW rec, NEW reply, DOMAIN rec = DOMAIN Idle, rec.verb = "POST",
         policy = "loaded", UNCHANGED <<policy, setup>>, req' = Reply(rec, reply),
         reply.id = IF rec.routed THEN EchoedId(rec.body.id) ELSE 0,
         \/ reply.kind = "error"
         \/ /\ reply.kind = "result"
            /\ {reply.artifact, reply.message} \ {"none"} = {rec.text} \ {"none"}
            /\ "none" \in {reply.artifact, reply.message}
  PROVE  FilterInv'
<1>1. req'.pc = "done" /\ req'.reply = reply
  BY Answer
<1>2. FailedLookupsLoseNoSkill' /\ ExcludesWhatPatternsCover'
  BY <1>1 DEF FailedLookupsLoseNoSkill, ExcludesWhatPatternsCover, ServesSkills, ServesCard
<1> QED
  BY <1>1, <1>2, Answer DEF FilterInv, CardIsComplete, CallersAreAnswered, ServesCard

LEMMA ErrorReply ==
  ASSUME NEW id, NEW code
  PROVE  RpcError(id, code).kind = "error" /\ RpcError(id, code).id = EchoedId(id)
  BY DEF RpcError

LEMMA PostInv ==
  ASSUME FilterInv, NEW routed \in BOOLEAN, NEW body \in Bodies, Post(routed, body)
  PROVE  FilterInv'
<1> DEFINE rec == [req EXCEPT !.verb = "POST", !.body = body, !.routed = routed]
<1>1. /\ DOMAIN rec = DOMAIN Idle /\ rec.verb = "POST" /\ rec.body = body
      /\ rec.routed = routed /\ rec.text = "none" /\ rec.reply = NoReply
      /\ policy = "loaded" /\ UNCHANGED <<policy, setup>>
  BY DEF FilterInv, Post, Idle
<1>2. CASE ~routed
  <2>1. req' = Reply(rec, RpcError(NoId, -32603))
    BY <1>2 DEF Post
  <2>2. EchoedId(NoId) = 0
    BY DEF EchoedId
  <2> HIDE DEF rec
  <2> QED
    BY <1>1, <1>2, <2>1, <2>2, ErrorReply, AnsweredInv
<1>3. CASE routed /\ Refusal(body) = 0
  <2> DEFINE next == [rec EXCEPT !.pc = "dispatch"]
  <2>1. /\ DOMAIN next = DOMAIN Idle /\ next.pc = "dispatch" /\ next.verb = "POST"
        /\ next.routed /\ next.text = "none" /\ next.reply = NoReply
    BY <1>1, <1>3 DEF Idle
  <2>2. req' = next
    BY <1>3 DEF Post
  <2> HIDE DEF next
  <2> QED
    BY <1>1, <2>1, <2>2
    DEF FilterInv, CardIsComplete, CallersAreAnswered,
      FailedLookupsLoseNoSkill, ExcludesWhatPatternsCover, ServesSkills, ServesCard, NoReply
<1>4. CASE routed /\ Refusal(body) # 0
  <2>1. req' = Reply(rec, RpcError(body.id, Refusal(body)))
    BY <1>4 DEF Post
  <2> HIDE DEF rec
  <2> QED
    BY <1>1, <1>4, <2>1, ErrorReply, AnsweredInv
<1> QED
  BY <1>2, <1>3, <1>4

LEMMA DispatchInv == ASSUME FilterInv, Dispatch  PROVE FilterInv'
<1>1. /\ DOMAIN req = DOMAIN Idle /\ req.verb = "POST" /\ req.routed
      /\ policy = "loaded" /\ UNCHANGED <<policy, setup>>
  BY DEF FilterInv, Dispatch
<1>2. ASSUME NEW state, NEW text, Answered(state, text)
      PROVE  FilterInv'
  <2> DEFINE rec   == [req EXCEPT !.text = text]
             reply == Task(req.body.id, state, text)
  <2>1. /\ DOMAIN rec = DOMAIN Idle /\ rec.verb = "POST" /\ rec.routed
        /\ rec.body = req.body /\ rec.text = text
    BY <1>1 DEF Idle
  <2>2. /\ reply.kind = "result" /\ reply.id = EchoedId(req.body.id)
        /\ {reply.artifact, reply.message} = {text, "none"}
    BY DEF Task
  <2>3. "none" \in {reply.artifact, reply.message}
    BY <2>2
  <2>4. req' = Reply(rec, reply)
    BY <1>2 DEF Answered
  <2> HIDE DEF rec, reply
  <2> QED
    BY <1>1, <2>1, <2>2, <2>3, <2>4, AnsweredInv
<1>3. ASSUME NEW code, req' = Reply(req, RpcError(req.body.id, code))
      PROVE  FilterInv'
  BY <1>1, <1>3, ErrorReply, AnsweredInv
<1> QED
  BY <1>2, <1>3 DEF Dispatch

LEMMA PassOnInv == ASSUME FilterInv, NEW verb, NEW path, PassOn(verb, path)  PROVE FilterInv'
<1>1. /\ DOMAIN req' = DOMAIN Idle /\ req'.pc = "upstream" /\ req'.verb # "POST"
      /\ req'.reply = NoReply /\ policy = "loaded" /\ UNCHANGED <<policy, setup>>
  BY DEF FilterInv, PassOn, Idle
<1> QED
  BY <1>1 DEF FilterInv, CardIsComplete, CallersAreAnswered,
      FailedLookupsLoseNoSkill, ExcludesWhatPatternsCover, ServesSkills, ServesCard, NoReply

LEMMA NextFilterInv == FilterInv /\ [Next]_filterVars => FilterInv'
<1> SUFFICES ASSUME FilterInv, [Next]_filterVars
             PROVE  FilterInv'
  OBVIOUS
<1>1. CASE UNCHANGED filterVars
  BY <1>1, SkillsStay DEF FilterInv, filterVars, CardIsComplete, CallersAreAnswered, ServesCard
<1> QED
  BY <1>1, ConfigureInv, GetCardInv, PostInv, CardCallInv, DispatchInv, PassOnInv
  DEF Next, Arrive, Step

\* A card that is served is complete, whatever overrides it and whichever calls fail:
\* only what is configured for a derived card, or nothing at all, is served unchecked.
THEOREM CardsAreComplete == Spec => []CardIsComplete
  BY InitFilterInv, NextFilterInv, PTL DEF Spec, FilterInv

\* A POST is never passed on: it is answered, with the id of its call as far as the
\* bridge has read it, and with the text of its turn in one place.
THEOREM PostsAreAnswered == Spec => []CallersAreAnswered
  BY InitFilterInv, NextFilterInv, PTL DEF Spec, FilterInv

\* Whichever lookups fail, a derived card shows each declared skill that has a name or
\* an id, by one of them, and never two skills of the same id, however many skills and
\* servers the agent has and whatever they share.
THEOREM SkillsAreShown == Spec => []FailedLookupsLoseNoSkill
  BY InitFilterInv, NextFilterInv, PTL DEF Spec, FilterInv

\* A derived card has no server that an exclude pattern covers, and every other one, for
\* names and patterns of any length with any number of stars.
THEOREM PatternsAreObeyed == Spec => []ExcludesWhatPatternsCover
  BY InitFilterInv, NextFilterInv, PTL DEF Spec, FilterInv
=============================================================================

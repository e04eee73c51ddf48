--------------------------- MODULE Naming_proofs ---------------------------
(****************************************************************************)
(* Theorems about names, for any bytes and any length: the order of paths,  *)
(* what a pattern matches, and what is left of a name in a line.  The       *)
(* functions that the code calls recursively are unfolded place by place,   *)
(* by induction on the places.                                              *)
(****************************************************************************)
EXTENDS Naming, SequenceTheorems, FiniteSetTheorems, WellFoundedInduction, TLAPS
-----------------------------------------------------------------------------
(* The order of paths                                                       *)

Byte == IF caseSensitive THEN 1..255 ELSE 1..127
Place == Nat \ {0}

(* A byte of a as pathcasecmp() compares it, and which byte comes first     *)
K(a, j) == Key(At(a, j))
Rank(c) == IF c = 0 THEN 0 ELSE IF c = Slash THEN 1 ELSE Key(c) + 1

(* A set of numbers that is not empty has a smallest element.               *)
LEMMA LeastMember ==
  ASSUME NEW T \in SUBSET Nat, T # {}
  PROVE  \E m \in T : \A k \in T : m <= k
<1> DEFINE less == OpToRel(<, Nat)
<1>1. IsWellFoundedOn(less, Nat)
  BY NatLessThanWellFounded
<1>2. \A k, m \in Nat : k < m => <<k, m>> \in less
  BY DEF OpToRel
<1> HIDE DEF less
<1>3. PICK m \in T : \A k \in T : ~(<<k, m>> \in less)
  BY <1>1, WFMin
<1>4. m \in Nat /\ \A k \in T : k \in Nat /\ ~(k < m)
  BY <1>2, <1>3
<1>5. \A k \in T : m <= k
  BY <1>4
<1> QED
  BY <1>5

(* Numbers up to n, one after the other                                     *)
LEMMA UpTo ==
  ASSUME NEW n \in Nat, NEW G, 0 \in G, \A k \in 1..n : k - 1 \in G => k \in G
  PROVE  \A k \in 0..n : k \in G
<1> DEFINE T == { k \in 0..n : k \notin G }
<1>1. SUFFICES ASSUME T # {} PROVE FALSE
  OBVIOUS
<1>2. T \in SUBSET Nat
  OBVIOUS
<1>3. PICK m \in T : \A k \in T : m <= k
  <2> HIDE DEF T
  <2> QED
    BY <1>1, <1>2, LeastMember
<1>4. m \in 0..n /\ m \notin G /\ m # 0
  BY <1>3
<1>5. m \in 1..n /\ m - 1 \in 0..n /\ ~(m <= m - 1)
  BY <1>4
<1>6. m - 1 \in G
  BY <1>3, <1>5
<1> QED
  BY <1>4, <1>5, <1>6

LEMMA KeyIs ==
  ASSUME NEW c \in Byte \cup {0}
  PROVE  Key(c) \in 0..255 /\ (Key(c) = 0 <=> c = 0) /\ (Key(c) = Slash <=> c = Slash)
BY DEF Byte, Key, ToLower, Char, Slash

LEMMA AtIs ==
  ASSUME NEW a \in Seq(Byte), NEW j \in Place
  PROVE  At(a, j) \in Byte \cup {0} /\ (At(a, j) = 0 <=> j > Len(a))
<1>1. Len(a) \in Nat /\ \A i \in 1..Len(a) : a[i] \in Byte
  OBVIOUS
<1>2. 0 \notin Byte
  BY DEF Byte
<1>3. CASE j <= Len(a)
  <2>1. a[j] \in Byte
    BY <1>1, <1>3 DEF Place
  <2> QED
    BY <1>1, <1>2, <1>3, <2>1 DEF At, Place
<1>4. CASE ~(j <= Len(a))
  BY <1>1, <1>4 DEF At, Place
<1> QED
  BY <1>1, <1>3, <1>4 DEF Place

LEMMA KIs ==
  ASSUME NEW a \in Seq(Byte), NEW j \in Place
  PROVE  K(a, j) \in 0..255 /\ (K(a, j) = 0 <=> j > Len(a)) /\ (K(a, j) = Slash <=> At(a, j) = Slash)
BY AtIs, KeyIs DEF K

LEMMA RankIs ==
  ASSUME NEW c \in Byte \cup {0}, NEW d \in Byte \cup {0}
  PROVE  /\ Rank(c) \in Nat /\ (Rank(c) <= 1 <=> c \in {0, Slash})
         /\ Key(c) = Key(d) <=> Rank(c) = Rank(d)
<1>1. Key(c) \in 0..255 /\ (Key(c) = 0 <=> c = 0) /\ (Key(c) = Slash <=> c = Slash)
  BY KeyIs
<1>2. Key(d) \in 0..255 /\ (Key(d) = 0 <=> d = 0) /\ (Key(d) = Slash <=> d = Slash)
  BY KeyIs
<1> DEFINE k == Key(c)
           l == Key(d)
<1>3. k \in 0..255 /\ (k = 0 <=> c = 0) /\ (k = 47 <=> c = 47)
  BY <1>1 DEF Slash
<1>4. l \in 0..255 /\ (l = 0 <=> d = 0) /\ (l = 47 <=> d = 47)
  BY <1>2 DEF Slash
<1>5. /\ Rank(c) = IF c = 0 THEN 0 ELSE IF c = 47 THEN 1 ELSE k + 1
      /\ Rank(d) = IF d = 0 THEN 0 ELSE IF d = 47 THEN 1 ELSE l + 1
  BY DEF Rank, Slash
<1> HIDE DEF k, l
<1>6. Rank(c) \in Nat /\ (Rank(c) <= 1 <=> c \in {0, 47})
  BY <1>3, <1>5
<1>7. k = l <=> Rank(c) = Rank(d)
  BY <1>3, <1>4, <1>5
<1> QED
  BY <1>6, <1>7 DEF k, l, Slash

(* Where two strings differ first                                           *)
DiffersAt(a, b, i) == i \in Place /\ K(a, i) # K(b, i) /\ \A j \in 1..(i - 1) : K(a, j) = K(b, j)
Alike(a, b) == \A j \in Place : K(a, j) = K(b, j)

LEMMA FirstDiffIs ==
  ASSUME NEW a \in Seq(Byte), NEW b \in Seq(Byte)
  PROVE  LET i == FirstDiff(a, b, Key)
         IN  (i = 0 /\ Alike(a, b)) \/ DiffersAt(a, b, i)
<1> DEFINE n == Len(a) + Len(b) + 1
           T == { i \in 1..n : K(a, i) # K(b, i) }
<1>0. Len(a) \in Nat /\ Len(b) \in Nat
  OBVIOUS
<1>1. FirstDiff(a, b, Key) = IF T = {} THEN 0 ELSE CHOOSE i \in T : \A j \in T : i <= j
  BY DEF FirstDiff, K
<1>2. ASSUME T = {} PROVE Alike(a, b)
  <2>1. ASSUME NEW j \in Place, j > n PROVE K(a, j) = K(b, j)
    <3>1. j > Len(a) /\ j > Len(b)
      BY <1>0, <2>1 DEF Place
    <3> QED
      BY <3>1 DEF K, At
  <2> QED
    BY <1>0, <1>2, <2>1 DEF Alike, Place
<1>3. ASSUME T # {} PROVE DiffersAt(a, b, CHOOSE i \in T : \A j \in T : i <= j)
  <2> DEFINE m == CHOOSE i \in T : \A j \in T : i <= j
  <2>1. T \in SUBSET Nat
    OBVIOUS
  <2> HIDE DEF T
  <2>2. m \in T /\ \A j \in T : m <= j
    BY <1>3, <2>1, LeastMember
  <2> HIDE DEF m
  <2>3. m \in 1..n /\ K(a, m) # K(b, m) /\ \A j \in 1..n : K(a, j) # K(b, j) => m <= j
    BY <2>2 DEF T
  <2>4. DiffersAt(a, b, m)
    BY <1>0, <2>3 DEF DiffersAt, Place
  <2> QED
    BY <2>4 DEF m
<1> HIDE DEF T
<1> QED
  BY <1>1, <1>2, <1>3

LEMMA DiffersOnce ==
  ASSUME NEW a, NEW b, NEW i, DiffersAt(a, b, i)
  PROVE  ~Alike(a, b) /\ \A j : DiffersAt(a, b, j) => j = i
BY DEF DiffersAt, Alike, Place

(* a comes before b                                                         *)
Before(a, b) == \E i \in Place : DiffersAt(a, b, i) /\ Rank(At(a, i)) < Rank(At(b, i))

LEMMA CmpIs ==
  ASSUME NEW a \in Seq(Byte), NEW b \in Seq(Byte)
  PROVE  /\ PathCaseCmp(a, b) \in Int
         /\ PathCaseCmp(a, b) = 0 <=> Alike(a, b)
         /\ PathCaseCmp(a, b) < 0 <=> Before(a, b)
         /\ PathCaseCmp(a, b) > 0 <=> Before(b, a)
<1> DEFINE i == FirstDiff(a, b, Key)
<1>1. (i = 0 /\ Alike(a, b)) \/ DiffersAt(a, b, i)
  BY FirstDiffIs
<1>2. PathCaseCmp(a, b) = CASE i = 0 -> 0
                            [] i # 0 /\ At(b, i) # 0 /\ At(a, i) = Slash -> -1
                            [] i # 0 /\ At(a, i) # 0 /\ At(b, i) = Slash -> 1
                            [] OTHER -> K(a, i) - K(b, i)
  BY DEF PathCaseCmp, K
<1> HIDE DEF i
<1>3. CASE i = 0 /\ Alike(a, b)
  <2>1. ~Before(a, b) /\ ~Before(b, a)
    BY <1>3 DEF Before, DiffersAt, Alike
  <2> QED
    BY <1>2, <1>3, <2>1
<1>4. CASE DiffersAt(a, b, i)
  <2> DEFINE c == At(a, i)
             d == At(b, i)
  <2>1. i \in Place /\ i # 0 /\ ~Alike(a, b)
    BY <1>4, DiffersOnce DEF DiffersAt, Place
  <2>2. c \in Byte \cup {0} /\ d \in Byte \cup {0}
    BY <2>1, AtIs
  <2>9. Key(c) # Key(d)
    BY <1>4 DEF DiffersAt, K
  <2>3. Before(a, b) <=> Rank(c) < Rank(d)
    BY <1>4, <2>1, DiffersOnce DEF Before
  <2>4. DiffersAt(b, a, i)
    BY <1>4 DEF DiffersAt
  <2>5. Before(b, a) <=> Rank(d) < Rank(c)
    BY <2>1, <2>4, DiffersOnce DEF Before
  <2>6. PathCaseCmp(a, b) = CASE d # 0 /\ c = Slash -> -1
                              [] c # 0 /\ d = Slash -> 1
                              [] OTHER -> Key(c) - Key(d)
    BY <1>2, <2>1 DEF K
  <2> HIDE DEF c, d
  <2>7. /\ Key(c) \in 0..255 /\ (Key(c) = 0 <=> c = 0) /\ (Key(c) = Slash <=> c = Slash)
        /\ Key(d) \in 0..255 /\ (Key(d) = 0 <=> d = 0) /\ (Key(d) = Slash <=> d = Slash)
    BY <2>2, KeyIs
  <2> DEFINE k == Key(c)
             l == Key(d)
             z == PathCaseCmp(a, b)
  <2>8. k \in 0..255 /\ (k = 0 <=> c = 0) /\ (k = 47 <=> c = 47) /\ k # l
    BY <2>7, <2>9 DEF Slash
  <2>10. l \in 0..255 /\ (l = 0 <=> d = 0) /\ (l = 47 <=> d = 47)
    BY <2>7 DEF Slash
  <2>11. /\ Rank(c) = IF c = 0 THEN 0 ELSE IF c = 47 THEN 1 ELSE k + 1
         /\ Rank(d) = IF d = 0 THEN 0 ELSE IF d = 47 THEN 1 ELSE l + 1
    BY DEF Rank, Slash
  <2>12. z = IF d # 0 /\ c = 47 THEN -1 ELSE IF c # 0 /\ d = 47 THEN 1 ELSE k - l
    BY <2>6, <2>8, <2>10 DEF Slash
  <2> HIDE DEF k, l, z
  <2>13. /\ z \in Int /\ z # 0
         /\ z < 0 <=> Rank(c) < Rank(d)
         /\ z > 0 <=> Rank(d) < Rank(c)
    BY <2>8, <2>10, <2>11, <2>12
  <2> QED
    BY <2>1, <2>3, <2>5, <2>13 DEF z
<1> QED
  BY <1>1, <1>3, <1>4

(* The order is that of the ranks, byte by byte                             *)
R(a, j) == Rank(At(a, j))

LEMMA RIs ==
  ASSUME NEW a \in Seq(Byte), NEW b \in Seq(Byte), NEW j \in Place
  PROVE  /\ R(a, j) \in Nat /\ (R(a, j) <= 1 <=> At(a, j) \in {0, Slash})
         /\ K(a, j) = K(b, j) <=> R(a, j) = R(b, j)
<1>1. At(a, j) \in Byte \cup {0} /\ At(b, j) \in Byte \cup {0}
  BY AtIs
<1> QED
  BY <1>1, RankIs DEF R, K

LEMMA BeforeIs ==
  ASSUME NEW a \in Seq(Byte), NEW b \in Seq(Byte)
  PROVE  Before(a, b) <=> \E i \in Place : R(a, i) < R(b, i) /\ \A j \in 1..(i - 1) : R(a, j) = R(b, j)
<1>1. \A i \in Place : \A j \in 1..(i - 1) : j \in Place
  BY DEF Place
<1>2. \A i \in Place : R(a, i) \in Nat /\ R(b, i) \in Nat /\ (K(a, i) = K(b, i) <=> R(a, i) = R(b, i))
  BY RIs
<1>3. \A i \in Place : R(a, i) < R(b, i) => K(a, i) # K(b, i)
  BY <1>2
<1> QED
  BY <1>1, <1>2, <1>3 DEF Before, DiffersAt, R

(* a does not come after b                                                  *)
NotAfter(a, b) == Alike(a, b) \/ Before(a, b)

LEMMA NotAfterIs ==
  ASSUME NEW a \in Seq(Byte), NEW b \in Seq(Byte)
  PROVE  /\ NotAfter(a, b) <=> PathCaseCmp(a, b) <= 0
         /\ NotAfter(a, b) <=> ~Before(b, a)
<1> DEFINE z == PathCaseCmp(a, b)
<1>1. z \in Int /\ (z = 0 <=> Alike(a, b)) /\ (z < 0 <=> Before(a, b)) /\ (z > 0 <=> Before(b, a))
  BY CmpIs
<1> HIDE DEF z
<1> QED
  BY <1>1 DEF NotAfter, z

LEMMA SignTurns ==
  ASSUME NEW a \in Seq(Byte), NEW b \in Seq(Byte)
  PROVE  Sign(PathCaseCmp(a, b)) = -Sign(PathCaseCmp(b, a))
<1> DEFINE z == PathCaseCmp(a, b)
           y == PathCaseCmp(b, a)
<1>1. z \in Int /\ (z = 0 <=> Alike(a, b)) /\ (z < 0 <=> Before(a, b)) /\ (z > 0 <=> Before(b, a))
  BY CmpIs
<1>2. y \in Int /\ (y = 0 <=> Alike(b, a)) /\ (y < 0 <=> Before(b, a)) /\ (y > 0 <=> Before(a, b))
  BY CmpIs
<1>3. Alike(a, b) <=> Alike(b, a)
  BY DEF Alike
<1> HIDE DEF z, y
<1>4. Sign(z) = -Sign(y)
  BY <1>1, <1>2, <1>3 DEF Sign
<1> QED
  BY <1>4 DEF z, y

(* Two strings in order do not fall behind after what they have in common   *)
LEMMA NextInOrder ==
  ASSUME NEW a \in Seq(Byte), NEW b \in Seq(Byte), NotAfter(a, b), NEW i \in Place,
         \A j \in 1..(i - 1) : R(a, j) = R(b, j)
  PROVE  R(a, i) <= R(b, i)
<1>1. R(a, i) \in Nat /\ R(b, i) \in Nat
  BY RIs
<1>2. ASSUME R(b, i) < R(a, i) PROVE FALSE
  <2>1. Before(b, a)
    BY <1>2, BeforeIs
  <2> QED
    BY <2>1, NotAfterIs
<1> QED
  BY <1>1, <1>2

(* What lies between two strings that begin alike begins so, too            *)
LEMMA Between ==
  ASSUME NEW a \in Seq(Byte), NEW b \in Seq(Byte), NEW c \in Seq(Byte), NEW n \in Nat,
         NotAfter(a, b), NotAfter(b, c), \A j \in 1..n : R(a, j) = R(c, j)
  PROVE  \A j \in 1..n : R(a, j) = R(b, j)
<1> DEFINE T == { j \in 1..n : R(a, j) # R(b, j) }
<1>1. SUFFICES ASSUME T # {} PROVE FALSE
  OBVIOUS
<1>2. T \in SUBSET Nat
  OBVIOUS
<1> HIDE DEF T
<1>3. PICK m \in T : \A k \in T : m <= k
  BY <1>1, <1>2, LeastMember
<1>4. m \in Place /\ m \in 1..n /\ R(a, m) # R(b, m) /\ \A j \in 1..(m - 1) : R(a, j) = R(b, j)
  BY <1>3 DEF T, Place
<1>5. R(a, m) <= R(b, m)
  BY <1>4, NextInOrder
<1>6. \A j \in 1..(m - 1) : R(b, j) = R(c, j)
  BY <1>4
<1>7. R(b, m) <= R(c, m)
  BY <1>4, <1>6, NextInOrder
<1>8. R(a, m) = R(c, m) /\ R(a, m) \in Nat /\ R(b, m) \in Nat
  BY <1>4, RIs
<1> QED
  BY <1>4, <1>5, <1>7, <1>8

LEMMA Transitive ==
  ASSUME NEW a \in Seq(Byte), NEW b \in Seq(Byte), NEW c \in Seq(Byte),
         NotAfter(a, b), NotAfter(b, c)
  PROVE  NotAfter(a, c)
<1>1. SUFFICES ASSUME Before(c, a) PROVE FALSE
  BY NotAfterIs
<1>2. PICK m \in Place : R(c, m) < R(a, m) /\ \A j \in 1..(m - 1) : R(c, j) = R(a, j)
  BY <1>1, BeforeIs
<1>3. m - 1 \in Nat /\ \A j \in 1..(m - 1) : R(a, j) = R(c, j)
  BY <1>2 DEF Place
<1>4. \A j \in 1..(m - 1) : R(a, j) = R(b, j)
  BY <1>3, Between, SMTT(20), ZenonT(30)
<1>5. R(a, m) <= R(b, m)
  BY <1>4, NextInOrder
<1>6. \A j \in 1..(m - 1) : R(b, j) = R(c, j)
  BY <1>3, <1>4
<1>7. R(b, m) <= R(c, m)
  BY <1>6, NextInOrder
<1>8. R(a, m) \in Nat /\ R(b, m) \in Nat /\ R(c, m) \in Nat
  BY RIs
<1> QED
  BY <1>2, <1>5, <1>7, <1>8

(* strcmp() and strcasecmp() find the same first difference                 *)
LEMMA PlainCmpIs ==
  ASSUME NEW a \in Seq(Byte), NEW b \in Seq(Byte)
  PROVE  /\ Cmp(a, b) = 0 <=> Alike(a, b)
         /\ Cmp(a, b) < 0 => \E i \in Place : K(a, i) < K(b, i) /\ \A j \in 1..(i - 1) : K(a, j) = K(b, j)
<1> DEFINE n == Len(a) + Len(b) + 1
           Ord(c) == IF caseSensitive THEN c ELSE ToLower(c)
           S == { i \in 1..n : Ord(At(a, i)) # Ord(At(b, i)) }
           T == { i \in 1..n : K(a, i) # K(b, i) }
           m == IF S = {} THEN 0 ELSE CHOOSE i \in S : \A j \in S : i <= j
           k == FirstDiff(a, b, Key)
<1>0. Len(a) \in Nat /\ Len(b) \in Nat
  OBVIOUS
<1>1. \A j \in Place : K(a, j) = Ord(At(a, j)) /\ K(b, j) = Ord(At(b, j))
  <2>1. ASSUME NEW c \in Byte \cup {0} PROVE Key(c) = Ord(c)
    BY DEF Key, Byte, Char
  <2>2. \A j \in Place : At(a, j) \in Byte \cup {0} /\ At(b, j) \in Byte \cup {0}
    BY AtIs
  <2> HIDE DEF Ord
  <2> QED
    BY <2>1, <2>2 DEF K
<1>2. Cmp(a, b) = IF m = 0 THEN 0 ELSE Ord(At(a, m)) - Ord(At(b, m))
  BY DEF Cmp, FirstDiff
<1>3. S = T
  <2>1. \A i \in 1..n : i \in Place
    BY <1>0 DEF Place
  <2> HIDE DEF Ord
  <2> QED
    BY <1>1, <2>1
<1>4. k = IF T = {} THEN 0 ELSE CHOOSE i \in T : \A j \in T : i <= j
  BY DEF FirstDiff, K
<1>5. m = k
  <2> HIDE DEF S, T, k
  <2> QED
    BY <1>3, <1>4
<1>6. (k = 0 /\ Alike(a, b)) \/ DiffersAt(a, b, k)
  BY FirstDiffIs
<1> HIDE DEF m, k, Ord
<1>7. CASE k = 0 /\ Alike(a, b)
  <2>1. Cmp(a, b) = 0
    BY <1>2, <1>5, <1>7
  <2> QED
    BY <1>7, <2>1
<1>8. CASE DiffersAt(a, b, k)
  <2>1. k \in Place /\ k # 0 /\ ~Alike(a, b) /\ K(a, k) # K(b, k)
        /\ \A j \in 1..(k - 1) : K(a, j) = K(b, j)
    BY <1>8, DiffersOnce DEF DiffersAt, Place
  <2>2. Cmp(a, b) = K(a, k) - K(b, k)
    BY <1>1, <1>2, <1>5, <2>1
  <2> DEFINE x == K(a, k)
             y == K(b, k)
  <2>3. x \in 0..255 /\ y \in 0..255
    BY <2>1, KIs
  <2> HIDE DEF x, y
  <2>4. Cmp(a, b) = x - y /\ x # y
    BY <2>1, <2>2 DEF x, y
  <2>5. Cmp(a, b) # 0 /\ (Cmp(a, b) < 0 => x < y)
    BY <2>3, <2>4
  <2> QED
    BY <2>1, <2>5 DEF x, y
<1> QED
  BY <1>6, <1>7, <1>8

LEMMA IsChildIs ==
  ASSUME NEW a \in Seq(Byte), NEW b \in Seq(Byte), b # <<Slash>>
  PROVE  IsChildCase(a, b) <=> /\ Len(b) <= Len(a)
                               /\ \A j \in 1..Len(b) : K(a, j) = K(b, j)
                               /\ At(a, Len(b) + 1) \in {Slash, 0}
<1> DEFINE L == Len(b)
           s == SubSeq(a, 1, L)
<1>0. Len(a) \in Nat /\ L \in Nat
  OBVIOUS
<1>1. IsChildCase(a, b) <=> L <= Len(a) /\ Cmp(s, b) = 0 /\ At(a, L + 1) \in {Slash, 0}
  BY DEF IsChildCase
<1>2. SUFFICES ASSUME L <= Len(a) PROVE Cmp(s, b) = 0 <=> \A j \in 1..L : K(a, j) = K(b, j)
  BY <1>1
<1>3. s \in Seq(Byte) /\ Len(s) = L /\ \A j \in 1..L : s[j] = a[j]
  <2>1. L \in 0..Len(a)
    BY <1>0, <1>2
  <2>2. \A j \in 1..L : j \in 1..Len(a)
    BY <1>0, <1>2
  <2> QED
    BY <2>1, <2>2, SubSeqProperties
<1>4. \A j \in Place : /\ j <= L => K(s, j) = K(a, j)
                       /\ j > L => K(s, j) = K(b, j)
  <2> HIDE DEF s
  <2> QED
    BY <1>0, <1>2, <1>3 DEF K, At, Place
<1>5. Cmp(s, b) = 0 <=> \A j \in Place : K(s, j) = K(b, j)
  BY <1>3, PlainCmpIs DEF Alike
<1>6. \A j \in 1..L : j \in Place /\ j <= L
  BY <1>0 DEF Place
<1>7. \A j \in Place : j > L \/ j \in 1..L
  BY <1>0 DEF Place
<1> HIDE DEF s, L
<1> QED
  BY <1>4, <1>5, <1>6, <1>7

LEMMA ContiguousIs ==
  ASSUME NEW a \in Seq(Byte), NEW b \in Seq(Byte), NEW c \in Seq(Byte),
         IsChildCase(c, a)
  PROVE  /\ NotAfter(a, c)
         /\ NotAfter(a, b) /\ NotAfter(b, c) => IsChildCase(b, a)
<1> DEFINE L == Len(a)
<1>0. L \in Nat /\ Len(b) \in Nat /\ Len(c) \in Nat /\ L + 1 \in Place
  BY DEF Place
<1>1. /\ L <= Len(c) /\ \A j \in 1..L : K(a, j) = K(c, j)
      /\ a # <<Slash>> => At(c, L + 1) \in {Slash, 0}
  <2>1. CASE a = <<Slash>>
    <3>1. L = 1 /\ L <= Len(c) /\ At(c, 1) = Slash /\ At(a, 1) = Slash
      BY <2>1 DEF IsChildCase, At
    <3> QED
      BY <2>1, <3>1 DEF K
  <2>2. CASE a # <<Slash>>
    BY <2>2, IsChildIs
  <2> QED
    BY <2>1, <2>2
<1>2. \A j \in 1..L : j \in Place
  BY <1>0 DEF Place
<1>3. \A j \in 1..L : R(a, j) = R(c, j)
  BY <1>1, <1>2, RIs
<1>4. R(a, L + 1) = 0
  <2>1. At(a, L + 1) = 0
    BY <1>0 DEF At
  <2> QED
    BY <2>1 DEF R, Rank
<1>5. NotAfter(a, c)
  <2>1. SUFFICES ASSUME Before(c, a) PROVE FALSE
    BY NotAfterIs
  <2>2. PICK m \in Place : R(c, m) < R(a, m) /\ \A j \in 1..(m - 1) : R(c, j) = R(a, j)
    BY <2>1, BeforeIs
  <2>3. CASE m <= L
    <3>1. m \in 1..L /\ R(a, m) \in Nat
      BY <1>0, <2>2, <2>3, RIs DEF Place
    <3> QED
      BY <1>3, <2>2, <3>1
  <2>4. CASE m > L
    <3>1. At(a, m) = 0
      BY <2>4 DEF At
    <3>2. R(a, m) = 0 /\ R(c, m) \in Nat
      BY <3>1, RIs DEF R, Rank
    <3> QED
      BY <2>2, <3>2
  <2> QED
    BY <1>0, <2>2, <2>3, <2>4 DEF Place
<1>6. ASSUME NotAfter(a, b), NotAfter(b, c) PROVE IsChildCase(b, a)
  <2>1. \A j \in 1..L : R(a, j) = R(b, j)
    BY <1>0, <1>3, <1>6, Between, SMTT(20), ZenonT(30)
  <2>2. \A j \in 1..L : K(a, j) = K(b, j)
    BY <1>2, <2>1, RIs
  <2>3. L <= Len(b)
    <3>1. ASSUME Len(b) < L PROVE FALSE
      <4>1. L \in Place /\ L \in 1..L
        BY <1>0, <3>1 DEF Place
      <4>2. K(b, L) = 0 /\ K(a, L) # 0
        BY <1>0, <3>1, <4>1, KIs
      <4> QED
        BY <2>2, <4>1, <4>2
    <3> QED
      BY <1>0, <3>1
  <2>4. CASE a = <<Slash>>
    <3>1. L = 1 /\ At(a, 1) = Slash /\ 1 \in Place
      BY <2>4 DEF At, Place
    <3>2. K(b, 1) = K(a, 1)
      BY <2>2, <3>1
    <3>3. At(b, 1) = Slash
      BY <3>1, <3>2, KIs
    <3> QED
      BY <2>3, <2>4, <3>1, <3>3 DEF IsChildCase
  <2>5. CASE a # <<Slash>>
    <3>1. \A j \in 1..((L + 1) - 1) : R(b, j) = R(c, j)
      BY <1>0, <1>3, <2>1
    <3>2. R(b, L + 1) <= R(c, L + 1)
      BY <1>0, <1>6, <3>1, NextInOrder
    <3>3. R(c, L + 1) <= 1
      BY <1>0, <1>1, <2>5, RIs
    <3>4. R(b, L + 1) <= 1
      BY <1>0, <3>2, <3>3, RIs
    <3>5. At(b, L + 1) \in {Slash, 0}
      BY <1>0, <3>4, RIs
    <3> QED
      BY <2>2, <2>3, <2>5, <3>5, IsChildIs
  <2> QED
    BY <2>4, <2>5
<1> QED
  BY <1>5, <1>6

(* A path below a directory, byte by byte                                   *)
LEMMA ChildIs ==
  ASSUME NEW d \in Seq(Byte), NEW s \in Seq(Byte)
  PROVE  /\ Child(d, s) \in Seq(Byte)
         /\ \A j \in Place : At(Child(d, s), j) = IF j <= Len(d) THEN At(d, j)
                                                  ELSE IF j = Len(d) + 1 THEN Slash
                                                  ELSE At(s, j - Len(d) - 1)
<1> DEFINE u == d \o <<Slash>>
           v == u \o s
<1>1. Slash \in Byte /\ <<Slash>> \in Seq(Byte)
  <2>1. Slash \in Byte
    BY DEF Slash, Byte
  <2> QED
    BY <2>1
<1>2. Len(d) \in Nat /\ Len(s) \in Nat
  OBVIOUS
<1>3. u \in Seq(Byte) /\ Len(u) = Len(d) + 1
      /\ \A j \in 1..(Len(d) + 1) : u[j] = IF j <= Len(d) THEN d[j] ELSE Slash
  <2>1. u \in Seq(Byte)
    BY <1>1, ConcatProperties
  <2>2. Len(u) = Len(d) + 1
    BY <1>1, ConcatProperties
  <2>3. \A j \in 1..(Len(d) + 1) : u[j] = IF j <= Len(d) THEN d[j] ELSE Slash
    BY <1>1, <1>2, ConcatProperties
  <2> QED
    BY <2>1, <2>2, <2>3
<1> HIDE DEF u
<1>4. v \in Seq(Byte) /\ Len(v) = Len(u) + Len(s)
      /\ \A j \in 1..(Len(u) + Len(s)) : v[j] = IF j <= Len(u) THEN u[j] ELSE s[j - Len(u)]
  BY <1>3, ConcatProperties
<1>5. Child(d, s) = v
  BY DEF Child, u
<1> HIDE DEF v
<1>6. \A j \in Place : At(v, j) = IF j <= Len(d) THEN At(d, j)
                                  ELSE IF j = Len(d) + 1 THEN Slash
                                  ELSE At(s, j - Len(d) - 1)
  <2> TAKE j \in Place
  <2>1. CASE j <= Len(d) + 1
    <3>1. v[j] = u[j] /\ j \in 1..(Len(d) + 1) /\ j \in 1..Len(v)
      BY <1>2, <1>3, <1>4, <2>1 DEF Place
    <3> QED
      BY <1>2, <1>3, <3>1, <2>1 DEF At, Place
  <2>2. CASE j > Len(d) + 1 /\ j <= Len(v)
    <3>1. v[j] = s[j - (Len(d) + 1)] /\ j - Len(d) - 1 \in 1..Len(s) /\ j \in 1..Len(v)
          /\ j - (Len(d) + 1) = j - Len(d) - 1
      BY <1>2, <1>3, <1>4, <2>2 DEF Place
    <3> QED
      BY <1>2, <2>2, <3>1 DEF At, Place
  <2>3. CASE j > Len(v)
    <3>1. j > Len(d) + 1 /\ ~(j - Len(d) - 1 \in 1..Len(s)) /\ ~(j \in 1..Len(v))
      BY <1>2, <1>3, <1>4, <2>3 DEF Place
    <3> QED
      BY <1>2, <3>1 DEF At, Place
  <2> QED
    BY <1>2, <1>3, <1>4, <2>1, <2>2, <2>3 DEF Place
<1> QED
  BY <1>4, <1>5, <1>6

(* The names of a directory in order, and what is below them                *)
LEMMA WalkIs ==
  ASSUME NEW a \in Seq(Byte), NEW b \in Seq(Byte), NEW c \in Seq(Byte),
         Name(a), Name(b), Cmp(a, b) < 0
  PROVE  /\ PathCaseCmp(Child(<<46>>, a), Child(<<46>>, b)) < 0
         /\ PathCaseCmp(Child(a, c), b) < 0
<1>0. Len(a) \in Nat /\ Len(b) \in Nat
  OBVIOUS
<1>1. PICK i \in Place : K(a, i) < K(b, i) /\ \A j \in 1..(i - 1) : K(a, j) = K(b, j)
  BY PlainCmpIs
<1>2. \A j \in Place : At(a, j) # Slash /\ At(b, j) # Slash
  BY <1>0 DEF Name, At, Slash
<1>3. /\ K(a, i) \in Nat /\ K(b, i) \in Nat
      /\ R(a, i) = (IF K(a, i) = 0 THEN 0 ELSE K(a, i) + 1)
      /\ R(b, i) = (IF K(b, i) = 0 THEN 0 ELSE K(b, i) + 1)
  <2>1. At(a, i) \in Byte \cup {0} /\ At(b, i) \in Byte \cup {0}
    BY AtIs
  <2> DEFINE c1 == At(a, i)
             c2 == At(b, i)
  <2> HIDE DEF c1, c2
  <2>3. c1 \in Byte \cup {0} /\ c2 \in Byte \cup {0}
    BY <2>1 DEF c1, c2
  <2>4. Key(c1) \in 0..255 /\ (Key(c1) = 0 <=> c1 = 0)
    BY <2>3, KeyIs
  <2>5. Key(c2) \in 0..255 /\ (Key(c2) = 0 <=> c2 = 0)
    BY <2>3, KeyIs
  <2>6. Key(c1) \in Nat /\ Key(c2) \in Nat
    <3>1. \A n \in 0..255 : n \in Nat
      OBVIOUS
    <3> QED
      BY <2>4, <2>5, <3>1
  <2>2. (Key(At(a, i)) = 0 <=> At(a, i) = 0) /\ (Key(At(b, i)) = 0 <=> At(b, i) = 0)
        /\ Key(At(a, i)) \in Nat /\ Key(At(b, i)) \in Nat
    BY <2>4, <2>5, <2>6 DEF c1, c2
  <2> QED
    BY <1>2, <2>2 DEF R, Rank, K
<1>4. R(a, i) < R(b, i) /\ R(b, i) > 1
  BY <1>1, <1>3
<1>5. \A j \in 1..(i - 1) : j \in Place /\ R(a, j) = R(b, j)
  <2>1. \A j \in 1..(i - 1) : j \in Place
    BY DEF Place
  <2> QED
    BY <1>1, <2>1, RIs
<1>6. i <= Len(a) + 1 /\ i <= Len(b)
  <2>1. K(b, i) # 0
    BY <1>1, <1>3
  <2>2. i <= Len(b)
    BY <1>0, <2>1, KIs DEF Place
  <2>3. ASSUME i > Len(a) + 1 PROVE FALSE
    <3>1. Len(a) + 1 \in 1..(i - 1) /\ Len(a) + 1 \in Place /\ Len(a) + 1 <= Len(b)
      BY <1>0, <2>2, <2>3 DEF Place
    <3>2. K(a, Len(a) + 1) = 0 /\ K(b, Len(a) + 1) # 0
      BY <1>0, <3>1, KIs
    <3> QED
      BY <1>1, <3>1, <3>2
  <2> QED
    BY <1>0, <2>2, <2>3 DEF Place
<1>7. PathCaseCmp(Child(<<46>>, a), Child(<<46>>, b)) < 0
  <2> DEFINE x == Child(<<46>>, a)
             y == Child(<<46>>, b)
  <2> DEFINE e == <<46>>
  <2>1. e \in Seq(Byte) /\ Len(e) = 1
    <3>1. 46 \in Byte
      BY DEF Byte
    <3> QED
      BY <3>1
  <2> HIDE DEF e
  <2>2. /\ x \in Seq(Byte) /\ y \in Seq(Byte)
        /\ \A j \in Place : j <= 2 => At(x, j) = At(y, j)
        /\ \A j \in Place : j > 2 => At(x, j) = At(a, j - 1 - 1) /\ At(y, j) = At(b, j - 1 - 1)
    <3>1. /\ Child(e, a) \in Seq(Byte)
          /\ \A j \in Place : At(Child(e, a), j) = (IF j <= Len(e) THEN At(e, j)
                                                  ELSE IF j = Len(e) + 1 THEN Slash
                                                  ELSE At(a, j - Len(e) - 1))
      BY <2>1, ChildIs
    <3>2. /\ Child(e, b) \in Seq(Byte)
          /\ \A j \in Place : At(Child(e, b), j) = (IF j <= Len(e) THEN At(e, j)
                                                  ELSE IF j = Len(e) + 1 THEN Slash
                                                  ELSE At(b, j - Len(e) - 1))
      BY <2>1, ChildIs
    <3>3. x = Child(e, a) /\ y = Child(e, b)
      BY DEF e
    <3> HIDE DEF x, y
    <3>4. \A j \in Place : j <= 2 => j = 1 \/ j = 2
      BY DEF Place
    <3>5. \A j \in Place : j > 2 => ~(j <= 1) /\ j # 1 + 1
      BY DEF Place
    <3>6. \A j \in Place : j <= 2 => At(x, j) = At(y, j)
      <4>1. 1 \in Place /\ 2 \in Place
        BY DEF Place
      <4>2. At(x, 1) = At(e, 1) /\ At(y, 1) = At(e, 1)
        BY <2>1, <3>1, <3>2, <3>3, <4>1
      <4>3. At(x, 2) = Slash /\ At(y, 2) = Slash
        BY <2>1, <3>1, <3>2, <3>3, <4>1
      <4> QED
        BY <3>4, <4>2, <4>3
    <3>7. \A j \in Place : j > 2 => At(x, j) = At(a, j - 1 - 1) /\ At(y, j) = At(b, j - 1 - 1)
      BY <2>1, <3>1, <3>2, <3>3, <3>5
    <3> QED
      BY <3>1, <3>2, <3>3, <3>6, <3>7
  <2> HIDE DEF x, y
  <2>3. i + 2 \in Place /\ i + 2 - 1 - 1 = i /\ i + 2 > 2
    BY DEF Place
  <2>4. At(x, i + 2) = At(a, i) /\ At(y, i + 2) = At(b, i)
    BY <2>2, <2>3 DEF Place
  <2>5. ASSUME NEW j \in 1..((i + 2) - 1) PROVE R(x, j) = R(y, j)
    <3>1. j \in Place
      BY DEF Place
    <3>2. CASE j <= 2
      <4>1. At(x, j) = At(y, j)
        BY <2>2, <3>1, <3>2
      <4> QED
        BY <4>1 DEF R
    <3>3. CASE j > 2
      <4>1. j - 1 - 1 \in 1..(i - 1)
        BY <3>3 DEF Place
      <4>2. At(x, j) = At(a, j - 1 - 1) /\ At(y, j) = At(b, j - 1 - 1)
        BY <2>2, <3>1, <3>3
      <4>3. R(a, j - 1 - 1) = R(b, j - 1 - 1)
        BY <1>5, <4>1
      <4> QED
        BY <4>2, <4>3 DEF R
    <3> QED
      BY <3>1, <3>2, <3>3 DEF Place
  <2>6. R(x, i + 2) < R(y, i + 2)
    BY <1>4, <2>4 DEF R
  <2>7. Before(x, y)
    BY <2>2, <2>3, <2>5, <2>6, BeforeIs
  <2> QED
    BY <2>2, <2>7, CmpIs DEF x, y
<1>8. PathCaseCmp(Child(a, c), b) < 0
  <2> DEFINE x == Child(a, c)
  <2>1. /\ x \in Seq(Byte)
        /\ \A j \in Place : At(x, j) = (IF j <= Len(a) THEN At(a, j)
                                        ELSE IF j = Len(a) + 1 THEN Slash ELSE At(c, j - Len(a) - 1))
    BY ChildIs
  <2> HIDE DEF x
  <2>2. \A j \in 1..(i - 1) : At(x, j) = At(a, j)
    <3>1. \A j \in 1..(i - 1) : j \in Place /\ j <= Len(a)
      BY <1>0, <1>6 DEF Place
    <3> QED
      BY <2>1, <3>1
  <2>3. \A j \in 1..(i - 1) : R(x, j) = R(b, j)
    BY <1>5, <2>2 DEF R
  <2>4. R(x, i) < R(b, i)
    <3>1. CASE i <= Len(a)
      <4>1. At(x, i) = At(a, i)
        BY <2>1, <3>1
      <4> QED
        BY <1>4, <4>1 DEF R
    <3>2. CASE i = Len(a) + 1
      <4>1. At(x, i) = Slash
        BY <1>0, <2>1, <3>2
      <4>2. R(x, i) = 1
        BY <4>1 DEF R, Rank, Slash
      <4> QED
        BY <1>3, <1>4, <4>2
    <3> QED
      BY <1>0, <1>6, <3>1, <3>2 DEF Place
  <2>5. Before(x, b)
    BY <2>1, <2>3, <2>4, BeforeIs
  <2> QED
    BY <2>1, <2>5, CmpIs DEF x
<1> QED
  BY <1>7, <1>8

LEMMA OrderOfStrings ==
  ASSUME p1 \in Seq(Byte), p2 \in Seq(Byte), p3 \in Seq(Byte)
  PROVE  OrderSound
<1>1. TotalOrder
  BY SignTurns, Transitive, NotAfterIs DEF TotalOrder
<1>2. SubtreeContiguous
  BY ContiguousIs, NotAfterIs DEF SubtreeContiguous
<1>3. WalkInOrder
  BY WalkIs DEF WalkInOrder
<1> QED
  BY <1>1, <1>2, <1>3 DEF OrderSound

(* A text alone, whatever its bytes                                         *)
LEMMA OrderOfOne ==
  ASSUME p1 \in Seq(1..255), p2 = <<>>, p3 = <<>>
  PROVE  OrderSound
<1>3. Len(p1) \in Nat /\ \A i \in 1..Len(p1) : p1[i] \in 1..255
  <2> DEFINE c == 1..255
  <2>1. p1 \in Seq(c)
    OBVIOUS
  <2> HIDE DEF c
  <2>2. Len(p1) \in Nat /\ \A i \in 1..Len(p1) : p1[i] \in c
    BY <2>1
  <2> QED
    BY <2>2 DEF c
<1>4. Len(<<>>) = 0
  OBVIOUS
<1>0. Len(p1) \in Nat /\ Len(<<>>) = 0 /\ \A i \in 1..Len(p1) : p1[i] \in 1..255
  BY <1>3, <1>4
<1>1. CASE p1 = <<>>
  BY <1>1, OrderOfStrings
<1>2. CASE p1 # <<>>
  <2>1. 1 \in 1..Len(p1) /\ p1[1] \in 1..255
    BY <1>0, <1>2
  <2>2. At(p1, 1) = p1[1] /\ \A j : At(<<>>, j) = 0
    BY <1>0, <2>1 DEF At
  <2>3. Key(0) = 0
    BY DEF Key, ToLower, Char
  <2>4. Key(p1[1]) \in Int /\ Key(p1[1]) # 0
    <3> DEFINE c == p1[1]
    <3> HIDE DEF c
    <3>1. c \in 1..255
      BY <2>1 DEF c
    <3>2. Char(c) \in Int /\ Char(c) # 0
      BY <3>1 DEF Char
    <3>5. ASSUME NEW d \in Int, d # 0 PROVE ToLower(d) \in Int /\ ToLower(d) # 0
      BY <3>5 DEF ToLower
    <3>3. ToLower(Char(c)) \in Int /\ ToLower(Char(c)) # 0
      BY <3>2, <3>5
    <3>4. Key(c) \in Int /\ Key(c) # 0
      BY <3>1, <3>3 DEF Key
    <3> QED
      BY <3>4 DEF c
  <2>5. FirstDiff(p1, <<>>, Key) = 1 /\ FirstDiff(<<>>, p1, Key) = 1
    <3> DEFINE n == Len(p1) + Len(<<>>) + 1
               S == { i \in 1..n : Key(At(p1, i)) # Key(At(<<>>, i)) }
    <3>1. 1 \in S
      BY <1>0, <2>2, <2>3, <2>4
    <3>2. \A i \in S : i \in Nat /\ 1 <= i
      BY <1>0
    <3>3. FirstDiff(p1, <<>>, Key) = IF S = {} THEN 0 ELSE CHOOSE i \in S : \A j \in S : i <= j
      BY DEF FirstDiff
    <3> DEFINE U == { i \in 1..(Len(<<>>) + Len(p1) + 1) : Key(At(<<>>, i)) # Key(At(p1, i)) }
    <3>5. FirstDiff(<<>>, p1, Key) = IF U = {} THEN 0 ELSE CHOOSE i \in U : \A j \in U : i <= j
      BY DEF FirstDiff
    <3>4. U = S
      BY <1>0
    <3> HIDE DEF S, U
    <3>6. (CHOOSE i \in S : \A j \in S : i <= j) = 1
      <4> DEFINE m == CHOOSE i \in S : \A j \in S : i <= j
      <4>1. m \in S /\ \A j \in S : m <= j
        BY <3>1, <3>2
      <4> HIDE DEF m
      <4>2. m = 1
        BY <3>1, <3>2, <4>1
      <4> QED
        BY <4>2 DEF m
    <3> QED
      BY <3>1, <3>3, <3>4, <3>5, <3>6
  <2>6. PathCaseCmp(p1, <<>>) = Key(p1[1]) - 0 /\ PathCaseCmp(<<>>, p1) = 0 - Key(p1[1])
    <3>1. At(p1, 1) = p1[1] /\ At(<<>>, 1) = 0 /\ 0 # Slash /\ 1 # 0
      BY <2>2 DEF Slash
    <3>2. PathCaseCmp(p1, <<>>) = Key(At(p1, 1)) - Key(At(<<>>, 1))
      BY <2>5, <3>1 DEF PathCaseCmp
    <3>3. PathCaseCmp(<<>>, p1) = Key(At(<<>>, 1)) - Key(At(p1, 1))
      BY <2>5, <3>1 DEF PathCaseCmp
    <3> QED
      BY <2>3, <3>1, <3>2, <3>3
  <2>7. TotalOrder
    <3> DEFINE k == Key(p1[1])
               z == PathCaseCmp(p1, <<>>)
               y == PathCaseCmp(<<>>, p1)
    <3>1. k \in Int /\ z = k - 0 /\ y = 0 - k
      BY <2>4, <2>6
    <3> HIDE DEF k, z, y
    <3>2. Sign(z) = -Sign(y)
      BY <3>1 DEF Sign
    <3> QED
      BY <3>2 DEF TotalOrder, z, y
  <2>8. SubtreeContiguous
    <3>1. ~(Len(p1) <= Len(p3))
      BY <1>0, <2>1
    <3> QED
      BY <3>1 DEF SubtreeContiguous, IsChildCase
  <2>9. WalkInOrder
    BY DEF WalkInOrder, Name
  <2> QED
    BY <2>7, <2>8, <2>9 DEF OrderSound
<1> QED
  BY <1>1, <1>2

(* Nothing changes what is looked at                                        *)
LEMMA AsChosen == NamesSpec => []NamesInit
<1>1. NamesInit /\ [NamesNext]_names => NamesInit'
  <2>1. NamesInit /\ UNCHANGED names => NamesInit'
    BY DEF names, vars, NamesInit, Init, Strings, Written
  <2> QED
    BY <2>1 DEF NamesNext
<1> QED
  BY <1>1, PTL DEF NamesSpec

LEMMA StringsAre ==
  ASSUME NEW S, NEW s \in UNION { [1..k -> S] : k \in 1..MaxLen }
  PROVE  s \in Seq(S)
<1>1. PICK k \in 1..MaxLen : s \in [1..k -> S]
  OBVIOUS
<1>2. k \in Nat
  BY PathOrderAssumption
<1> QED
  BY <1>1, <1>2, SeqDef

LEMMA OrderAtFirst == NamesInit => OrderSound
<1> SUFFICES ASSUME NamesInit PROVE OrderSound
  OBVIOUS
<1>1. CASE Init
  <2>1. (IF caseSensitive THEN Bytes ELSE BytesI) \subseteq Byte
    BY PathOrderAssumption DEF Byte
  <2>2. \A s \in Strings(MaxLen) : s \in Seq(IF caseSensitive THEN Bytes ELSE BytesI)
    BY StringsAre DEF Strings
  <2>3. \A s \in Strings(MaxLen) : s \in Seq(Byte)
    BY <2>1, <2>2
  <2> QED
    BY <1>1, <2>3, OrderOfStrings DEF Init
<1>2. CASE p1 \in Texts /\ p2 = <<>> /\ p3 = <<>>
  BY <1>2, NamingAssumption, OrderOfOne
<1>3. CASE caseSensitive = TRUE /\ p1 \in Written /\ p2 \in Written /\ p3 = <<>>
  <2>1. Odd \subseteq Byte
    BY <1>3, NamingAssumption DEF Byte
  <2>2. \A s \in Written : s \in Seq(Odd)
    BY StringsAre DEF Written
  <2>3. \A s \in Written : s \in Seq(Byte)
    BY <2>1, <2>2
  <2>4. p3 \in Seq(Byte)
    BY <1>3
  <2> QED
    BY <1>3, <2>3, <2>4, OrderOfStrings
<1> QED
  BY <1>1, <1>2, <1>3 DEF NamesInit

(* pathcasecmp() is a total order in which a directory is followed at once  *)
(* by all that is below it, ischildcase() tells what that is, and the walk  *)
(* of fs_walk() meets names in that order, with case or without: what the   *)
(* merge of fsdiff and lmerge, and the removal list of lapply, rest on.     *)
THEOREM Ordered == NamesSpec => []OrderSound
BY AsChosen, OrderAtFirst, PTL
-----------------------------------------------------------------------------
(* Patterns                                                                 *)

(* What wildcard() finds with the pattern from element i on, when below is  *)
(* what it finds with the pattern from the next element on                  *)
Level(w, p, i, below) ==
  [j \in 1..(Len(p) + 2) |->
     IF i = Len(w) /\ w[i].kind = "star" THEN {TRUE}
     ELSE IF j > Len(p) + 1 THEN BOOLEAN
     ELSE IF i > Len(w) THEN {j = Len(p) + 1}
     ELSE Either({ below[k] : k \in Leads(w[i], p, j) })]

LEMMA LevelsAre ==
  ASSUME NEW w, Len(w) \in Nat, NEW p, NEW i \in 1..(Len(w) + 1)
  PROVE  WildcardFrom(w, p)[i] = Level(w, p, i, WildcardFrom(w, p)[i + 1])
<1> DEFINE n == Len(w) + 1
           B(k, below) == Level(w, p, k, below)
           Good(d, g) == g = [k \in (n - d)..n |-> B(k, g[k + 1])]
           S == WildcardFrom(w, p)
<1>0. S = CHOOSE g : g = [k \in 1..n |-> B(k, g[k + 1])]
  BY DEF WildcardFrom, Level
<1>5. \A x, y : B(n, x) = B(n, y)
  BY DEF Level
<1>6. n \in Nat /\ n # 0
  OBVIOUS
<1> HIDE DEF B, S, n
<1>1. ASSUME NEW d \in Nat, d # 0, d <= n - 1, NEW g, Good(d - 1, g)
      PROVE  \E h : Good(d, h)
  <2> DEFINE h == [k \in (n - d)..n |-> IF k = n - d THEN B(n - d, g[n - d + 1]) ELSE g[k]]
  <2>1. ASSUME NEW k \in (n - d)..n PROVE h[k] = B(k, h[k + 1])
    <3>1. CASE k = n - d
      <4>1. k + 1 \in (n - d)..n /\ k + 1 # n - d
        BY <1>1, <1>6, <3>1
      <4>2. h[k] = B(n - d, g[n - d + 1]) /\ h[k + 1] = g[k + 1]
        BY <3>1, <4>1
      <4> QED
        BY <3>1, <4>2
    <3>2. CASE k # n - d /\ k # n
      <4>1. k \in (n - (d - 1))..n /\ k + 1 \in (n - d)..n /\ k + 1 # n - d
        BY <1>1, <1>6, <3>2
      <4>2. h[k] = g[k] /\ h[k + 1] = g[k + 1]
        BY <3>2, <4>1
      <4>3. g[k] = B(k, g[k + 1])
        BY <1>1, <4>1
      <4> QED
        BY <4>2, <4>3
    <3>3. CASE k # n - d /\ k = n
      <4>1. k \in (n - (d - 1))..n
        BY <1>1, <1>6, <3>3
      <4>2. h[k] = g[k]
        BY <3>3, <4>1
      <4>3. g[k] = B(k, g[k + 1])
        BY <1>1, <4>1
      <4> QED
        BY <1>5, <3>3, <4>2, <4>3
    <3> QED
      BY <3>1, <3>2, <3>3
  <2>2. h = [k \in (n - d)..n |-> h[k]]
    OBVIOUS
  <2>3. h = [k \in (n - d)..n |-> B(k, h[k + 1])]
    <3> HIDE DEF h
    <3> QED
      BY <2>1, <2>2
  <2> HIDE DEF h
  <2> QED
    BY <2>3
<1>2. \E g : Good(0, g)
  <2> DEFINE h == [k \in (n - 0)..n |-> B(n, <<>>)]
  <2>1. ASSUME NEW k \in (n - 0)..n PROVE h[k] = B(k, h[k + 1])
    <3>1. k = n
      BY <1>6
    <3>2. h[k] = B(n, <<>>)
      OBVIOUS
    <3> QED
      BY <1>5, <3>1, <3>2
  <2>2. h = [k \in (n - 0)..n |-> h[k]]
    OBVIOUS
  <2>3. h = [k \in (n - 0)..n |-> B(k, h[k + 1])]
    <3> HIDE DEF h
    <3> QED
      BY <2>1, <2>2
  <2> HIDE DEF h
  <2> QED
    BY <2>3
<1> HIDE DEF Good
<1>3. \A d \in Nat : d <= n - 1 => \E g : Good(d, g)
  <2> DEFINE T == { d \in Nat : ~(d <= n - 1 => \E g : Good(d, g)) }
  <2>1. SUFFICES ASSUME T # {} PROVE FALSE
    OBVIOUS
  <2>2. PICK m \in T : \A k \in T : m <= k
    BY <2>1, LeastMember
  <2>3. m # 0
    BY <1>2, <2>2
  <2>4. m \in Nat /\ m <= n - 1 /\ m - 1 \in Nat /\ m - 1 \notin T
    BY <2>2, <2>3
  <2>5. \E g : Good(m - 1, g)
    BY <1>6, <2>4
  <2> QED
    BY <1>1, <2>2, <2>3, <2>4, <2>5
<1>4. n - 1 \in Nat /\ n - (n - 1) = 1
  BY <1>6
<1>7. \E g : Good(n - 1, g)
  BY <1>3, <1>4, <1>6
<1>8. S = CHOOSE g : Good(n - 1, g)
  BY <1>0, <1>4 DEF Good
<1>9. Good(n - 1, S)
  BY <1>7, <1>8
<1>10. S = [k \in 1..n |-> B(k, S[k + 1])]
  BY <1>4, <1>9 DEF Good
<1>11. S[i] = B(i, S[i + 1])
  BY <1>10 DEF n
<1> QED
  BY <1>11 DEF B, S

(* Element i of w may be laid over p from place a up to b                   *)
Suits(w, p, i, a, b) ==
  /\ a <= b /\ Takes(w[i], SubSeq(p, a, b - 1), At(p, b))
  /\ w[i].kind = "star" /\ i < Len(w) => b <= Len(p)

(* The elements from i on may be laid over p from j on                      *)
Fits(w, p, i, j) ==
  \E cut \in [i..(Len(w) + 1) -> 1..(Len(p) + 1)] :
    /\ cut[i] = j /\ cut[Len(w) + 1] = Len(p) + 1
    /\ \A k \in i..Len(w) : Suits(w, p, k, cut[k], cut[k + 1])

(* ... or up to one that takes the NUL for a byte                           *)
Over(w, p, i, j) ==
  \E k \in i..Len(w) : w[k].kind \in {"one", "list"} /\ Fits(SubSeq(w, 1, k), Append(p, 0), i, j)

LEMMA MatchesIs ==
  ASSUME NEW w, NEW p, Len(w) \in Nat, DOMAIN w = 1..Len(w)
  PROVE  Matches(w, p) <=> Fits(w, p, 1, 1)
BY DEF Matches, Fits, Suits

LEMMA FitsLast ==
  ASSUME NEW w, NEW p, Len(w) \in Nat, Len(p) \in Nat, NEW j \in 1..(Len(p) + 1)
  PROVE  Fits(w, p, Len(w) + 1, j) <=> j = Len(p) + 1
<1> DEFINE m == Len(w)
           cut == [k \in (m + 1)..(m + 1) |-> j]
<1>1. cut \in [(m + 1)..(m + 1) -> 1..(Len(p) + 1)] /\ cut[m + 1] = j
  OBVIOUS
<1>2. \A k : ~(k \in (m + 1)..m)
  OBVIOUS
<1> HIDE DEF cut
<1>3. j = Len(p) + 1 => Fits(w, p, m + 1, j)
  BY <1>1, <1>2 DEF Fits
<1>4. Fits(w, p, m + 1, j) => j = Len(p) + 1
  BY DEF Fits
<1> QED
  BY <1>3, <1>4

LEMMA FitsStep ==
  ASSUME NEW w, NEW p, Len(w) \in Nat, Len(p) \in Nat,
         NEW i \in 1..Len(w), NEW j \in 1..(Len(p) + 1)
  PROVE  Fits(w, p, i, j) <=> \E k \in 1..(Len(p) + 1) : Suits(w, p, i, j, k) /\ Fits(w, p, i + 1, k)
<1> DEFINE m == Len(w)
           N == 1..(Len(p) + 1)
<1>0. m \in Nat /\ i \in 1..m
  OBVIOUS
<1>1. ASSUME Fits(w, p, i, j)
      PROVE  \E k \in N : Suits(w, p, i, j, k) /\ Fits(w, p, i + 1, k)
  <2>1. PICK cut \in [i..(m + 1) -> N] :
          /\ cut[i] = j /\ cut[m + 1] = Len(p) + 1
          /\ \A k \in i..m : Suits(w, p, k, cut[k], cut[k + 1])
    BY <1>1 DEF Fits
  <2> DEFINE rest == [k \in (i + 1)..(m + 1) |-> cut[k]]
  <2>2. \A k \in (i + 1)..(m + 1) : k \in i..(m + 1)
    BY <1>0
  <2>3. rest \in [(i + 1)..(m + 1) -> N]
    BY <2>1, <2>2
  <2>4. i + 1 \in (i + 1)..(m + 1) /\ m + 1 \in (i + 1)..(m + 1) /\ i \in i..m
    BY <1>0
  <2>5. \A k \in (i + 1)..m : k \in (i + 1)..(m + 1) /\ k + 1 \in (i + 1)..(m + 1) /\ k \in i..m
    BY <1>0
  <2>6. rest[i + 1] = cut[i + 1] /\ rest[m + 1] = cut[m + 1]
        /\ \A k \in (i + 1)..m : rest[k] = cut[k] /\ rest[k + 1] = cut[k + 1]
    BY <2>4, <2>5
  <2>7. rest[i + 1] \in N
    BY <2>3, <2>4
  <2> HIDE DEF rest, N
  <2>8. Fits(w, p, i + 1, rest[i + 1])
    BY <2>1, <2>3, <2>5, <2>6 DEF Fits, N
  <2>9. Suits(w, p, i, j, rest[i + 1])
    BY <2>1, <2>4, <2>6
  <2> QED
    BY <2>7, <2>8, <2>9
<1>2. ASSUME NEW k \in N, Suits(w, p, i, j, k), Fits(w, p, i + 1, k)
      PROVE  Fits(w, p, i, j)
  <2>1. PICK rest \in [(i + 1)..(m + 1) -> N] :
          /\ rest[i + 1] = k /\ rest[m + 1] = Len(p) + 1
          /\ \A h \in (i + 1)..m : Suits(w, p, h, rest[h], rest[h + 1])
    BY <1>2 DEF Fits
  <2> DEFINE cut == [h \in i..(m + 1) |-> IF h = i THEN j ELSE rest[h]]
  <2>2. \A h \in i..(m + 1) : h # i => h \in (i + 1)..(m + 1)
    BY <1>0
  <2>3. cut \in [i..(m + 1) -> N]
    BY <2>1, <2>2
  <2>4. i \in i..(m + 1) /\ i + 1 \in i..(m + 1) /\ i + 1 # i /\ m + 1 \in i..(m + 1) /\ m + 1 # i
    BY <1>0
  <2>5. cut[i] = j /\ cut[i + 1] = k /\ cut[m + 1] = Len(p) + 1
    BY <2>1, <2>4
  <2>6. ASSUME NEW h \in i..m PROVE Suits(w, p, h, cut[h], cut[h + 1])
    <3>1. CASE h = i
      <4> HIDE DEF cut
      <4> QED
        BY <1>2, <2>5, <3>1
    <3>2. CASE h # i
      <4>1. h \in (i + 1)..m /\ h \in i..(m + 1) /\ h + 1 \in i..(m + 1) /\ h + 1 # i
        BY <1>0, <3>2
      <4>2. cut[h] = rest[h] /\ cut[h + 1] = rest[h + 1]
        BY <3>2, <4>1
      <4> HIDE DEF cut
      <4> QED
        BY <2>1, <4>1, <4>2
    <3> QED
      BY <3>1, <3>2
  <2> HIDE DEF cut, N
  <2> QED
    BY <2>3, <2>5, <2>6 DEF Fits, N
<1> HIDE DEF N
<1>3. Fits(w, p, i, j) <=> \E k \in N : Suits(w, p, i, j, k) /\ Fits(w, p, i + 1, k)
  BY <1>1, <1>2
<1> QED
  BY <1>3 DEF N

(* What lies between two places of the text                                 *)
LEMMA PartIs ==
  ASSUME NEW S, NEW p \in Seq(S), NEW j \in 1..(Len(p) + 1), NEW k \in 1..(Len(p) + 1), j <= k
  PROVE  LET s == SubSeq(p, j, k - 1)
         IN  s \in Seq(S) /\ Len(s) = k - j /\ \A x \in 1..(k - j) : s[x] = p[j + x - 1]
<1> DEFINE s == SubSeq(p, j, k - 1)
<1>0. Len(p) \in Nat
  OBVIOUS
<1>1. j \in 1..(Len(p) + 1) /\ k - 1 \in (j - 1)..Len(p)
  BY <1>0
<1>2. s \in Seq(S)
  <2>1. \A x \in j..(k - 1) : x \in 1..Len(p) /\ p[x] \in S
    BY <1>0
  <2> QED
    BY <2>1, SubSeqProperties, <1>0
<1>3. Len(s) = k - j
  <2>1. Len(s) = IF j <= k - 1 THEN (k - 1) - j + 1 ELSE 0
    BY <1>0, SubSeqProperties
  <2> QED
    BY <1>0, <2>1
<1>4. \A x \in 1..(k - j) : s[x] = p[j + x - 1]
  BY <1>0, <1>3, SubSeqProperties
<1> QED
  BY <1>2, <1>3, <1>4

Text == Seq(1..255)

LEMMA TextIs ==
  ASSUME NEW p \in Text
  PROVE  /\ Len(p) \in Nat /\ DOMAIN p = 1..Len(p)
         /\ \A j \in 1..Len(p) : p[j] \in 1..255 /\ At(p, j) = p[j]
         /\ \A j : ~(j \in 1..Len(p)) => At(p, j) = 0
<1> DEFINE c == 1..255
<1>1. p \in Seq(c)
  BY DEF Text
<1> HIDE DEF c
<1>2. Len(p) \in Nat /\ DOMAIN p = 1..Len(p) /\ \A j \in 1..Len(p) : p[j] \in c
  BY <1>1
<1> QED
  BY <1>2 DEF c, At

LEMMA FoldIs ==
  /\ Fold(0) = 0 /\ ~Digit(0)
  /\ \A c \in 0..255 : Fold(c) \in 0..255 /\ (Fold(c) = 0 <=> c = 0)
BY DEF Fold, ToLower, Digit

LEMMA FoldAllIs ==
  ASSUME NEW S, NEW s \in Seq(S)
  PROVE  /\ FoldAll(s) \in Seq({Fold(c) : c \in S}) /\ Len(FoldAll(s)) = Len(s)
         /\ \A k \in 1..Len(s) : FoldAll(s)[k] = Fold(s[k])
<1> DEFINE T == {Fold(c) : c \in S}
           L == Len(s)
<1>1. L \in Nat /\ DOMAIN s = 1..L /\ \A k \in 1..L : s[k] \in S
  OBVIOUS
<1> DEFINE f == [k \in 1..L |-> Fold(s[k])]
<1>2. FoldAll(s) = f
  BY <1>1 DEF FoldAll
<1>3. f \in [1..L -> T]
  BY <1>1
<1>4. f \in Seq(T) /\ DOMAIN f = 1..L
  BY <1>1, <1>3, SeqDef
<1>5. Len(f) = L
  BY <1>1, <1>4, LenProperties
<1> QED
  BY <1>2, <1>4, <1>5

LEMMA ElementIs ==
  ASSUME NEW e \in Element
  PROVE  /\ e.kind \in {"byte", "one", "star", "list", "words", "range"}
         /\ e.kind = "byte" => e.byte \in 1..255
         /\ e.kind = "list" => e.bytes \subseteq 1..255
         /\ e.kind = "words" => e.words \subseteq Text
BY SMTT(20), ZenonT(30) DEF Element, Text

(* The end of a number                                                      *)
LEMMA PastDigitsIs ==
  ASSUME NEW p \in Text, NEW j \in 1..(Len(p) + 1), Digit(At(p, j))
  PROVE  /\ PastDigits(p, j) \in (j + 1)..(Len(p) + 1)
         /\ \A k \in j..(Len(p) + 1) :
              k = PastDigits(p, j) <=> ~Digit(At(p, k)) /\ \A m \in j..(k - 1) : Digit(p[m])
<1> DEFINE n == Len(p)
           Ends(k) == ~Digit(At(p, k)) /\ \A m \in j..(k - 1) : Digit(p[m])
           T == { k \in j..(n + 1) : ~Digit(At(p, k)) }
<1>0. n \in Nat /\ \A k \in 1..n : At(p, k) = p[k]
  BY TextIs
<1>1. n + 1 \in T
  <2>1. At(p, n + 1) = 0
    BY <1>0, TextIs
  <2>2. ~Digit(0)
    BY FoldIs
  <2>3. n + 1 \in j..(n + 1)
    BY <1>0
  <2> QED
    BY <2>1, <2>2, <2>3
<1>2. T \in SUBSET Nat
  BY <1>0
<1>3. PICK d \in T : \A k \in T : d <= k
  <2> HIDE DEF T
  <2> QED
    BY <1>1, <1>2, LeastMember
<1>4. d \in j..(n + 1) /\ ~Digit(At(p, d))
  BY <1>3
<1>5. \A m \in j..(d - 1) : Digit(p[m])
  <2> TAKE m \in j..(d - 1)
  <2>1. m \in 1..n /\ m \in j..(n + 1) /\ ~(d <= m)
    BY <1>0, <1>4
  <2>2. Digit(At(p, m))
    BY <1>3, <2>1
  <2> QED
    BY <1>0, <2>1, <2>2
<1>6. \A k \in j..(n + 1) : Ends(k) => k = d
  <2> TAKE k \in j..(n + 1)
  <2> HAVE Ends(k)
  <2>1. d <= k
    BY <1>3
  <2>2. ~(d < k)
    <3>1. ASSUME d < k PROVE FALSE
      <4>1. d \in j..(k - 1) /\ d \in 1..n
        BY <1>0, <1>4, <3>1
      <4> QED
        BY <1>0, <1>4, <4>1
    <3> QED
      BY <3>1
  <2> QED
    BY <1>4, <2>1, <2>2
<1>7. PastDigits(p, j) = CHOOSE k \in j..(n + 1) : Ends(k)
  BY DEF PastDigits
<1>8. Ends(d)
  BY <1>4, <1>5
<1> HIDE DEF Ends
<1>9. PastDigits(p, j) = d
  BY <1>4, <1>6, <1>7, <1>8
<1>10. d # j
  BY <1>4
<1>11. d \in (j + 1)..(n + 1)
  BY <1>0, <1>4, <1>10
<1>12. \A k \in j..(n + 1) : k = d <=> Ends(k)
  BY <1>6, <1>8
<1> QED
  BY <1>9, <1>11, <1>12 DEF Ends

(* An element leads where it may be laid, and behind the NUL                *)
Led(e, p, j) ==
  /\ \A k \in Leads(e, p, j) : k \in j..(Len(p) + 2)
  /\ \A k \in 1..(Len(p) + 1) :
       k \in Leads(e, p, j) <=> j <= k /\ Takes(e, SubSeq(p, j, k - 1), At(p, k))
  /\ Len(p) + 2 \in Leads(e, p, j) =>
       j = Len(p) + 1 /\ e.kind \in {"one", "list"} /\ Takes(e, << 0 >>, 0)

(* An element that takes one byte                                           *)
LEMMA LedByOne ==
  ASSUME NEW e, NEW p \in Text, NEW j \in 1..(Len(p) + 1), NEW ok \in BOOLEAN,
         Leads(e, p, j) = (IF ok THEN {j + 1} ELSE {}),
         \A k \in 1..(Len(p) + 1) : j <= k =>
           (Takes(e, SubSeq(p, j, k - 1), At(p, k)) <=> k = j + 1 /\ ok),
         j = Len(p) + 1 /\ ok => e.kind \in {"one", "list"} /\ Takes(e, << 0 >>, 0)
  PROVE  Led(e, p, j)
<1> DEFINE n == Len(p)
           T(k) == Takes(e, SubSeq(p, j, k - 1), At(p, k))
<1>0. n \in Nat
  BY TextIs
<1>1. \A k \in 1..(n + 1) : j <= k => (T(k) <=> k = j + 1 /\ ok)
  OBVIOUS
<1> HIDE DEF T
<1>2. \A k \in Leads(e, p, j) : k \in j..(n + 2)
  BY <1>0
<1>3. \A k \in 1..(n + 1) : k \in Leads(e, p, j) <=> j <= k /\ T(k)
  BY <1>0, <1>1
<1>4. n + 2 \in Leads(e, p, j) => j = n + 1 /\ ok
  BY <1>0
<1> QED
  BY <1>2, <1>3, <1>4 DEF Led, T

LEMMA LeadsAre ==
  ASSUME NEW e \in Element, e.kind # "star", NEW p \in Text, NEW j \in 1..(Len(p) + 1)
  PROVE  Led(e, p, j)
<1> DEFINE n == Len(p)
           s(k) == SubSeq(p, j, k - 1)
           T(k) == Takes(e, s(k), At(p, k))
<1>0. n \in Nat /\ \A k \in 1..n : At(p, k) = p[k] /\ p[k] \in 1..255
  BY TextIs
<1>1. \A k \in 1..(n + 1) : j <= k =>
        /\ s(k) \in Text /\ Len(s(k)) = k - j /\ \A x \in 1..(k - j) : s(k)[x] = p[j + x - 1]
  BY PartIs DEF Text
<1>2. \A k \in 1..(n + 1) : j <= k =>
        (Len(s(k)) = 1 <=> k = j + 1) /\ (k = j + 1 => s(k)[1] = At(p, j) /\ j \in 1..n)
  <2> SUFFICES ASSUME NEW k \in 1..(n + 1), j <= k
               PROVE  (Len(s(k)) = 1 <=> k = j + 1) /\ (k = j + 1 => s(k)[1] = At(p, j) /\ j \in 1..n)
    OBVIOUS
  <2>1. Len(s(k)) = k - j /\ \A x \in 1..(k - j) : s(k)[x] = p[j + x - 1]
    BY <1>1
  <2>2. k = j + 1 => j \in 1..n /\ 1 \in 1..(k - j) /\ j + 1 - 1 = j
    BY <1>0
  <2> HIDE DEF s
  <2> QED
    BY <1>0, <2>1, <2>2
<1>9. \A c \in 1..255 : c \in 0..255 /\ c # 0
  OBVIOUS
<1>10. j \in 1..n \/ (j = n + 1 /\ ~(j \in 1..n))
  BY <1>0
<1>3. At(p, j) \in 0..255 /\ (At(p, j) = 0 <=> j = n + 1)
  <2>1. CASE j \in 1..n
    <3>1. At(p, j) = p[j] /\ p[j] \in 1..255 /\ j # n + 1
      BY <1>0, <2>1
    <3> QED
      BY <1>9, <3>1
  <2>2. CASE j = n + 1
    <3>1. ~(j \in 1..n)
      BY <1>0, <2>2
    <3>2. At(p, j) = 0
      BY <3>1, TextIs
    <3> QED
      BY <2>2, <3>2
  <2> QED
    BY <1>10, <2>1, <2>2
<1>4. CASE e.kind = "one"
  <2>1. Leads(e, p, j) = IF TRUE THEN {j + 1} ELSE {}
    BY <1>4 DEF Leads
  <2>2. \A k \in 1..(n + 1) : j <= k => (T(k) <=> k = j + 1 /\ TRUE)
    BY <1>2, <1>4 DEF Takes, Says
  <2>3. Takes(e, << 0 >>, 0)
    BY <1>4 DEF Takes, Says
  <2> QED
    BY <1>4, <2>1, <2>2, <2>3, LedByOne
<1>5. CASE e.kind = "list"
  <2> DEFINE ok == \E c \in e.bytes : Fold(c) # Fold(At(p, j))
  <2>1. Leads(e, p, j) = IF ok THEN {j + 1} ELSE {}
    BY <1>5 DEF Leads
  <2>2. \A k \in 1..(n + 1) : j <= k => (T(k) <=> k = j + 1 /\ ok)
    <3> SUFFICES ASSUME NEW k \in 1..(n + 1), j <= k PROVE T(k) <=> k = j + 1 /\ ok
      OBVIOUS
    <3>1. T(k) <=> Len(s(k)) = 1 /\ ~(\A c \in e.bytes : Fold(c) = Fold(s(k)[1]))
      BY <1>5 DEF Takes, Says
    <3> HIDE DEF s, T
    <3> QED
      BY <1>2, <3>1
  <2>3. j = n + 1 /\ ok => Takes(e, << 0 >>, 0)
    <3>1. Takes(e, << 0 >>, 0) <=> Len(<< 0 >>) = 1 /\ ~(\A c \in e.bytes : Fold(c) = Fold(0))
      BY <1>5 DEF Takes, Says
    <3> QED
      BY <1>3, <3>1
  <2> HIDE DEF ok
  <2> QED
    BY <1>5, <2>1, <2>2, <2>3, LedByOne DEF ok
<1>6. CASE e.kind = "byte"
  <2> DEFINE ok == Fold(At(p, j)) = Fold(e.byte)
  <2>1. Leads(e, p, j) = IF ok THEN {j + 1} ELSE {}
    BY <1>6 DEF Leads
  <2>2. \A k \in 1..(n + 1) : j <= k => (T(k) <=> k = j + 1 /\ ok)
    <3> SUFFICES ASSUME NEW k \in 1..(n + 1), j <= k PROVE T(k) <=> k = j + 1 /\ ok
      OBVIOUS
    <3> DEFINE x == s(k)
               f == FoldAll(x)
               b == Fold(e.byte)
    <3>1. T(k) <=> f = <<b>>
      BY <1>6 DEF Takes, Says
    <3>2. x \in Text
      BY <1>1
    <3>3. f \in Seq({Fold(c) : c \in 1..255}) /\ Len(f) = Len(x) /\ \A h \in 1..Len(x) : f[h] = Fold(x[h])
      <4> HIDE DEF x
      <4> QED
        BY <3>2, FoldAllIs DEF Text
    <3>4. (Len(x) = 1 <=> k = j + 1) /\ (k = j + 1 => x[1] = At(p, j))
      BY <1>2
    <3> HIDE DEF x, f, b, T
    <3>5. f = <<b>> <=> Len(f) = 1 /\ f[1] = b
      <4> DEFINE S == {Fold(c) : c \in 1..255}
      <4>1. f \in Seq(S)
        BY <3>3
      <4> HIDE DEF S
      <4> QED
        BY <4>1
    <3> QED
      BY <3>1, <3>3, <3>4, <3>5 DEF b
  <2>3. j = n + 1 => ~ok
    <3>1. e.byte \in 1..255
      BY <1>6, ElementIs
    <3>2. Fold(e.byte) # 0
      <4>1. e.byte \in 0..255 /\ e.byte # 0
        BY <3>1, <1>9
      <4> QED
        BY <4>1, FoldIs
    <3> QED
      BY <1>3, <3>2, FoldIs
  <2> HIDE DEF ok
  <2>4. ok \in BOOLEAN
    BY DEF ok
  <2> QED
    BY <2>1, <2>2, <2>3, <2>4, LedByOne
<1>7. CASE e.kind = "words"
  <2> DEFINE Of(x) == j + Len(x) <= n + 1 /\ FoldAll(x) = FoldAll(SubSeq(p, j, j + Len(x) - 1))
             L == Leads(e, p, j)
  <2>1. L = { j + Len(x) : x \in { y \in e.words : Of(y) } }
    BY <1>7 DEF Leads
  <2>2. \A x \in e.words : x \in Text /\ Len(x) \in Nat
    BY <1>7, ElementIs, TextIs
  <2>3. \A k : k \in L <=> \E x \in e.words : Of(x) /\ k = j + Len(x)
    <3> HIDE DEF Of, L
    <3> QED
      BY <2>1
  <2>4. \A k \in L : k \in j..(n + 2) /\ k # n + 2
    BY <1>0, <2>2, <2>3
  <2>5. ASSUME NEW k \in 1..(n + 1) PROVE k \in L <=> j <= k /\ T(k)
    <3>1. T(k) <=> \E x \in e.words : FoldAll(x) = FoldAll(s(k))
      BY <1>7 DEF Takes, Says
    <3>2. ASSUME NEW x \in e.words, Of(x), k = j + Len(x) PROVE j <= k /\ FoldAll(x) = FoldAll(s(k))
      BY <2>2, <3>2
    <3>3. ASSUME NEW x \in e.words, j <= k, FoldAll(x) = FoldAll(s(k))
          PROVE  Of(x) /\ k = j + Len(x)
      <4>1. s(k) \in Text /\ Len(s(k)) = k - j
        BY <1>1, <3>3
      <4>2. x \in Text /\ Len(x) \in Nat
        BY <2>2
      <4>3. Len(FoldAll(x)) = Len(x) /\ Len(FoldAll(s(k))) = Len(s(k))
        <5> HIDE DEF s
        <5> QED
          BY <4>1, <4>2, FoldAllIs DEF Text
      <4>4. Len(x) = k - j
        BY <3>3, <4>1, <4>3
      <4>5. k = j + Len(x)
        BY <4>4
      <4> QED
        BY <1>0, <3>3, <4>5
    <3> HIDE DEF Of, L, T, s
    <3> QED
      BY <2>3, <3>1, <3>2, <3>3
  <2>6. n + 2 \notin L
    BY <2>4
  <2> HIDE DEF L, T
  <2> QED
    BY <2>4, <2>5, <2>6 DEF Led, L, T
<1>8. CASE e.kind = "range"
  <2> DEFINE d == PastDigits(p, j)
             In(x) == Number(x) \in (e.min)..(e.max)
             L == Leads(e, p, j)
  <2>1. L = IF Digit(At(p, j)) /\ In(SubSeq(p, j, d - 1)) THEN {d} ELSE {}
    BY <1>8 DEF Leads
  <2>2. \A k : T(k) <=> /\ s(k) # <<>> /\ \A h \in DOMAIN s(k) : Digit(s(k)[h])
                        /\ ~Digit(At(p, k)) /\ In(s(k))
    BY <1>8 DEF Takes, Says
  <2>3. ASSUME NEW k \in 1..(n + 1), j <= k
        PROVE  /\ s(k) # <<>> <=> j < k
               /\ (\A h \in DOMAIN s(k) : Digit(s(k)[h])) <=> \A m \in j..(k - 1) : Digit(p[m])
    <3> DEFINE x == s(k)
    <3>1. x \in Text /\ Len(x) = k - j /\ \A h \in 1..(k - j) : x[h] = p[j + h - 1]
      BY <1>1, <2>3
    <3> HIDE DEF x
    <3>2. DOMAIN x = 1..(k - j)
      BY <3>1, TextIs
    <3>3. x # <<>> <=> j < k
      <4>1. x = <<>> <=> Len(x) = 0
        BY <3>1, EmptySeq DEF Text
      <4> QED
        BY <2>3, <3>1, <4>1
    <3>4. ASSUME \A h \in DOMAIN x : Digit(x[h]), NEW m \in j..(k - 1) PROVE Digit(p[m])
      <4>1. m - j + 1 \in 1..(k - j) /\ j + (m - j + 1) - 1 = m
        OBVIOUS
      <4>2. x[m - j + 1] = p[m]
        BY <3>1, <4>1
      <4> QED
        BY <3>2, <3>4, <4>1, <4>2
    <3>5. ASSUME \A m \in j..(k - 1) : Digit(p[m]), NEW h \in DOMAIN x PROVE Digit(x[h])
      <4>1. h \in 1..(k - j) /\ j + h - 1 \in j..(k - 1)
        BY <3>2
      <4> QED
        BY <3>1, <3>5, <4>1
    <3> QED
      BY <3>3, <3>4, <3>5 DEF x
  <2>4. CASE ~Digit(At(p, j))
    <3>1. L = {}
      BY <2>1, <2>4
    <3>2. ASSUME NEW k \in 1..(n + 1), j <= k, T(k) PROVE FALSE
      <4>1. j < k /\ \A m \in j..(k - 1) : Digit(p[m])
        BY <2>2, <2>3, <3>2
      <4>2. j \in j..(k - 1) /\ j \in 1..n
        BY <1>0, <4>1
      <4> QED
        BY <1>0, <2>4, <4>1, <4>2
    <3> HIDE DEF L, T
    <3> QED
      BY <3>1, <3>2 DEF Led, L, T
  <2>5. CASE Digit(At(p, j))
    <3>1. /\ d \in (j + 1)..(n + 1)
          /\ \A k \in j..(n + 1) : k = d <=> ~Digit(At(p, k)) /\ \A m \in j..(k - 1) : Digit(p[m])
      BY <2>5, PastDigitsIs
    <3>2. L = IF In(s(d)) THEN {d} ELSE {}
      BY <2>1, <2>5
    <3> HIDE DEF d, L, In
    <3>3. ASSUME NEW k \in 1..(n + 1), j <= k PROVE T(k) <=> k = d /\ In(s(d))
      <4>1. k \in j..(n + 1)
        BY <3>3
      <4> HIDE DEF s, T
      <4>2. T(k) <=> /\ j < k /\ \A m \in j..(k - 1) : Digit(p[m])
                     /\ ~Digit(At(p, k)) /\ In(s(k))
        BY <2>2, <2>3, <3>3
      <4>3. T(k) <=> j < k /\ k = d /\ In(s(k))
        BY <3>1, <4>1, <4>2
      <4> QED
        BY <3>1, <4>3
    <3> HIDE DEF s, T
    <3>4. \A k \in L : k \in j..(n + 2) /\ k # n + 2
      BY <1>0, <3>1, <3>2
    <3>5. \A k \in 1..(n + 1) : k \in L <=> j <= k /\ T(k)
      BY <3>1, <3>2, <3>3
    <3>6. n + 2 \notin L
      BY <3>4
    <3> QED
      BY <3>4, <3>5, <3>6 DEF Led, L, T, s
  <2> QED
    BY <2>4, <2>5
<1> QED
  BY <1>4, <1>5, <1>6, <1>7, <1>8, ElementIs

(* The results there are                                                    *)
Results == { {TRUE}, {FALSE}, BOOLEAN }

LEMMA EitherIs ==
  ASSUME NEW T \in SUBSET Results
  PROVE  /\ Either(T) \in Results
         /\ {TRUE} \in T => Either(T) = {TRUE}
         /\ (\A r \in T : r = {FALSE}) => Either(T) = {FALSE}
<1>1. ASSUME {TRUE} \in T PROVE Either(T) = {TRUE}
  <2>1. (\E r \in T : TRUE \in r) /\ ~(\A r \in T : FALSE \in r)
    BY <1>1
  <2> QED
    BY <2>1 DEF Either
<1>2. ASSUME \A r \in T : r = {FALSE} PROVE Either(T) = {FALSE}
  <2>1. ~(\E r \in T : TRUE \in r) /\ (\A r \in T : FALSE \in r)
    BY <1>2
  <2> QED
    BY <2>1 DEF Either
<1>3. ASSUME {TRUE} \notin T, NEW r0 \in T, r0 # {FALSE} PROVE Either(T) = BOOLEAN
  <2>1. r0 = BOOLEAN
    BY <1>3 DEF Results
  <2>2. \A r \in T : r = {FALSE} \/ r = BOOLEAN
    BY <1>3 DEF Results
  <2>3. (\E r \in T : TRUE \in r) /\ (\A r \in T : FALSE \in r)
    BY <2>1, <2>2
  <2> QED
    BY <2>3 DEF Either
<1> QED
  BY <1>1, <1>2, <1>3 DEF Results

(* The NUL at the end is no byte of the text                                *)
LEMMA WithNul ==
  ASSUME NEW p \in Text
  PROVE  LET q == Append(p, 0)
         IN  /\ Len(q) = Len(p) + 1 /\ q \in Seq(0..255)
             /\ \A k \in 1..(Len(p) + 1) : At(q, k) = At(p, k)
             /\ At(q, Len(p) + 2) = 0
             /\ \A j, k \in 1..(Len(p) + 1) : j <= k => SubSeq(q, j, k - 1) = SubSeq(p, j, k - 1)
             /\ SubSeq(q, Len(p) + 1, Len(p) + 1) = << 0 >>
<1> DEFINE q == Append(p, 0)
           n == Len(p)
<1>0. /\ n \in Nat /\ \A k \in 1..n : p[k] \in 1..255 /\ At(p, k) = p[k]
      /\ \A j : ~(j \in 1..n) => At(p, j) = 0
  BY TextIs
<1>9. \A c \in 1..255 : c \in 0..255
  OBVIOUS
<1>1. p \in Seq(0..255)
  <2> DEFINE S == 1..255
             T == 0..255
  <2>1. p \in Seq(S) /\ S \subseteq T
    BY DEF Text
  <2> HIDE DEF S, T
  <2>2. p \in Seq(T)
    BY <2>1
  <2> QED
    BY <2>2 DEF T
<1>2. /\ q \in Seq(0..255) /\ Len(q) = n + 1
      /\ \A k \in 1..n : q[k] = p[k]
      /\ q[n + 1] = 0
  BY <1>1, AppendProperties
<1> HIDE DEF q
<1>3. \A k \in 1..(n + 1) : At(q, k) = At(p, k)
  <2> TAKE k \in 1..(n + 1)
  <2>1. At(q, k) = q[k]
    BY <1>2 DEF At
  <2>2. CASE k \in 1..n
    BY <1>0, <1>2, <2>1, <2>2
  <2>3. CASE ~(k \in 1..n)
    <3>1. k = n + 1
      BY <1>0, <2>3
    <3> QED
      BY <1>0, <1>2, <2>1, <2>3, <3>1
  <2> QED
    BY <2>2, <2>3
<1>4. At(q, n + 2) = 0
  <2>1. ~(n + 2 \in 1..Len(q))
    BY <1>0, <1>2
  <2> QED
    BY <2>1 DEF At
<1>5. ASSUME NEW j \in 1..(n + 1), NEW k \in 1..(n + 1), j <= k
      PROVE  SubSeq(q, j, k - 1) = SubSeq(p, j, k - 1)
  <2> DEFINE s == SubSeq(p, j, k - 1)
             t == SubSeq(q, j, k - 1)
  <2>1. s \in Seq(0..255) /\ Len(s) = k - j /\ \A x \in 1..(k - j) : s[x] = p[j + x - 1]
    BY <1>1, <1>5, PartIs, SMTT(20), ZenonT(30)
  <2>2. j \in 1..(Len(q) + 1) /\ k \in 1..(Len(q) + 1)
    BY <1>0, <1>2
  <2>3. t \in Seq(0..255) /\ Len(t) = k - j /\ \A x \in 1..(k - j) : t[x] = q[j + x - 1]
    BY <1>2, <1>5, <2>2, PartIs, SMTT(20), ZenonT(30)
  <2>4. \A x \in 1..(k - j) : j + x - 1 \in 1..n
    BY <1>0, <1>5
  <2>5. \A x \in 1..Len(s) : s[x] = t[x]
    BY <1>2, <2>1, <2>3, <2>4
  <2> HIDE DEF s, t
  <2>6. s = t
    BY <2>1, <2>3, <2>5, SeqEqual
  <2> QED
    BY <2>6 DEF s, t
<1>6. SubSeq(q, n + 1, n + 1) = << 0 >>
  <2> DEFINE t == SubSeq(q, n + 1, (n + 2) - 1)
  <2>1. n + 1 \in 1..(Len(q) + 1) /\ n + 2 \in 1..(Len(q) + 1) /\ n + 1 <= n + 2
        /\ (n + 2) - 1 = n + 1 /\ (n + 2) - (n + 1) = 1 /\ n + 1 + 1 - 1 = n + 1
    BY <1>0, <1>2
  <2>2. t \in Seq(0..255) /\ Len(t) = (n + 2) - (n + 1)
        /\ \A x \in 1..((n + 2) - (n + 1)) : t[x] = q[n + 1 + x - 1]
    BY <1>2, <2>1, PartIs
  <2>3. Len(t) = 1 /\ t[1] = 0
    BY <1>2, <2>1, <2>2
  <2> HIDE DEF t
  <2>4. t = << 0 >>
    <3> DEFINE S == 0..255
    <3>1. t \in Seq(S)
      BY <2>2
    <3> HIDE DEF S
    <3> QED
      BY <2>3, <3>1
  <2> QED
    BY <2>1, <2>4 DEF t
<1> QED
  BY <1>2, <1>3, <1>4, <1>5, <1>6 DEF q

LEMMA FrontIs ==
  ASSUME NEW S, NEW w \in Seq(S), NEW k \in 1..Len(w)
  PROVE  LET v == SubSeq(w, 1, k)
         IN  v \in Seq(S) /\ Len(v) = k /\ \A i \in 1..k : v[i] = w[i]
<1>0. Len(w) \in Nat /\ k \in Nat /\ \A i \in 1..k : i \in 1..Len(w) /\ w[i] \in S
  OBVIOUS
<1> DEFINE v == SubSeq(w, 1, k)
<1>1. v \in Seq(S) /\ Len(v) = (IF 1 <= k THEN k - 1 + 1 ELSE 0)
  BY <1>0, SubSeqProperties
<1>2. \A i \in 1..(k - 1 + 1) : v[i] = w[1 + i - 1]
  BY <1>0, SubSeqProperties
<1> HIDE DEF v
<1>3. Len(v) = k /\ \A i \in 1..k : v[i] = w[i]
  BY <1>0, <1>1, <1>2
<1> QED
  BY <1>1, <1>3 DEF v

LEMMA OverStep ==
  ASSUME NEW w \in Seq(Element), NEW p \in Text, NEW i \in 1..Len(w),
         NEW j \in 1..(Len(p) + 1), NEW k \in 1..(Len(p) + 1),
         Suits(w, p, i, j, k), Over(w, p, i + 1, k)
  PROVE  Over(w, p, i, j)
<1> DEFINE n == Len(p)
           m == Len(w)
           q == Append(p, 0)
<1>0. n \in Nat /\ m \in Nat
  BY TextIs
<1>1. PICK h \in (i + 1)..m : w[h].kind \in {"one", "list"} /\ Fits(SubSeq(w, 1, h), q, i + 1, k)
  BY DEF Over
<1> DEFINE v == SubSeq(w, 1, h)
<1>2. h \in 1..m /\ i \in 1..h /\ h \in i..m /\ i < h
  BY <1>0, <1>1
<1>3. Len(v) = h /\ v[i] = w[i]
  BY <1>2, FrontIs
<1>4. Len(q) = n + 1 /\ At(q, k) = At(p, k) /\ (j <= k => SubSeq(q, j, k - 1) = SubSeq(p, j, k - 1))
  BY WithNul
<1>5. Suits(v, q, i, j, k)
  <2> HIDE DEF v, q
  <2>1. k <= Len(q)
    BY <1>0, <1>4
  <2> QED
    BY <1>3, <1>4, <2>1 DEF Suits
<1>6. Len(v) \in Nat /\ Len(q) \in Nat /\ i \in 1..Len(v) /\ j \in 1..(Len(q) + 1) /\ k \in 1..(Len(q) + 1)
  BY <1>0, <1>2, <1>3, <1>4
<1>7. Fits(v, q, i + 1, k)
  BY <1>1
<1> HIDE DEF v, q
<1>8. Fits(v, q, i, j)
  BY <1>5, <1>6, <1>7, FitsStep
<1> QED
  BY <1>1, <1>2, <1>8 DEF Over, v, q

LEMMA OverBase ==
  ASSUME NEW w \in Seq(Element), NEW p \in Text, NEW i \in 1..Len(w),
         w[i].kind \in {"one", "list"}, Takes(w[i], << 0 >>, 0)
  PROVE  Over(w, p, i, Len(p) + 1)
<1> DEFINE n == Len(p)
           m == Len(w)
           q == Append(p, 0)
           v == SubSeq(w, 1, i)
<1>0. n \in Nat /\ m \in Nat /\ i \in i..m /\ i \in 1..i
  BY TextIs
<1>1. Len(v) = i /\ v[i] = w[i]
  BY <1>0, FrontIs
<1>2. Len(q) = n + 1 /\ At(q, n + 2) = 0 /\ SubSeq(q, n + 1, n + 1) = << 0 >>
  BY WithNul
<1>3. Suits(v, q, i, n + 1, n + 2)
  <2> HIDE DEF v, q
  <2>1. n + 1 <= n + 2 /\ (n + 2) - 1 = n + 1 /\ ~(i < Len(v))
    BY <1>0, <1>1
  <2> QED
    BY <1>1, <1>2, <2>1 DEF Suits
<1>4. /\ Len(v) \in Nat /\ Len(q) \in Nat /\ i \in 1..Len(v) /\ n + 1 \in 1..(Len(q) + 1)
      /\ n + 2 \in 1..(Len(q) + 1) /\ i + 1 = Len(v) + 1 /\ n + 2 = Len(q) + 1
  BY <1>0, <1>1, <1>2
<1> HIDE DEF v, q
<1>5. Fits(v, q, i + 1, n + 2)
  BY <1>4, FitsLast
<1>6. Fits(v, q, i, n + 1)
  BY <1>3, <1>4, <1>5, FitsStep
<1> QED
  BY <1>0, <1>6 DEF Over, v, q

(* What wildcard() finds from element i on is right                         *)
Right(w, p, i) ==
  LET out == WildcardFrom(w, p)[i]
  IN  /\ out[Len(p) + 2] \in Results \ {{FALSE}}
      /\ \A j \in 1..(Len(p) + 1) :
           /\ out[j] \in Results
           /\ Fits(w, p, i, j) => out[j] = {TRUE}
           /\ ~Fits(w, p, i, j) /\ ~Over(w, p, i, j) => out[j] = {FALSE}

LEMMA RightAtEnd ==
  ASSUME NEW w \in Seq(Element), NEW p \in Text
  PROVE  Right(w, p, Len(w) + 1)
<1> DEFINE n == Len(p)
           m == Len(w)
           out == WildcardFrom(w, p)[m + 1]
<1>0. n \in Nat /\ m \in Nat /\ m + 1 \in 1..(m + 1) /\ m + 1 # m /\ m + 1 > m
  BY TextIs
<1>1. out = Level(w, p, m + 1, WildcardFrom(w, p)[m + 1 + 1])
  BY <1>0, LevelsAre
<1> HIDE DEF out
<1>2. \A j \in 1..(n + 2) : out[j] = IF j > n + 1 THEN BOOLEAN ELSE {j = n + 1}
  BY <1>0, <1>1 DEF Level
<1>3. out[n + 2] = BOOLEAN /\ \A j \in 1..(n + 1) : out[j] = {j = n + 1}
  <2>1. n + 2 \in 1..(n + 2) /\ n + 2 > n + 1
    BY <1>0
  <2>2. \A j \in 1..(n + 1) : j \in 1..(n + 2) /\ ~(j > n + 1)
    BY <1>0
  <2>3. out[n + 2] = BOOLEAN
    BY <1>2, <2>1
  <2>4. \A j \in 1..(n + 1) : out[j] = {j = n + 1}
    BY <1>2, <2>2
  <2> QED
    BY <2>3, <2>4
<1>4. \A j \in 1..(n + 1) : Fits(w, p, m + 1, j) <=> j = n + 1
  BY <1>0, FitsLast
<1>5. \A j \in 1..(n + 1) : /\ j = n + 1 => out[j] = {TRUE}
                            /\ j # n + 1 => out[j] = {FALSE}
  BY <1>3
<1>6. BOOLEAN # {FALSE}
  OBVIOUS
<1> QED
  BY <1>3, <1>4, <1>5, <1>6 DEF Right, Results, out

LEMMA RightBefore ==
  ASSUME NEW w \in Seq(Element), NEW p \in Text, NEW i \in 1..Len(w), Right(w, p, i + 1)
  PROVE  Right(w, p, i)
<1> DEFINE n == Len(p)
           m == Len(w)
           e == w[i]
           out == WildcardFrom(w, p)[i]
           below == WildcardFrom(w, p)[i + 1]
<1>0. n \in Nat /\ m \in Nat /\ i \in 1..(m + 1) /\ ~(i > m) /\ e \in Element /\ i + 1 \in 1..(m + 1)
  <2>1. n \in Nat /\ m \in Nat
    BY TextIs
  <2>2. e \in Element
    OBVIOUS
  <2> QED
    BY <2>1, <2>2
<1>1. out = Level(w, p, i, below)
  BY <1>0, LevelsAre
<1>2. /\ below[n + 2] \in Results /\ below[n + 2] # {FALSE}
      /\ \A k \in 1..(n + 1) :
           /\ below[k] \in Results
           /\ Fits(w, p, i + 1, k) => below[k] = {TRUE}
           /\ ~Fits(w, p, i + 1, k) /\ ~Over(w, p, i + 1, k) => below[k] = {FALSE}
  BY DEF Right
<1>3. \A j \in 1..(n + 1) : Fits(w, p, i, j) <=> \E k \in 1..(n + 1) : Suits(w, p, i, j, k) /\ Fits(w, p, i + 1, k)
  BY <1>0, FitsStep
<1> HIDE DEF out, below
<1>4. CASE i = m /\ e.kind = "star"
  <2>1. \A j \in 1..(n + 2) : out[j] = {TRUE}
    BY <1>1, <1>4 DEF Level
  <2>2. \A j \in 1..(n + 1) : Fits(w, p, i, j)
    <3> TAKE j \in 1..(n + 1)
    <3>1. n + 1 \in 1..(n + 1) /\ j <= n + 1 /\ ~(i < m)
      BY <1>0, <1>4
    <3>2. Takes(e, SubSeq(p, j, (n + 1) - 1), At(p, n + 1))
      BY <1>4 DEF Takes, Says
    <3>3. Suits(w, p, i, j, n + 1)
      BY <3>1, <3>2 DEF Suits
    <3>4. Fits(w, p, i + 1, n + 1)
      BY <1>0, <1>4, <3>1, FitsLast
    <3> QED
      BY <1>3, <3>1, <3>3, <3>4
  <2>3. n + 2 \in 1..(n + 2) /\ \A j \in 1..(n + 1) : j \in 1..(n + 2)
    BY <1>0
  <2>4. {TRUE} # {FALSE}
    OBVIOUS
  <2> QED
    BY <2>1, <2>2, <2>3, <2>4 DEF Right, Results, out
<1>5. CASE ~(i = m /\ e.kind = "star")
  <2> DEFINE L(j) == Leads(e, p, j)
             Under(j) == { below[k] : k \in L(j) }
  <2>1. out[n + 2] = BOOLEAN /\ \A j \in 1..(n + 1) : out[j] = Either(Under(j))
    <3>1. \A j \in 1..(n + 2) : out[j] = IF j > n + 1 THEN BOOLEAN ELSE Either(Under(j))
      BY <1>0, <1>1, <1>5 DEF Level
    <3>2. n + 2 \in 1..(n + 2) /\ n + 2 > n + 1 /\ \A j \in 1..(n + 1) : j \in 1..(n + 2) /\ ~(j > n + 1)
      BY <1>0
    <3> QED
      BY <3>1, <3>2
  <2>2. ASSUME NEW j \in 1..(n + 1)
        PROVE  /\ \A k \in L(j) : k \in 1..(n + 1) \/ k = n + 2
               /\ \A k \in 1..(n + 1) : k \in L(j) <=> Suits(w, p, i, j, k)
               /\ n + 2 \in L(j) => Over(w, p, i, j)
    <3>1. CASE e.kind = "star"
      <4>1. L(j) = j..n
        BY <3>1 DEF Leads, Stars
      <4>2. \A k \in 1..(n + 1) : Suits(w, p, i, j, k) <=> j <= k /\ k <= n
        <5>1. i < m
          BY <1>0, <1>5, <3>1
        <5> QED
          BY <3>1, <5>1 DEF Suits, Takes, Says
      <4> HIDE DEF L
      <4> QED
        BY <1>0, <4>1, <4>2
    <3>2. CASE e.kind # "star"
      <4>1. Led(e, p, j)
        BY <1>0, <3>2, LeadsAre
      <4>2. \A k \in 1..(n + 1) : k \in L(j) <=> Suits(w, p, i, j, k)
        BY <3>2, <4>1 DEF Led, Suits
      <4>3. \A k \in L(j) : k \in j..(n + 2)
        BY <4>1 DEF Led
      <4>4. n + 2 \in L(j) => Over(w, p, i, j)
        BY <4>1, OverBase DEF Led
      <4> HIDE DEF L
      <4>5. \A k \in L(j) : k \in 1..(n + 1) \/ k = n + 2
        BY <1>0, <4>3
      <4> QED
        BY <4>2, <4>4, <4>5
    <3> QED
      BY <3>1, <3>2
  <2> HIDE DEF L
  <2>3. ASSUME NEW j \in 1..(n + 1)
        PROVE  /\ out[j] \in Results
               /\ Fits(w, p, i, j) => out[j] = {TRUE}
               /\ ~Fits(w, p, i, j) /\ ~Over(w, p, i, j) => out[j] = {FALSE}
    <3>0. out[j] = Either(Under(j))
      BY <2>1
    <3>1. Under(j) \in SUBSET Results
      BY <1>2, <2>2
    <3>2. ASSUME Fits(w, p, i, j) PROVE {TRUE} \in Under(j)
      <4>1. PICK k \in 1..(n + 1) : Suits(w, p, i, j, k) /\ Fits(w, p, i + 1, k)
        BY <1>3, <3>2
      <4>2. k \in L(j) /\ below[k] = {TRUE}
        BY <1>2, <2>2, <4>1
      <4> QED
        BY <4>2
    <3>3. ASSUME ~Fits(w, p, i, j), ~Over(w, p, i, j), NEW k \in L(j) PROVE below[k] = {FALSE}
      <4>1. k \in 1..(n + 1)
        BY <2>2, <3>3
      <4>2. Suits(w, p, i, j, k)
        BY <2>2, <3>3, <4>1
      <4>3. ~Fits(w, p, i + 1, k)
        BY <1>3, <3>3, <4>1, <4>2
      <4>4. ~Over(w, p, i + 1, k)
        BY <3>3, <4>1, <4>2, OverStep
      <4> QED
        BY <1>2, <4>1, <4>3, <4>4
    <3>4. ~Fits(w, p, i, j) /\ ~Over(w, p, i, j) => \A r \in Under(j) : r = {FALSE}
      BY <3>3
    <3> HIDE DEF Under
    <3> QED
      BY <3>0, <3>1, <3>2, <3>4, EitherIs
  <2>4. BOOLEAN \in Results \ {{FALSE}}
    BY DEF Results
  <2> QED
    BY <2>1, <2>3, <2>4 DEF Right, out
<1> QED
  BY <1>4, <1>5

LEMMA RightAll ==
  ASSUME NEW w \in Seq(Element), NEW p \in Text, NEW i \in 1..(Len(w) + 1)
  PROVE  Right(w, p, i)
<1> DEFINE m == Len(w)
           T == { d \in 0..m : ~Right(w, p, m + 1 - d) }
<1>0. m \in Nat
  OBVIOUS
<1>1. T = {}
  <2>1. SUFFICES ASSUME T # {} PROVE FALSE
    OBVIOUS
  <2>2. T \in SUBSET Nat
    BY <1>0
  <2>3. PICK d \in T : \A k \in T : d <= k
    <3> HIDE DEF T
    <3> QED
      BY <2>1, <2>2, LeastMember
  <2>4. d \in 0..m /\ ~Right(w, p, m + 1 - d)
    BY <2>3
  <2>5. d # 0
    <3>1. d = 0 => m + 1 - d = m + 1
      BY <1>0
    <3> QED
      BY <2>4, <3>1, RightAtEnd
  <2>6. d - 1 \in 0..m /\ ~(d <= d - 1) /\ m + 1 - d \in 1..m /\ m + 1 - (d - 1) = (m + 1 - d) + 1
    BY <1>0, <2>4, <2>5
  <2>7. Right(w, p, (m + 1 - d) + 1)
    BY <2>3, <2>6
  <2>8. Right(w, p, m + 1 - d)
    BY <2>6, <2>7, RightBefore
  <2> QED
    BY <2>4, <2>8
<1>2. m + 1 - i \in 0..m /\ m + 1 - (m + 1 - i) = i
  BY <1>0
<1> QED
  BY <1>1, <1>2

LEMMA WildcardIs ==
  ASSUME NEW w \in Seq(Element), NEW p \in Text
  PROVE  /\ Matches(w, p) => wildcard(w, p) = {TRUE}
         /\ ~Matches(w, p) /\ ~Overruns(w, p) => wildcard(w, p) = {FALSE}
<1> DEFINE m == Len(w)
           q == Append(p, 0)
<1>0. m \in Nat /\ Len(p) \in Nat /\ 1 \in 1..(m + 1) /\ 1 \in 1..(Len(p) + 1) /\ DOMAIN w = 1..m
  BY TextIs
<1>1. Right(w, p, 1)
  BY <1>0, RightAll
<1>2. Matches(w, p) <=> Fits(w, p, 1, 1)
  BY <1>0, MatchesIs
<1>3. ASSUME Over(w, p, 1, 1) PROVE Overruns(w, p)
  <2>1. PICK k \in 1..m : w[k].kind \in {"one", "list"} /\ Fits(SubSeq(w, 1, k), q, 1, 1)
    BY <1>3 DEF Over
  <2> DEFINE v == SubSeq(w, 1, k)
  <2>2. v \in Seq(Element) /\ Len(v) = k
    BY FrontIs
  <2> HIDE DEF v
  <2>3. Len(v) \in Nat /\ DOMAIN v = 1..Len(v)
    BY <2>2
  <2>4. Matches(v, q)
    BY <2>1, <2>3, MatchesIs DEF v
  <2> QED
    BY <1>0, <2>1, <2>4 DEF Overruns, v
<1> QED
  BY <1>0, <1>1, <1>2, <1>3 DEF Right, wildcard

(* The places where a text is cut do not go back                            *)
LEMMA CutsRise ==
  ASSUME NEW m \in Nat, NEW n \in Nat, NEW cut \in [1..(m + 1) -> 1..(n + 1)],
         \A i \in 1..m : cut[i] <= cut[i + 1],
         NEW a \in 1..(m + 1), NEW b \in a..(m + 1)
  PROVE  cut[a] <= cut[b]
<1> DEFINE G == { d \in 0..(m + 1 - a) : cut[a] <= cut[a + d] }
<1>1. 0 \in G
  OBVIOUS
<1>2. \A d \in 1..(m + 1 - a) : d - 1 \in G => d \in G
  <2> TAKE d \in 1..(m + 1 - a)
  <2> HAVE d - 1 \in G
  <2>1. a + (d - 1) \in 1..m /\ a + (d - 1) + 1 = a + d /\ a + d \in 1..(m + 1) /\ d \in 0..(m + 1 - a)
    OBVIOUS
  <2>2. cut[a + (d - 1)] <= cut[a + d]
    BY <2>1
  <2>3. cut[a] \in 1..(n + 1) /\ cut[a + (d - 1)] \in 1..(n + 1) /\ cut[a + d] \in 1..(n + 1)
    BY <2>1
  <2>4. cut[a] <= cut[a + (d - 1)]
    OBVIOUS
  <2> QED
    BY <2>1, <2>2, <2>3, <2>4
<1> HIDE DEF G
<1>3. \A d \in 0..(m + 1 - a) : d \in G
  <2>1. m + 1 - a \in Nat
    OBVIOUS
  <2> QED
    BY <1>1, <1>2, <2>1, UpTo
<1>4. b - a \in 0..(m + 1 - a) /\ a + (b - a) = b
  OBVIOUS
<1> QED
  BY <1>3, <1>4 DEF G

(* Without lists the code takes an element for what the manual says         *)
LEMMA SaidAsTaken ==
  ASSUME NEW e, NEW s, NEW next, e.kind # "list"
  PROVE  Says(e, s, next) <=> Takes(e, s, next)
BY DEF Takes

LEMMA ListlessIs ==
  ASSUME NEW w \in Seq(Element), NEW p \in Text, Listless(w), Matches(w, p)
  PROVE  Documented(w, p)
<1>1. \A i \in DOMAIN w : \A s, next : Says(w[i], s, next) <=> Takes(w[i], s, next)
  BY SaidAsTaken DEF Listless
<1> QED
  BY <1>1 DEF Matches, Documented

(* An element that needs a byte does not take the empty string              *)
LEMMA ByteNeeded ==
  ASSUME NEW e \in Element, NeedsByte(e), NEW next
  PROVE  ~Says(e, << >>, next)
<1>1. CASE e.kind = "byte"
  BY <1>1 DEF Says, FoldAll
<1>2. CASE e.kind = "words"
  <2>1. \A x : FoldAll(x) = FoldAll(<< >>) => DOMAIN x = {}
    BY DEF FoldAll
  <2>2. \A x \in e.words : x \in Seq(1..255)
    <3>1. e.words \subseteq Text
      BY <1>2, ElementIs
    <3> QED
      BY <3>1 DEF Text
  <2>3. \A x \in Seq(1..255) : DOMAIN x = {} => x = << >>
    OBVIOUS
  <2> QED
    BY <1>2, <2>1, <2>2, <2>3 DEF Says, NeedsByte
<1>3. CASE e.kind \in {"one", "list"}
  <2>1. Len(<< >>) # 1
    OBVIOUS
  <2>2. Says(e, << >>, next) => Len(<< >>) = 1
    BY <1>3 DEF Says
  <2> QED
    BY <2>1, <2>2, Zenon
<1>4. CASE e.kind = "range"
  BY <1>4 DEF Says
<1> QED
  BY <1>1, <1>2, <1>3, <1>4 DEF NeedsByte

LEMMA PlainIs ==
  ASSUME NEW w \in Seq(Element), NEW p \in Text, Plain(w), Documented(w, p)
  PROVE  Matches(w, p)
<1> DEFINE m == Len(w)
           n == Len(p)
<1>0. m \in Nat /\ n \in Nat /\ DOMAIN w = 1..m
  BY TextIs
<1>1. PICK cut \in [1..(m + 1) -> 1..(n + 1)] :
        /\ cut[1] = 1 /\ cut[m + 1] = n + 1
        /\ \A i \in 1..m : cut[i] <= cut[i + 1] /\ Says(w[i], SubSeq(p, cut[i], cut[i + 1] - 1), At(p, cut[i + 1]))
  BY <1>0 DEF Documented
<1>2. ASSUME NEW i \in 1..m
      PROVE  Takes(w[i], SubSeq(p, cut[i], cut[i + 1] - 1), At(p, cut[i + 1]))
  <2> DEFINE s == SubSeq(p, cut[i], cut[i + 1] - 1)
  <2>1. Says(w[i], s, At(p, cut[i + 1]))
    BY <1>1
  <2> HIDE DEF s
  <2>2. ASSUME w[i].kind = "list" PROVE Takes(w[i], s, At(p, cut[i + 1]))
    <3>1. Len(s) = 1
      BY <2>1, <2>2 DEF Says
    <3>2. PICK c \in w[i].bytes, d \in w[i].bytes : Fold(c) # Fold(d)
      BY <1>0, <2>2 DEF Plain
    <3>3. ~(\A b \in w[i].bytes : Fold(b) = Fold(s[1]))
      BY <3>2, Zenon
    <3> QED
      BY <2>2, <3>1, <3>3, Zenon DEF Takes
  <2>3. ASSUME w[i].kind # "list" PROVE Takes(w[i], s, At(p, cut[i + 1]))
    BY <2>1, <2>3, SaidAsTaken
  <2>4. Takes(w[i], s, At(p, cut[i + 1]))
    BY <2>2, <2>3
  <2> QED
    BY <2>4, Zenon DEF s
<1>3. ASSUME NEW i \in 1..m, w[i].kind = "star", i < m
      PROVE  cut[i + 1] <= n
  <2>1. PICK k \in (i + 1)..m : NeedsByte(w[k])
    BY <1>0, <1>3 DEF Plain
  <2>2. k \in 1..m /\ k + 1 \in 1..(m + 1) /\ i + 1 \in 1..(m + 1) /\ k \in (i + 1)..(m + 1)
        /\ m + 1 \in (k + 1)..(m + 1) /\ m + 1 \in 1..(m + 1)
    BY <1>0, <2>1
  <2>3. cut[i + 1] <= cut[k] /\ cut[k + 1] <= n + 1 /\ cut[k] <= cut[k + 1]
    <3>1. \A j \in 1..m : cut[j] <= cut[j + 1]
      BY <1>1
    <3>2. cut[i + 1] <= cut[k]
      BY <1>0, <2>2, <3>1, CutsRise
    <3> QED
      BY <2>2, <3>1, <3>2
  <2>4. cut[k] \in 1..(n + 1) /\ cut[k + 1] \in 1..(n + 1) /\ cut[i + 1] \in 1..(n + 1)
    BY <2>2
  <2>5. cut[k] # cut[k + 1]
    <3>1. SUFFICES ASSUME cut[k] = cut[k + 1] PROVE FALSE
      OBVIOUS
    <3> DEFINE s == SubSeq(p, cut[k], cut[k + 1] - 1)
    <3>2. Len(s) = 0 /\ s \in Seq(1..255)
      <4>1. p \in Seq(1..255)
        BY DEF Text
      <4> QED
        BY <1>0, <2>4, <3>1, <4>1, PartIs
    <3> HIDE DEF s
    <3>3. s = << >>
      BY <3>2
    <3>4. Says(w[k], s, At(p, cut[k + 1])) /\ w[k] \in Element
      BY <1>0, <1>1, <2>2 DEF s
    <3> QED
      BY <2>1, <3>3, <3>4, ByteNeeded
  <2> QED
    BY <1>0, <2>3, <2>4, <2>5
<1> QED
  BY <1>0, <1>1, <1>2, <1>3 DEF Matches

LEMMA WildcardAtFirst == NamesInit => WildcardExact
<1> SUFFICES ASSUME NamesInit, wild # <<>>
             PROVE  AsDocumented /\ SearchComplete
  BY DEF WildcardExact
<1>1. wild \in Seq(Element) /\ p1 \in Text
  BY NamingAssumption DEF NamesInit, Text
<1>2. SearchComplete
  BY <1>1, WildcardIs DEF SearchComplete
<1>3. Plain(wild) /\ Documented(wild, p1) => Matches(wild, p1)
  BY <1>1, PlainIs
<1>4. Listless(wild) /\ Matches(wild, p1) => Documented(wild, p1)
  BY <1>1, ListlessIs
<1> QED
  BY <1>2, <1>3, <1>4 DEF AsDocumented, SearchComplete

(* wildcard() matches what radmind(8) says a pattern matches, and without   *)
(* lists nothing else, except where the code and the manual part: a list of *)
(* one byte, a '*' before what may be empty, a '?' or list at the end of    *)
(* the text.  In all patterns it finds the way to lay them over the text if *)
(* there is one, in whatever order the places for a '*' and the strings in  *)
(* braces are tried.                                                        *)
THEOREM Matched == NamesSpec => []WildcardExact
BY AsChosen, WildcardAtFirst, PTL
-----------------------------------------------------------------------------
(* Lines                                                                    *)

(* Numbers down from n, one after the other                                 *)
LEMMA DownTo ==
  ASSUME NEW n \in Nat, NEW G, n \in G, \A k \in 1..n : k \in G => k - 1 \in G
  PROVE  \A k \in 0..n : k \in G
<1> DEFINE H == { k \in 0..n : n - k \in G }
<1>1. 0 \in H
  BY SMT
<1>2. \A k \in 1..n : k - 1 \in H => k \in H
  <2> TAKE k \in 1..n
  <2> HAVE k - 1 \in H
  <2>1. n - (k - 1) \in G /\ n - (k - 1) \in 1..n /\ n - (k - 1) - 1 = n - k /\ k \in 0..n
    OBVIOUS
  <2> QED
    BY <2>1
<1> HIDE DEF H
<1>3. \A k \in 0..n : k \in H
  BY <1>1, <1>2, UpTo
<1>4. \A k \in 0..n : n - k \in 0..n /\ n - (n - k) = k
  OBVIOUS
<1>5. \A k \in 0..n : n - k \in H => k \in G
  BY <1>4 DEF H
<1> QED
  BY <1>3, <1>4, <1>5

(* The strings of a sequence, joined one after the other                    *)
LEMMA FlattenIs ==
  ASSUME NEW T, NEW b \in Seq(Seq(T))
  PROVE  \E F : /\ F[0] = <<>> /\ F[Len(b)] = FlattenSeq(b)
                /\ \A k \in 1..Len(b) : F[k] = F[k - 1] \o b[k]
<1> DEFINE n == Len(b)
           B(k, before) == IF k = 1 THEN b[k] ELSE before \o b[k]
           Good(d, g) == g = [k \in 1..d |-> B(k, g[k - 1])]
           S == CHOOSE g : Good(n, g)
<1>0. n \in Nat /\ \A k \in 1..n : b[k] \in Seq(T)
  OBVIOUS
<1>1. n # 0 => FlattenSeq(b) = S[n]
  BY DEF FlattenSeq
<1>2. n = 0 => FlattenSeq(b) = <<>>
  BY EmptySeq DEF FlattenSeq
<1>3. \A x, y : B(1, x) = B(1, y)
  OBVIOUS
<1>4. \A k, x : k # 1 => B(k, x) = x \o b[k]
  OBVIOUS
<1>5. \A x : B(1, x) = b[1]
  OBVIOUS
<1> HIDE DEF B, S, n
<1>6. ASSUME NEW d \in 1..n, NEW g, Good(d - 1, g)
      PROVE  \E h : Good(d, h)
  <2> DEFINE h == [k \in 1..d |-> IF k = d THEN B(d, g[d - 1]) ELSE g[k]]
  <2>1. ASSUME NEW k \in 1..d PROVE h[k] = B(k, h[k - 1])
    <3>1. CASE k = d /\ k = 1
      <4>1. h[k] = B(d, g[d - 1])
        BY <3>1
      <4> QED
        BY <1>3, <3>1, <4>1
    <3>2. CASE k = d /\ k # 1
      <4>1. k - 1 \in 1..d /\ k - 1 # d
        BY <1>0, <3>2
      <4>2. h[k] = B(d, g[d - 1]) /\ h[k - 1] = g[k - 1]
        BY <3>2, <4>1
      <4> QED
        BY <3>2, <4>2
    <3>3. CASE k # d
      <4>1. k \in 1..(d - 1)
        BY <1>0, <3>3
      <4>2. h[k] = g[k] /\ g[k] = B(k, g[k - 1])
        BY <1>6, <3>3, <4>1
      <4>3. k # 1 => h[k - 1] = g[k - 1]
        <5>1. k # 1 => k - 1 \in 1..d /\ k - 1 # d
          BY <1>0, <4>1
        <5> QED
          BY <5>1
      <4>4. CASE k = 1
        BY <1>3, <4>2, <4>4
      <4> HIDE DEF h
      <4> QED
        BY <4>2, <4>3, <4>4
    <3> QED
      BY <3>1, <3>2, <3>3
  <2>2. h = [k \in 1..d |-> h[k]]
    OBVIOUS
  <2>3. h = [k \in 1..d |-> B(k, h[k - 1])]
    <3> HIDE DEF h
    <3> QED
      BY <2>1, <2>2
  <2> HIDE DEF h
  <2> QED
    BY <2>3
<1>7. \E g : Good(0, g)
  <2> DEFINE h == [k \in 1..0 |-> <<>>]
  <2>1. h = [k \in 1..0 |-> B(k, h[k - 1])]
    OBVIOUS
  <2> HIDE DEF h
  <2> QED
    BY <2>1
<1> HIDE DEF Good
<1>8. \A d \in 0..n : d \in { m \in 0..n : \E g : Good(m, g) }
  <2> DEFINE G == { m \in 0..n : \E g : Good(m, g) }
  <2>1. 0 \in G /\ n \in Nat
    BY <1>0, <1>7 DEF n
  <2>2. \A d \in 1..n : d - 1 \in G => d \in G
    <3> TAKE d \in 1..n
    <3> HAVE d - 1 \in G
    <3>1. PICK g : Good(d - 1, g)
      OBVIOUS
    <3>2. \E h : Good(d, h)
      BY <1>6, <3>1
    <3>3. d \in 0..n
      BY <2>1
    <3> QED
      BY <3>2, <3>3
  <2> HIDE DEF G
  <2>3. \A d \in 0..n : d \in G
    BY <2>1, <2>2, UpTo
  <2> QED
    BY <2>3 DEF G
<1>9. Good(n, S)
  <2>1. n \in 0..n
    BY <1>0 DEF n
  <2>2. \E g : Good(n, g)
    BY <1>8, <2>1
  <2> QED
    BY <2>2 DEF S
<1>10. \A k \in 1..n : S[k] = B(k, S[k - 1])
  BY <1>9 DEF Good
<1> DEFINE F == [k \in 0..n |-> IF k = 0 THEN <<>> ELSE S[k]]
<1>11. F[0] = <<>> /\ F[n] = FlattenSeq(b)
  <2>1. 0 \in 0..n /\ n \in 0..n
    BY <1>0 DEF n
  <2> QED
    BY <1>1, <1>2, <2>1
<1>12. ASSUME NEW k \in 1..n PROVE F[k] = F[k - 1] \o b[k]
  <2>1. n \in Nat /\ b[k] \in Seq(T)
    BY <1>0 DEF n
  <2>2. k \in 0..n /\ k - 1 \in 0..n /\ k # 0
    BY <2>1
  <2>3. F[k] = B(k, S[k - 1])
    BY <1>10, <2>2
  <2>4. CASE k = 1
    <3>1. F[k - 1] = <<>> /\ F[k] = b[k]
      BY <1>5, <2>2, <2>3, <2>4
    <3> HIDE DEF F
    <3>2. <<>> \o b[k] = b[k]
      BY <2>1, ConcatEmptySeq
    <3> QED
      BY <3>1, <3>2
  <2>5. CASE k # 1
    <3>1. k - 1 # 0
      BY <2>1, <2>5
    <3>2. F[k - 1] = S[k - 1]
      BY <2>2, <3>1
    <3> HIDE DEF F
    <3> QED
      BY <1>4, <2>3, <2>5, <3>2
  <2> QED
    BY <2>4, <2>5
<1> HIDE DEF F
<1>13. \A k \in 1..n : F[k] = F[k - 1] \o b[k]
  BY <1>12
<1> QED
  BY <1>11, <1>13 DEF n

Block(s, forShell, k) == EncodeByte(s[k], forShell)

(* What a byte is written as                                                *)
LEMMA LetterIs ==
  /\ DOMAIN Letter = {9, 10, 13, 32, 92}
  /\ Letter[9] = 116 /\ Letter[10] = 110 /\ Letter[13] = 114 /\ Letter[32] = 98 /\ Letter[92] = 92
BY DEF Letter, Tab, Newline, Return, Space, Backslash

LEMMA DecodeByteIs ==
  /\ DecodeByte(116) = 9 /\ DecodeByte(110) = 10 /\ DecodeByte(114) = 13
  /\ DecodeByte(98) = 32 /\ DecodeByte(92) = 92 /\ DecodeByte(32) = 32
<1> DEFINE D == DOMAIN Letter
<1>1. ASSUME NEW c, c # 32, NEW d \in D, Letter[d] = c, \A x \in D : Letter[x] = c => x = d
      PROVE  DecodeByte(c) = d
  <2>1. (CHOOSE x \in D : Letter[x] = c) = d
    BY <1>1
  <2> QED
    BY <1>1, <2>1 DEF DecodeByte, Space
<1>2. \A d \in D : d \in {9, 10, 13, 32, 92}
  BY LetterIs
<1>3. 9 \in D /\ 10 \in D /\ 13 \in D /\ 32 \in D /\ 92 \in D
  BY LetterIs
<1> HIDE DEF D
<1>4. DecodeByte(116) = 9
  BY <1>1, <1>2, <1>3, LetterIs
<1>5. DecodeByte(110) = 10
  BY <1>1, <1>2, <1>3, LetterIs
<1>6. DecodeByte(114) = 13
  BY <1>1, <1>2, <1>3, LetterIs
<1>7. DecodeByte(98) = 32
  BY <1>1, <1>2, <1>3, LetterIs
<1>8. DecodeByte(92) = 92
  BY <1>1, <1>2, <1>3, LetterIs
<1>9. DecodeByte(32) = 32
  BY DEF DecodeByte, Space
<1> QED
  BY <1>4, <1>5, <1>6, <1>7, <1>8, <1>9

(* A byte is written as itself, or as a backslash and another one           *)
Itself(c, b) == Len(b) = 1 /\ b[1] = c /\ c \notin {9, 10, 32, 92}
Escaped(c, b) == Len(b) = 2 /\ b[1] = 92 /\ b[2] \in {116, 110, 114, 98, 92, 32} /\ DecodeByte(b[2]) = c

LEMMA EncodeByteIs ==
  ASSUME NEW c \in 1..255, NEW forShell \in BOOLEAN
  PROVE  LET b == EncodeByte(c, forShell)
         IN  b \in Text /\ (Itself(c, b) \/ Escaped(c, b))
<1> DEFINE b == EncodeByte(c, forShell)
<1>1. CASE c = 32 /\ forShell
  <2>1. b = <<92, 32>>
    BY <1>1 DEF EncodeByte, Space, Backslash
  <2> HIDE DEF b
  <2>2. b \in Text
    BY <2>1 DEF Text
  <2> QED
    <3>1. Len(b) = 2 /\ b[1] = 92 /\ b[2] = 32
      BY <2>1
    <3>2. Escaped(c, b)
      BY <1>1, <3>1, DecodeByteIs DEF Escaped
    <3> QED
      BY <2>2, <3>2 DEF b
<1>2. CASE c \in DOMAIN Letter /\ ~(c = 32 /\ forShell)
  <2> DEFINE l == Letter[c]
  <2>1. b = <<92, l>>
    BY <1>2 DEF EncodeByte, Space, Backslash
  <2>2. c \in {9, 10, 13, 32, 92}
    BY <1>2, LetterIs
  <2>3. l \in {116, 110, 114, 98, 92} /\ DecodeByte(l) = c
    BY <2>2, LetterIs, DecodeByteIs
  <2> HIDE DEF b, l
  <2>4. l \in 1..255
    BY <2>3
  <2>5. b \in Text
    BY <2>1, <2>4 DEF Text
  <2> QED
    BY <2>1, <2>3, <2>5 DEF Escaped, b
<1>3. CASE c \notin DOMAIN Letter
  <2>1. b = <<c>> /\ c \notin {9, 10, 13, 32, 92}
    BY <1>3, LetterIs DEF EncodeByte, Space
  <2> HIDE DEF b
  <2>2. b \in Text
    BY <2>1 DEF Text
  <2> QED
    BY <2>1, <2>2 DEF Itself, b
<1> QED
  BY <1>1, <1>2, <1>3

(* Where what stands for each byte ends                                     *)
Ends(s, forShell, e, pos) ==
  /\ pos \in [0..Len(s) -> Nat] /\ pos[0] = 0 /\ pos[Len(s)] = Len(e)
  /\ \A k \in 1..Len(s) :
       /\ pos[k] = pos[k - 1] + Len(Block(s, forShell, k))
       /\ \A x \in 1..Len(Block(s, forShell, k)) : e[pos[k - 1] + x] = Block(s, forShell, k)[x]

LEMMA EndsThere ==
  ASSUME NEW s \in Text, NEW forShell \in BOOLEAN
  PROVE  LET e == encode_internal(s, forShell)
         IN  e \in Text /\ \E pos : Ends(s, forShell, e, pos)
<1> DEFINE n == Len(s)
           e == encode_internal(s, forShell)
           b == [k \in 1..n |-> Block(s, forShell, k)]
<1>0. n \in Nat /\ DOMAIN s = 1..n /\ \A k \in 1..n : s[k] \in 1..255
  BY TextIs
<1>1. \A k \in 1..n : Block(s, forShell, k) \in Text
  BY <1>0, EncodeByteIs DEF Block
<1>2. b \in Seq(Text) /\ Len(b) = n /\ \A k \in 1..n : b[k] = Block(s, forShell, k)
  <2>1. b \in [1..n -> Text]
    BY <1>1
  <2>2. b \in Seq(Text) /\ DOMAIN b = 1..n
    BY <1>0, <2>1, SeqDef
  <2>3. Len(b) = n
    BY <1>0, <2>2, LenProperties
  <2> QED
    BY <2>2, <2>3
<1>3. e = FlattenSeq(b)
  BY <1>0 DEF encode_internal, Block
<1> HIDE DEF b, e
<1>4. PICK F : F[0] = <<>> /\ F[n] = e /\ \A k \in 1..n : F[k] = F[k - 1] \o b[k]
  <2>1. b \in Seq(Seq(1..255))
    BY <1>2 DEF Text
  <2> QED
    BY <1>2, <1>3, <2>1, FlattenIs
<1>5. \A k \in 0..n : F[k] \in Text
  <2> DEFINE G == { k \in 0..n : F[k] \in Text }
  <2>1. 0 \in G
    <3>1. 0 \in 0..n /\ <<>> \in Text
      BY <1>0 DEF Text
    <3> QED
      BY <1>4, <3>1
  <2>2. \A k \in 1..n : k - 1 \in G => k \in G
    <3> TAKE k \in 1..n
    <3> HAVE k - 1 \in G
    <3>1. F[k - 1] \in Text /\ b[k] \in Text
      BY <1>1, <1>2
    <3>2. F[k - 1] \o b[k] \in Text
      BY <3>1, ConcatProperties DEF Text
    <3>3. k \in 0..n
      BY <1>0
    <3> QED
      BY <1>4, <3>2, <3>3
  <2> HIDE DEF G
  <2>3. \A k \in 0..n : k \in G
    BY <1>0, <2>1, <2>2, UpTo
  <2> QED
    BY <2>3 DEF G
<1>6. \A k \in 1..n : /\ b[k] \in Text /\ F[k - 1] \in Text /\ k - 1 \in 0..n /\ k \in 0..n
                      /\ Len(F[k - 1]) \in Nat /\ Len(b[k]) \in Nat
  <2>1. \A k \in 1..n : k - 1 \in 0..n /\ k \in 0..n
    BY <1>0
  <2> QED
    BY <1>1, <1>2, <1>5, <2>1, TextIs
<1>7. \A k \in 1..n :
        /\ Len(F[k]) = Len(F[k - 1]) + Len(b[k])
        /\ \A x \in 1..Len(F[k - 1]) : F[k][x] = F[k - 1][x]
        /\ \A x \in 1..Len(b[k]) : F[k][Len(F[k - 1]) + x] = b[k][x]
  <2> TAKE k \in 1..n
  <2> DEFINE f == F[k - 1]
             g == b[k]
             h == F[k]
  <2>1. f \in Text /\ g \in Text /\ Len(f) \in Nat /\ Len(g) \in Nat /\ h = f \o g
    BY <1>4, <1>6
  <2> HIDE DEF f, g, h
  <2>2. Len(h) = Len(f) + Len(g)
        /\ \A x \in 1..(Len(f) + Len(g)) : h[x] = IF x <= Len(f) THEN f[x] ELSE g[x - Len(f)]
    BY <2>1, ConcatProperties DEF Text
  <2>3. \A x \in 1..Len(f) : h[x] = f[x]
    BY <2>1, <2>2
  <2>4. \A x \in 1..Len(g) : h[Len(f) + x] = g[x]
    <3> TAKE x \in 1..Len(g)
    <3>1. Len(f) + x \in 1..(Len(f) + Len(g)) /\ ~(Len(f) + x <= Len(f)) /\ Len(f) + x - Len(f) = x
      BY <2>1
    <3> QED
      BY <2>2, <3>1
  <2> QED
    BY <2>2, <2>3, <2>4 DEF f, g, h
<1>8. ASSUME NEW k \in 0..n
      PROVE  \A x \in 1..Len(F[k]) : e[x] = F[k][x]
  <2> DEFINE G == { d \in 0..(n - k) : Len(F[k]) <= Len(F[k + d]) /\ \A x \in 1..Len(F[k]) : F[k + d][x] = F[k][x] }
  <2>0. n - k \in Nat /\ \A d \in 0..(n - k) : k + d \in 0..n
    BY <1>0
  <2>1. 0 \in G
    <3>1. k + 0 = k /\ Len(F[k]) \in Nat
      BY <1>5, TextIs
    <3> QED
      BY <2>0, <3>1
  <2>2. \A d \in 1..(n - k) : d - 1 \in G => d \in G
    <3> TAKE d \in 1..(n - k)
    <3> HAVE d - 1 \in G
    <3> DEFINE K1 == k + d
               u == F[k]
               v == F[K1 - 1]
               y == F[K1]
    <3>1. K1 \in 1..n /\ k + (d - 1) = K1 - 1 /\ d \in 0..(n - k)
      BY <2>0
    <3>2. Len(u) <= Len(v) /\ \A x \in 1..Len(u) : v[x] = u[x]
      BY <3>1
    <3> HIDE DEF K1
    <3>3. Len(y) = Len(v) + Len(b[K1]) /\ \A x \in 1..Len(v) : y[x] = v[x]
      BY <1>7, <3>1
    <3>4. Len(u) \in Nat /\ Len(v) \in Nat /\ Len(b[K1]) \in Nat
      BY <1>5, <1>6, <3>1, TextIs
    <3> HIDE DEF u, v, y
    <3>5. Len(u) <= Len(y) /\ \A x \in 1..Len(u) : y[x] = u[x]
      BY <3>2, <3>3, <3>4
    <3> QED
      BY <3>1, <3>5 DEF u, y, K1
  <2> HIDE DEF G
  <2>3. n - k \in G
    <3>1. \A d \in 0..(n - k) : d \in G
      BY <2>0, <2>1, <2>2, UpTo
    <3> QED
      BY <2>0, <3>1
  <2>4. k + (n - k) = n
    BY <1>0
  <2> QED
    BY <1>4, <2>3, <2>4 DEF G
<1> DEFINE pos == [k \in 0..n |-> Len(F[k])]
<1>9. pos \in [0..n -> Nat]
  BY <1>5, TextIs
<1>10. pos[0] = 0 /\ pos[n] = Len(e)
  BY <1>0, <1>4
<1>11. ASSUME NEW k \in 1..n
       PROVE  /\ pos[k] = pos[k - 1] + Len(Block(s, forShell, k))
              /\ \A x \in 1..Len(Block(s, forShell, k)) : e[pos[k - 1] + x] = Block(s, forShell, k)[x]
  <2>1. pos[k] = Len(F[k]) /\ pos[k - 1] = Len(F[k - 1])
    BY <1>6
  <2> HIDE DEF pos
  <2>2. b[k] = Block(s, forShell, k)
    BY <1>2
  <2>3. Len(F[k]) = Len(F[k - 1]) + Len(b[k]) /\ \A x \in 1..Len(b[k]) : F[k][Len(F[k - 1]) + x] = b[k][x]
    BY <1>7
  <2>4. \A x \in 1..Len(b[k]) : Len(F[k - 1]) + x \in 1..Len(F[k])
    <3> DEFINE u == Len(F[k - 1])
               v == Len(b[k])
    <3>1. u \in Nat /\ v \in Nat /\ Len(F[k]) = u + v
      BY <1>6, <2>3
    <3> HIDE DEF u, v
    <3>2. \A x \in 1..v : u + x \in 1..(u + v)
      BY <3>1
    <3> QED
      BY <3>1, <3>2 DEF u, v
  <2>5. \A x \in 1..Len(b[k]) : e[Len(F[k - 1]) + x] = b[k][x]
    BY <1>6, <1>8, <2>3, <2>4
  <2> QED
    BY <2>1, <2>2, <2>3, <2>5
<1>12. e \in Text
  BY <1>0, <1>4, <1>5
<1> HIDE DEF pos
<1>13. Ends(s, forShell, e, pos)
  BY <1>9, <1>10, <1>11 DEF Ends
<1> QED
  BY <1>12, <1>13 DEF e

LEMMA EndsAre ==
  ASSUME NEW s \in Text, NEW forShell \in BOOLEAN, NEW e \in Text, NEW pos, Ends(s, forShell, e, pos)
  PROVE  /\ \A k \in 0..Len(s) : pos[k] \in Nat /\ pos[k] <= Len(e)
         /\ \A k \in 1..Len(s) :
              \/ /\ pos[k] = pos[k - 1] + 1
                 /\ e[pos[k - 1] + 1] = s[k] /\ s[k] \notin {9, 10, 32, 92}
              \/ /\ pos[k] = pos[k - 1] + 2
                 /\ e[pos[k - 1] + 1] = 92 /\ DecodeByte(e[pos[k - 1] + 2]) = s[k]
                 /\ e[pos[k - 1] + 2] \in {116, 110, 114, 98, 92, 32}
<1> DEFINE n == Len(s)
<1>0. n \in Nat /\ Len(e) \in Nat /\ \A k \in 1..n : s[k] \in 1..255
  BY TextIs
<1>1. \A k \in 0..n : pos[k] \in Nat
  BY DEF Ends
<1>2. ASSUME NEW k \in 1..n
      PROVE  \/ /\ pos[k] = pos[k - 1] + 1
                /\ e[pos[k - 1] + 1] = s[k] /\ s[k] \notin {9, 10, 32, 92}
             \/ /\ pos[k] = pos[k - 1] + 2
                /\ e[pos[k - 1] + 1] = 92 /\ DecodeByte(e[pos[k - 1] + 2]) = s[k]
                /\ e[pos[k - 1] + 2] \in {116, 110, 114, 98, 92, 32}
  <2> DEFINE b == Block(s, forShell, k)
             c == s[k]
             i == pos[k - 1]
  <2>1. Itself(c, b) \/ Escaped(c, b)
    BY <1>0, EncodeByteIs DEF Block
  <2>2. pos[k] = i + Len(b) /\ \A x \in 1..Len(b) : e[i + x] = b[x]
    BY DEF Ends
  <2> HIDE DEF b, c, i
  <2>3. CASE Itself(c, b)
    <3>1. Len(b) = 1 /\ 1 \in 1..Len(b)
      BY <2>3 DEF Itself
    <3>2. pos[k] = i + 1 /\ e[i + 1] = c /\ c \notin {9, 10, 32, 92}
      BY <2>2, <2>3, <3>1 DEF Itself
    <3> QED
      BY <3>2 DEF i, c
  <2>4. CASE Escaped(c, b)
    <3>1. Len(b) = 2 /\ 1 \in 1..Len(b) /\ 2 \in 1..Len(b)
      BY <2>4 DEF Escaped
    <3>2. /\ pos[k] = i + 2 /\ e[i + 1] = 92 /\ DecodeByte(e[i + 2]) = c
          /\ e[i + 2] \in {116, 110, 114, 98, 92, 32}
      BY <2>2, <2>4, <3>1 DEF Escaped
    <3> QED
      BY <3>2 DEF i, c
  <2> QED
    BY <2>1, <2>3, <2>4
<1>3. \A k \in 1..n : pos[k - 1] <= pos[k] /\ k - 1 \in 0..n /\ k \in 0..n
  <2> TAKE k \in 1..n
  <2>1. k - 1 \in 0..n /\ k \in 0..n
    BY <1>0
  <2>2. pos[k] = pos[k - 1] + 1 \/ pos[k] = pos[k - 1] + 2
    BY <1>2
  <2> QED
    BY <1>1, <2>1, <2>2
<1>4. \A k \in 0..n : pos[k] <= Len(e)
  <2> DEFINE G == { k \in 0..n : pos[k] <= Len(e) }
  <2>1. n \in G
    BY <1>0 DEF Ends
  <2>2. \A k \in 1..n : k \in G => k - 1 \in G
    BY <1>0, <1>1, <1>3
  <2> HIDE DEF G
  <2>3. \A k \in 0..n : k \in G
    BY <1>0, <2>1, <2>2, DownTo
  <2> QED
    BY <2>3 DEF G
<1> QED
  BY <1>1, <1>2, <1>4

(* decode(), place by place                                                 *)
LEMMA DecodeIs ==
  ASSUME NEW line \in Text
  PROVE  \E D : /\ decode(line) = D[1]
                /\ \A i \in 1..(Len(line) + 1) :
                     D[i] = IF i > Len(line) THEN <<>>
                            ELSE IF line[i] = Backslash /\ i < Len(line) THEN <<DecodeByte(line[i + 1])>> \o D[i + 2]
                            ELSE <<line[i]>> \o D[i + 1]
<1> DEFINE L == Len(line)
           n == L + 1
           B(i, x, y) == IF i > L THEN <<>>
                         ELSE IF line[i] = Backslash /\ i < L THEN <<DecodeByte(line[i + 1])>> \o y
                         ELSE <<line[i]>> \o x
           Good(d, g) == g = [k \in (n - d)..n |-> B(k, g[k + 1], g[k + 2])]
           S == CHOOSE g : g = [k \in 1..n |-> B(k, g[k + 1], g[k + 2])]
<1>0. L \in Nat
  BY TextIs
<1>1. decode(line) = S[1]
  BY DEF decode
<1>2. \A x, y, u, v : B(n, x, y) = B(n, u, v)
  BY <1>0
<1>3. \A x, y, v : B(n - 1, x, y) = B(n - 1, x, v)
  BY <1>0
<1>6. n \in Nat /\ n # 0
  BY <1>0
<1> HIDE DEF B, S, n
<1>4. ASSUME NEW d \in 1..(n - 1), NEW g, Good(d - 1, g)
      PROVE  \E h : Good(d, h)
  <2> DEFINE h == [k \in (n - d)..n |-> IF k = n - d THEN B(n - d, g[n - d + 1], g[n - d + 2]) ELSE g[k]]
  <2>1. ASSUME NEW k \in (n - d)..n PROVE h[k] = B(k, h[k + 1], h[k + 2])
    <3>1. CASE k = n - d /\ d # 1
      <4>1. k + 1 \in (n - d)..n /\ k + 1 # n - d /\ k + 2 \in (n - d)..n /\ k + 2 # n - d
        BY <1>4, <1>6, <3>1
      <4>2. h[k] = B(n - d, g[n - d + 1], g[n - d + 2]) /\ h[k + 1] = g[k + 1] /\ h[k + 2] = g[k + 2]
        BY <3>1, <4>1
      <4> HIDE DEF h
      <4> QED
        BY <3>1, <4>2
    <3>2. CASE k = n - d /\ d = 1
      <4>1. k + 1 \in (n - d)..n /\ k + 1 # n - d /\ k = n - 1
        BY <1>4, <1>6, <3>2
      <4>2. h[k] = B(n - d, g[n - d + 1], g[n - d + 2]) /\ h[k + 1] = g[k + 1]
        BY <3>2, <4>1
      <4> HIDE DEF h
      <4>3. h[k] = B(n - 1, h[k + 1], g[k + 2])
        BY <3>2, <4>1, <4>2
      <4> QED
        BY <1>3, <4>1, <4>3
    <3>3. CASE k # n - d
      <4>1. k \in (n - (d - 1))..n /\ k \in (n - d)..n
        BY <1>4, <1>6, <3>3
      <4>2. h[k] = g[k] /\ g[k] = B(k, g[k + 1], g[k + 2])
        BY <1>4, <3>3, <4>1
      <4>3. CASE k = n
        <5> HIDE DEF h
        <5> QED
          BY <1>2, <4>2, <4>3
      <4>4. CASE k = n - 1
        <5>1. k + 1 \in (n - d)..n /\ k + 1 # n - d
          BY <1>4, <1>6, <4>1, <4>4
        <5>2. h[k + 1] = g[k + 1]
          BY <5>1
        <5> HIDE DEF h
        <5> QED
          BY <1>3, <4>2, <4>4, <5>2
      <4>5. CASE k # n /\ k # n - 1
        <5>1. k + 1 \in (n - d)..n /\ k + 1 # n - d /\ k + 2 \in (n - d)..n /\ k + 2 # n - d
          BY <1>4, <1>6, <4>1, <4>5
        <5>2. h[k + 1] = g[k + 1] /\ h[k + 2] = g[k + 2]
          BY <5>1
        <5> HIDE DEF h
        <5> QED
          BY <4>2, <5>2
      <4> QED
        BY <4>3, <4>4, <4>5
    <3> QED
      BY <3>1, <3>2, <3>3
  <2>2. h = [k \in (n - d)..n |-> h[k]]
    OBVIOUS
  <2>3. h = [k \in (n - d)..n |-> B(k, h[k + 1], h[k + 2])]
    <3> HIDE DEF h
    <3> QED
      BY <2>1, <2>2
  <2> HIDE DEF h
  <2> QED
    BY <2>3
<1>5. \E g : Good(0, g)
  <2> DEFINE h == [k \in (n - 0)..n |-> B(n, <<>>, <<>>)]
  <2>1. ASSUME NEW k \in (n - 0)..n PROVE h[k] = B(k, h[k + 1], h[k + 2])
    <3>1. k = n
      BY <1>6
    <3>2. h[k] = B(n, <<>>, <<>>)
      OBVIOUS
    <3> HIDE DEF h
    <3> QED
      BY <1>2, <3>1, <3>2
  <2>2. h = [k \in (n - 0)..n |-> h[k]]
    OBVIOUS
  <2>3. h = [k \in (n - 0)..n |-> B(k, h[k + 1], h[k + 2])]
    <3> HIDE DEF h
    <3> QED
      BY <2>1, <2>2
  <2> HIDE DEF h
  <2> QED
    BY <2>3
<1> HIDE DEF Good
<1>7. \E g : Good(n - 1, g)
  <2> DEFINE G == { d \in 0..(n - 1) : \E g : Good(d, g) }
  <2>0. n - 1 \in Nat /\ n - 1 \in 0..(n - 1)
    BY <1>6
  <2>1. 0 \in G
    BY <1>5, <2>0
  <2>2. \A d \in 1..(n - 1) : d - 1 \in G => d \in G
    <3> TAKE d \in 1..(n - 1)
    <3> HAVE d - 1 \in G
    <3>1. PICK g : Good(d - 1, g)
      OBVIOUS
    <3>2. \E h : Good(d, h)
      BY <1>4, <3>1
    <3>3. d \in 0..(n - 1)
      BY <2>0
    <3> QED
      BY <3>2, <3>3
  <2> HIDE DEF G
  <2>3. \A d \in 0..(n - 1) : d \in G
    BY <2>0, <2>1, <2>2, UpTo
  <2> QED
    BY <2>0, <2>3 DEF G
<1>8. n - (n - 1) = 1
  BY <1>6
<1>9. S = [k \in 1..n |-> B(k, S[k + 1], S[k + 2])]
  BY <1>7, <1>8 DEF S, Good
<1>10. \A i \in 1..n : S[i] = B(i, S[i + 1], S[i + 2])
  BY <1>9
<1> QED
  BY <1>1, <1>10 DEF B, n

LEMMA FirstAndRest ==
  ASSUME NEW s \in Text, NEW k \in 1..Len(s)
  PROVE  <<s[k]>> \o SubSeq(s, k + 1, Len(s)) = SubSeq(s, k, Len(s))
<1> DEFINE n == Len(s)
           u == <<s[k]>>
           v == SubSeq(s, k + 1, n)
           t == SubSeq(s, k, n)
           W == 1..255
<1>0. n \in Nat /\ k \in 1..(n + 1) /\ k + 1 \in 1..(n + 1) /\ n + 1 \in 1..(n + 1) /\ (n + 1) - 1 = n
      /\ k + 1 <= n + 1 /\ k <= n + 1
  BY TextIs
<1>1. s[k] \in W /\ s \in Seq(W)
  BY TextIs DEF Text
<1> HIDE DEF W
<1>2. u \in Seq(W) /\ Len(u) = 1 /\ u[1] = s[k]
  BY <1>1
<1>3. v \in Seq(W) /\ Len(v) = (n + 1) - (k + 1) /\ \A x \in 1..((n + 1) - (k + 1)) : v[x] = s[k + 1 + x - 1]
  <2>1. LET z == SubSeq(s, k + 1, (n + 1) - 1)
        IN  z \in Seq(W) /\ Len(z) = (n + 1) - (k + 1) /\ \A x \in 1..((n + 1) - (k + 1)) : z[x] = s[k + 1 + x - 1]
    BY <1>0, <1>1, PartIs
  <2> QED
    BY <1>0, <2>1
<1>4. t \in Seq(W) /\ Len(t) = (n + 1) - k /\ \A x \in 1..((n + 1) - k) : t[x] = s[k + x - 1]
  <2>1. LET z == SubSeq(s, k, (n + 1) - 1)
        IN  z \in Seq(W) /\ Len(z) = (n + 1) - k /\ \A x \in 1..((n + 1) - k) : z[x] = s[k + x - 1]
    BY <1>0, <1>1, PartIs
  <2> QED
    BY <1>0, <2>1
<1> HIDE DEF u, v, t
<1> DEFINE c == u \o v
<1>5. c \in Seq(W) /\ Len(c) = Len(u) + Len(v)
      /\ \A x \in 1..(Len(u) + Len(v)) : c[x] = IF x <= Len(u) THEN u[x] ELSE v[x - Len(u)]
  BY <1>2, <1>3, ConcatProperties
<1> HIDE DEF c
<1>6. Len(c) = Len(t)
  BY <1>0, <1>2, <1>3, <1>4, <1>5
<1>7. ASSUME NEW x \in 1..Len(c) PROVE c[x] = t[x]
  <2>0. x \in 1..((n + 1) - k) /\ Len(c) = (n + 1) - k
    BY <1>4, <1>6
  <2>1. t[x] = s[k + x - 1]
    BY <1>4, <2>0
  <2>2. CASE x = 1
    <3>1. c[x] = s[k] /\ k + x - 1 = k
      BY <1>2, <1>5, <2>2
    <3> QED
      BY <2>1, <3>1
  <2>3. CASE x # 1
    <3>1. x - 1 \in 1..((n + 1) - (k + 1)) /\ ~(x <= 1) /\ k + 1 + (x - 1) - 1 = k + x - 1
      BY <1>0, <2>0, <2>3
    <3>2. c[x] = v[x - 1]
      BY <1>2, <1>5, <3>1
    <3>3. v[x - 1] = s[k + 1 + (x - 1) - 1]
      BY <1>3, <3>1
    <3> QED
      BY <2>1, <3>1, <3>2, <3>3
  <2> QED
    BY <2>2, <2>3
<1>8. c = t
  BY <1>4, <1>5, <1>6, <1>7, SeqEqual
<1> QED
  BY <1>8 DEF c, u, v, t

(* A name is the same when it has been written and read                     *)
LEMMA DecodedIs ==
  ASSUME NEW s \in Text, NEW forShell \in BOOLEAN
  PROVE  decode(encode_internal(s, forShell)) = s
<1> DEFINE n == Len(s)
           e == encode_internal(s, forShell)
<1>0. n \in Nat /\ e \in Text
  BY TextIs, EndsThere
<1>1. PICK pos : Ends(s, forShell, e, pos)
  BY EndsThere
<1> HIDE DEF e
<1>2. Len(e) \in Nat
  BY <1>0, TextIs
<1>3. PICK D : /\ decode(e) = D[1]
               /\ \A i \in 1..(Len(e) + 1) :
                    D[i] = IF i > Len(e) THEN <<>>
                           ELSE IF e[i] = Backslash /\ i < Len(e) THEN <<DecodeByte(e[i + 1])>> \o D[i + 2]
                           ELSE <<e[i]>> \o D[i + 1]
  BY <1>0, DecodeIs
<1>4. \A k \in 0..n : D[pos[k] + 1] = SubSeq(s, k + 1, n)
  <2> DEFINE G == { k \in 0..n : D[pos[k] + 1] = SubSeq(s, k + 1, n) }
  <2>1. n \in G
    <3>1. pos[n] = Len(e)
      BY <1>1 DEF Ends
    <3>2. Len(e) + 1 \in 1..(Len(e) + 1) /\ Len(e) + 1 > Len(e)
      BY <1>2
    <3>3. D[Len(e) + 1] = <<>>
      BY <1>3, <3>2
    <3>4. SubSeq(s, n + 1, n) = <<>>
      BY <1>0, SubSeqEmpty
    <3>5. D[pos[n] + 1] = SubSeq(s, n + 1, n)
      BY <3>1, <3>3, <3>4
    <3>6. n \in 0..n
      BY <1>0
    <3> QED
      BY <3>5, <3>6
  <2>2. ASSUME NEW k \in 1..n, k \in G PROVE k - 1 \in G
    <3>1. k \in 0..n /\ k - 1 \in 0..n /\ (k - 1) + 1 = k
      BY <1>0
    <3> DEFINE i == pos[k - 1] + 1
               j == pos[k]
    <3>2. pos[k - 1] \in Nat /\ j \in Nat /\ j <= Len(e)
      BY <1>0, <1>1, <3>1, EndsAre
    <3>3. D[j + 1] = SubSeq(s, k + 1, n)
      BY <2>2
    <3>4. \/ j = i /\ e[i] = s[k] /\ s[k] # 92
          \/ j = i + 1 /\ e[i] = 92 /\ DecodeByte(e[i + 1]) = s[k]
      <4> DEFINE q == pos[k - 1]
      <4>1. \/ j = q + 1 /\ e[q + 1] = s[k] /\ s[k] # 92
            \/ j = q + 2 /\ e[q + 1] = 92 /\ DecodeByte(e[q + 2]) = s[k]
        BY <1>0, <1>1, EndsAre
      <4>2. q + 2 = (q + 1) + 1
        BY <3>2
      <4> QED
        BY <4>1, <4>2
    <3>5. i \in 1..(Len(e) + 1) /\ i \in Nat
      BY <1>2, <3>2, <3>4
    <3> HIDE DEF i, j
    <3>6. D[i] = <<s[k]>> \o D[j + 1]
      <4>1. CASE j = i /\ e[i] = s[k] /\ s[k] # 92
        <5>1. ~(i > Len(e))
          BY <1>2, <3>2, <4>1
        <5> QED
          BY <1>3, <3>5, <4>1, <5>1 DEF Backslash
      <4>2. CASE j = i + 1 /\ e[i] = 92 /\ DecodeByte(e[i + 1]) = s[k]
        <5>1. ~(i > Len(e)) /\ i < Len(e) /\ i + 2 = j + 1
          BY <1>2, <3>2, <3>5, <4>2
        <5> QED
          BY <1>3, <3>5, <4>2, <5>1 DEF Backslash
      <4> QED
        BY <3>4, <4>1, <4>2
    <3>7. D[i] = SubSeq(s, k, n)
      BY <3>3, <3>6, FirstAndRest
    <3> QED
      BY <3>1, <3>7 DEF i
  <2>3. \A k \in 1..n : k \in G => k - 1 \in G
    BY <2>2
  <2> HIDE DEF G
  <2>4. \A k \in 0..n : k \in G
    BY <1>0, <2>1, <2>3, DownTo
  <2> QED
    BY <2>4 DEF G
<1>5. 0 \in 0..n /\ pos[0] = 0 /\ 0 + 1 = 1
  BY <1>0, <1>1 DEF Ends
<1>6. D[1] = SubSeq(s, 1, n)
  BY <1>4, <1>5
<1>7. SubSeq(s, 1, n) = s
  BY SubSeqFull DEF Text
<1> QED
  BY <1>3, <1>6, <1>7 DEF e

(* The backslashes before a place                                           *)
LEMMA SlashesIs ==
  ASSUME NEW line, NEW i \in Place
  PROVE  /\ Slashes(line, i) \in Nat
         /\ Slashes(line, i + 1) = IF line[i] = 92 THEN Slashes(line, i) + 1 ELSE 0
<1> DEFINE A(j) == { k \in 1..(j - 1) : \A m \in k..(j - 1) : line[m] = Backslash }
<1>0. i \in Nat /\ i >= 1 /\ i + 1 - 1 = i
  BY DEF Place
<1>1. IsFiniteSet(A(i))
  <2>1. IsFiniteSet(1..(i - 1))
    BY <1>0, FS_Interval
  <2> QED
    BY <2>1, FS_Subset
<1>2. Slashes(line, i) = Cardinality(A(i)) /\ Slashes(line, i + 1) = Cardinality(A(i + 1))
  BY DEF Slashes
<1>3. Cardinality(A(i)) \in Nat
  BY <1>1, FS_CardinalityType
<1>4. CASE line[i] = 92
  <2> DEFINE H == { k \in 1..i : \A m \in k..i : line[m] = 92 }
             O == { k \in 1..(i - 1) : \A m \in k..(i - 1) : line[m] = 92 }
  <2>3. A(i + 1) = H /\ A(i) = O
    BY <1>0 DEF Backslash
  <2>4. ASSUME NEW k \in H PROVE k \in O \cup {i}
    <3>1. k = i \/ k \in 1..(i - 1)
      BY <1>0
    <3>2. \A m \in k..(i - 1) : m \in k..i
      BY <1>0
    <3> QED
      BY <3>1, <3>2
  <2>5. ASSUME NEW k \in O PROVE k \in H
    <3>1. k \in 1..i
      BY <1>0
    <3>2. \A m \in k..i : m \in k..(i - 1) \/ m = i
      BY <1>0
    <3>3. \A m \in k..i : line[m] = 92
      BY <1>4, <3>2
    <3> QED
      BY <3>1, <3>3
  <2>6. i \in H
    <3>1. i \in 1..i /\ \A m \in i..i : m = i
      BY <1>0
    <3>2. \A m \in i..i : line[m] = 92
      BY <1>4, <3>1
    <3> QED
      BY <3>1, <3>2
  <2>7. i \notin O
    BY <1>0
  <2> HIDE DEF A, H, O
  <2>8. H = O \cup {i}
    BY <2>4, <2>5, <2>6
  <2>2. A(i + 1) = A(i) \cup {i} /\ i \notin A(i)
    BY <2>3, <2>7, <2>8
  <2>9. Cardinality(A(i) \cup {i}) = Cardinality(A(i)) + 1
    BY <1>1, <2>2, FS_AddElement
  <2> QED
    BY <1>2, <1>3, <1>4, <2>2, <2>9
<1>5. CASE line[i] # 92
  <2>1. A(i + 1) = {}
    <3> SUFFICES ASSUME NEW k \in A(i + 1) PROVE FALSE
      OBVIOUS
    <3>1. i \in k..(i + 1 - 1)
      BY <1>0
    <3> QED
      BY <1>5, <3>1 DEF Backslash
  <2>2. Cardinality({}) = 0
    BY FS_EmptySet
  <2> HIDE DEF A
  <2> QED
    BY <1>2, <1>3, <1>5, <2>1, <2>2
<1> QED
  BY <1>4, <1>5

(* Nothing in a name that has been written ends a word                      *)
LEMMA NoWhite ==
  ASSUME NEW s \in Text, NEW forShell \in BOOLEAN, NEW line, NEW at \in Place, line[at] # 92,
         \A x \in 1..Len(encode_internal(s, forShell)) : line[at + x] = encode_internal(s, forShell)[x]
  PROVE  /\ \A x \in 1..Len(encode_internal(s, forShell)) : ~White(line, at + x)
         /\ Slashes(line, at + Len(encode_internal(s, forShell)) + 1) % 2 = 0
<1> DEFINE n == Len(s)
           e == encode_internal(s, forShell)
<1>0. n \in Nat /\ e \in Text /\ at \in Nat /\ at >= 1
  BY TextIs, EndsThere DEF Place
<1>1. PICK pos : Ends(s, forShell, e, pos)
  BY EndsThere
<1>2. \A x \in 1..Len(e) : line[at + x] = e[x]
  OBVIOUS
<1> HIDE DEF e
<1>3. Len(e) \in Nat
  BY <1>0, TextIs
<1>4. \A k \in 0..n : pos[k] \in Nat /\ pos[k] <= Len(e)
  BY <1>0, <1>1, EndsAre
<1>5. pos[0] = 0 /\ pos[n] = Len(e) /\ \A k \in 1..n : k \in 0..n /\ k - 1 \in 0..n
  BY <1>0, <1>1 DEF Ends
<1>6. \A k \in 1..n :
        \/ /\ pos[k] = pos[k - 1] + 1
           /\ e[pos[k - 1] + 1] \notin {9, 10, 32, 92}
        \/ /\ pos[k] = pos[k - 1] + 2
           /\ e[pos[k - 1] + 1] = 92 /\ e[pos[k - 1] + 2] \in {116, 110, 114, 98, 92, 32}
  BY <1>0, <1>1, EndsAre
<1> DEFINE Sl(i) == Slashes(line, i)
<1>7. \A i \in Place : Sl(i) \in Nat /\ Sl(i + 1) = IF line[i] = 92 THEN Sl(i) + 1 ELSE 0
  BY SlashesIs
<1> HIDE DEF Sl
<1>8. ASSUME NEW k \in 1..n, Sl(at + pos[k - 1] + 1) % 2 = 0
      PROVE  /\ Sl(at + pos[k] + 1) % 2 = 0
             /\ \A x \in (pos[k - 1] + 1)..pos[k] : ~White(line, at + x)
  <2> DEFINE q == pos[k - 1]
             r == pos[k]
             i == at + q + 1
  <2>1. q \in Nat /\ r \in Nat /\ r <= Len(e)
    BY <1>4, <1>5
  <2>2. \/ r = q + 1 /\ e[q + 1] \notin {9, 10, 32, 92}
        \/ r = q + 2 /\ e[q + 1] = 92 /\ e[q + 2] \in {116, 110, 114, 98, 92, 32}
    BY <1>6
  <2>3. Sl(i) % 2 = 0
    BY <1>8
  <2> HIDE DEF q, r
  <2>4. i \in Place /\ i + 1 \in Place /\ i = at + (q + 1) /\ i + 1 = at + (q + 2)
    BY <1>0, <2>1 DEF Place
  <2>5. q + 1 \in 1..Len(e)
    BY <1>3, <2>1, <2>2
  <2>6. line[i] = e[q + 1]
    BY <1>2, <2>4, <2>5
  <2> HIDE DEF i
  <2>7. CASE r = q + 1 /\ e[q + 1] \notin {9, 10, 32, 92}
    <3>1. Sl(i + 1) = 0
      BY <1>7, <2>4, <2>6, <2>7
    <3>2. ~White(line, i)
      BY <2>6, <2>7 DEF White, Tab, Newline, Space
    <3>3. at + r + 1 = i + 1 /\ \A x \in (q + 1)..r : at + x = i
      BY <1>0, <2>1, <2>4, <2>7
    <3>4. 0 % 2 = 0
      OBVIOUS
    <3> QED
      BY <3>1, <3>2, <3>3, <3>4 DEF q, r
  <2>8. CASE r = q + 2 /\ e[q + 1] = 92 /\ e[q + 2] \in {116, 110, 114, 98, 92, 32}
    <3>1. q + 2 \in 1..Len(e)
      BY <1>3, <2>1, <2>8
    <3>2. line[i + 1] = e[q + 2]
      BY <1>2, <2>4, <3>1
    <3>3. Sl(i) \in Nat /\ Sl(i + 1) = Sl(i) + 1
      BY <1>7, <2>4, <2>6, <2>8, SMTT(20), ZenonT(30)
    <3>4. Sl(i + 1) % 2 = 1 /\ (Sl(i + 1) + 1) % 2 = 0
      <4> DEFINE z == Sl(i)
      <4>1. z \in Nat /\ z % 2 = 0
        BY <2>3, <3>3
      <4> HIDE DEF z
      <4>2. (z + 1) % 2 = 1 /\ (z + 1 + 1) % 2 = 0
        BY <4>1
      <4> QED
        BY <3>3, <4>2 DEF z
    <3>5. Sl(i + 1 + 1) = Sl(i + 1) + 1 \/ Sl(i + 1 + 1) = 0
      BY <1>7, <2>4
    <3>6. Sl(i + 1 + 1) % 2 = 0
      BY <3>4, <3>5
    <3>7. ~White(line, i)
      BY <2>6, <2>8 DEF White, Tab, Newline, Space
    <3>8. ~White(line, i + 1)
      BY <2>8, <3>2, <3>4 DEF White, Tab, Newline, Space, Sl
    <3>9. at + r + 1 = i + 1 + 1 /\ \A x \in (q + 1)..r : at + x = i \/ at + x = i + 1
      BY <1>0, <2>1, <2>4, <2>8
    <3> QED
      BY <3>6, <3>7, <3>8, <3>9 DEF q, r
  <2> QED
    BY <2>2, <2>7, <2>8
<1>9. \A k \in 0..n : Sl(at + pos[k] + 1) % 2 = 0
  <2> DEFINE G == { k \in 0..n : Sl(at + pos[k] + 1) % 2 = 0 }
  <2>1. 0 \in G
    <3>1. Sl(at + 1) = 0 /\ at + 0 + 1 = at + 1 /\ 0 % 2 = 0 /\ 0 \in 0..n
      BY <1>0, <1>7
    <3> QED
      BY <1>5, <3>1
  <2>2. \A k \in 1..n : k - 1 \in G => k \in G
    BY <1>5, <1>8
  <2> HIDE DEF G
  <2>3. \A k \in 0..n : k \in G
    BY <1>0, <2>1, <2>2, UpTo
  <2> QED
    BY <2>3 DEF G
<1>10. ASSUME NEW x \in 1..Len(e) PROVE ~White(line, at + x)
  <2> DEFINE T == { k \in 0..n : x <= pos[k] }
  <2>1. n \in T /\ T \in SUBSET Nat
    <3>1. n \in 0..n /\ x <= pos[n]
      BY <1>0, <1>5
    <3> QED
      BY <3>1
  <2>2. PICK k \in T : \A h \in T : k <= h
    <3> HIDE DEF T
    <3> QED
      BY <2>1, LeastMember
  <2>3. k \in 0..n /\ x <= pos[k] /\ k # 0
    BY <1>5, <2>2
  <2>4. k \in 1..n /\ ~(k <= k - 1) /\ k - 1 \in 0..n
    BY <2>3
  <2>5. k - 1 \notin T
    BY <2>2, <2>4
  <2>6. ~(x <= pos[k - 1])
    BY <2>4, <2>5
  <2>7. x \in (pos[k - 1] + 1)..pos[k]
    BY <1>4, <2>3, <2>4, <2>6
  <2> QED
    BY <1>8, <1>9, <2>4, <2>7
<1>11. Sl(at + Len(e) + 1) % 2 = 0
  <2>1. n \in 0..n /\ pos[n] = Len(e)
    BY <1>0, <1>5
  <2> QED
    BY <1>9, <2>1
<1> QED
  BY <1>10, <1>11 DEF e, Sl

(* The last word, with a byte more                                          *)
Grown(v, c) == [v EXCEPT ![Len(v)] = Append(v[Len(v)], c)]

(* What the parser has before and after each byte                           *)
Read(line, W) ==
  \A i \in 1..Len(line) :
    W[i] = IF White(line, i) THEN W[i - 1]
           ELSE IF i = 1 \/ White(line, i - 1) THEN Append(W[i - 1], <<line[i]>>)
           ELSE Grown(W[i - 1], line[i])

(* acav_parse(), byte by byte                                               *)
LEMMA WordsAre ==
  ASSUME NEW line \in Text
  PROVE  \E W : /\ W[0] = <<>> /\ acav_parse(line) = W[Len(line)]
                /\ Read(line, W)
<1> DEFINE n == Len(line)
           B(i, before) ==
             IF i = 0 THEN <<>>
             ELSE IF White(line, i) THEN before
             ELSE IF i = 1 \/ White(line, i - 1) THEN Append(before, <<line[i]>>)
             ELSE Grown(before, line[i])
           Good(d, g) == g = [k \in 0..d |-> B(k, g[k - 1])]
           S == CHOOSE g : Good(n, g)
<1>0. n \in Nat
  BY TextIs
<1>1. acav_parse(line) = S[n]
  BY DEF acav_parse, Grown
<1>2. \A x, y : B(0, x) = B(0, y)
  OBVIOUS
<1>3. \A x : B(0, x) = <<>>
  OBVIOUS
<1> HIDE DEF B, S
<1>4. ASSUME NEW d \in 1..n, NEW g, Good(d - 1, g)
      PROVE  \E h : Good(d, h)
  <2> DEFINE h == [k \in 0..d |-> IF k = d THEN B(d, g[d - 1]) ELSE g[k]]
  <2>1. ASSUME NEW k \in 0..d PROVE h[k] = B(k, h[k - 1])
    <3>1. CASE k = d
      <4>1. k - 1 \in 0..d /\ k - 1 # d
        BY <1>0, <3>1
      <4>2. h[k] = B(d, g[d - 1]) /\ h[k - 1] = g[k - 1]
        BY <3>1, <4>1
      <4> HIDE DEF h
      <4> QED
        BY <3>1, <4>2
    <3>2. CASE k # d
      <4>1. k \in 0..(d - 1)
        BY <1>0, <3>2
      <4>2. h[k] = g[k] /\ g[k] = B(k, g[k - 1])
        BY <1>4, <3>2, <4>1
      <4>3. CASE k = 0
        <5> HIDE DEF h
        <5> QED
          BY <1>2, <4>2, <4>3
      <4>4. CASE k # 0
        <5>1. k - 1 \in 0..d /\ k - 1 # d
          BY <1>0, <4>1, <4>4
        <5>2. h[k - 1] = g[k - 1]
          BY <5>1
        <5> HIDE DEF h
        <5> QED
          BY <4>2, <5>2
      <4> QED
        BY <4>3, <4>4
    <3> QED
      BY <3>1, <3>2
  <2>2. h = [k \in 0..d |-> h[k]]
    OBVIOUS
  <2>3. h = [k \in 0..d |-> B(k, h[k - 1])]
    <3> HIDE DEF h
    <3> QED
      BY <2>1, <2>2
  <2> HIDE DEF h
  <2> QED
    BY <2>3
<1>5. \E g : Good(0, g)
  <2> DEFINE h == [k \in 0..0 |-> <<>>]
  <2>1. ASSUME NEW k \in 0..0 PROVE h[k] = B(k, h[k - 1])
    <3>1. k = 0 /\ h[k] = <<>>
      OBVIOUS
    <3> HIDE DEF h
    <3> QED
      BY <1>3, <3>1
  <2>2. h = [k \in 0..0 |-> h[k]]
    OBVIOUS
  <2>3. h = [k \in 0..0 |-> B(k, h[k - 1])]
    <3> HIDE DEF h
    <3> QED
      BY <2>1, <2>2
  <2> HIDE DEF h
  <2> QED
    BY <2>3
<1> HIDE DEF Good
<1>6. \E g : Good(n, g)
  <2> DEFINE G == { d \in 0..n : \E g : Good(d, g) }
  <2>1. 0 \in G /\ n \in 0..n
    BY <1>0, <1>5
  <2>2. \A d \in 1..n : d - 1 \in G => d \in G
    <3> TAKE d \in 1..n
    <3> HAVE d - 1 \in G
    <3>1. PICK g : Good(d - 1, g)
      OBVIOUS
    <3>2. \E h : Good(d, h)
      BY <1>4, <3>1
    <3>3. d \in 0..n
      BY <1>0
    <3> QED
      BY <3>2, <3>3
  <2> HIDE DEF G
  <2>3. n \in G
    BY <1>0, <2>1, <2>2, UpTo
  <2> QED
    BY <2>3 DEF G
<1>7. S = [k \in 0..n |-> B(k, S[k - 1])]
  BY <1>6 DEF S, Good
<1>8. 0 \in 0..n /\ \A i \in 1..n : i \in 0..n /\ i # 0
  BY <1>0
<1>9. S[0] = <<>> /\ \A i \in 1..n : S[i] = B(i, S[i - 1])
  BY <1>3, <1>7, <1>8
<1>10. \A i \in 1..n : i # 0
  OBVIOUS
<1> QED
  BY <1>1, <1>9, <1>10 DEF B, Read

LEMMA LastExcept ==
  ASSUME NEW w \in Seq(Text), NEW u \in Text, NEW c \in 1..255, NEW v, v = Append(w, u)
  PROVE  Grown(v, c) = Append(w, Append(u, c))
<1> DEFINE y == Append(w, Append(u, c))
           n == Len(w)
           z == [v EXCEPT ![Len(v)] = Append(v[Len(v)], c)]
<1>0. n \in Nat /\ Append(u, c) \in Text
  BY AppendProperties DEF Text
<1>1. v \in Seq(Text) /\ Len(v) = n + 1 /\ v[n + 1] = u /\ \A i \in 1..n : v[i] = w[i]
  BY AppendProperties
<1>2. y \in Seq(Text) /\ Len(y) = n + 1 /\ y[n + 1] = Append(u, c) /\ \A i \in 1..n : y[i] = w[i]
  BY <1>0, AppendProperties
<1> HIDE DEF y
<1>3. z \in Seq(Text) /\ Len(z) = n + 1
  BY <1>0, <1>1, ExceptSeq
<1>4. DOMAIN v = 1..(n + 1) /\ n + 1 \in 1..(n + 1)
  BY <1>0, <1>1, LenProperties
<1>5. \A i \in 1..(n + 1) : z[i] = y[i]
  <2> TAKE i \in 1..(n + 1)
  <2>1. z[i] = IF i = n + 1 THEN Append(v[n + 1], c) ELSE v[i]
    BY <1>1, <1>4
  <2>2. i # n + 1 => i \in 1..n
    BY <1>0
  <2> QED
    BY <1>1, <1>2, <2>1, <2>2
<1>6. z = y
  BY <1>2, <1>3, <1>5, SeqEqual
<1> QED
  BY <1>6 DEF y, Grown

LEMMA OneMore ==
  ASSUME NEW e \in Text, NEW x \in 2..Len(e)
  PROVE  Append(SubSeq(e, 1, x - 1), e[x]) = SubSeq(e, 1, x)
<1>0. Len(e) \in Nat /\ x \in 1..Len(e) /\ x - 1 \in 1..Len(e) /\ x - 1 \in Nat /\ (x - 1) + 1 = x
  BY TextIs
<1> DEFINE u == SubSeq(e, 1, x - 1)
           t == SubSeq(e, 1, x)
           y == Append(u, e[x])
           W == 1..255
<1>1. e \in Seq(W) /\ e[x] \in W
  BY <1>0, TextIs DEF Text
<1> HIDE DEF W
<1>2. u \in Seq(W) /\ Len(u) = x - 1 /\ \A i \in 1..(x - 1) : u[i] = e[i]
  BY <1>0, <1>1, FrontIs
<1>3. t \in Seq(W) /\ Len(t) = x /\ \A i \in 1..x : t[i] = e[i]
  BY <1>0, <1>1, FrontIs
<1> HIDE DEF u, t
<1>4. y \in Seq(W) /\ Len(y) = x /\ y[x] = e[x] /\ \A i \in 1..(x - 1) : y[i] = u[i]
  BY <1>0, <1>1, <1>2, AppendProperties
<1> HIDE DEF y
<1>5. \A i \in 1..x : y[i] = t[i]
  <2> TAKE i \in 1..x
  <2>1. i = x \/ i \in 1..(x - 1)
    BY <1>0
  <2> QED
    BY <1>2, <1>3, <1>4, <2>1
<1>6. y = t
  BY <1>3, <1>4, <1>5, SeqEqual
<1> QED
  BY <1>6 DEF y, u, t

LEMMA WordGrows ==
  ASSUME NEW w \in Seq(Text), NEW e \in Text, NEW x \in 2..Len(e)
  PROVE  Grown(Append(w, SubSeq(e, 1, x - 1)), e[x]) = Append(w, SubSeq(e, 1, x))
<1> DEFINE v == Append(w, SubSeq(e, 1, x - 1))
           u == SubSeq(e, 1, x - 1)
           c == e[x]
<1>1. u \in Text
  <2>1. x - 1 \in 1..Len(e)
    BY TextIs
  <2> QED
    BY <2>1, FrontIs DEF Text
<1>2. c \in 1..255
  <2>1. x \in 1..Len(e)
    BY TextIs
  <2> QED
    BY <2>1, TextIs
<1>3. Append(u, c) = SubSeq(e, 1, x)
  BY OneMore
<1> HIDE DEF u, c
<1>4. v = Append(w, u)
  BY DEF u
<1> HIDE DEF v
<1>5. Grown(v, c) = Append(w, Append(u, c))
  BY <1>1, <1>2, <1>4, LastExcept
<1> QED
  BY <1>3, <1>5 DEF c, v

(* A word between two places that are white is read as a whole              *)
LEMMA WordRead ==
  ASSUME NEW line \in Text, NEW W, Read(line, W),
         NEW e \in Text, Len(e) # 0, NEW at \in Place, at + Len(e) <= Len(line), White(line, at),
         \A x \in 1..Len(e) : line[at + x] = e[x] /\ ~White(line, at + x), W[at] \in Seq(Text)
  PROVE  W[at + Len(e)] = Append(W[at], e)
<1>7. at \in Nat /\ at >= 1
  BY DEF Place
<1>8. Len(e) \in Nat /\ Len(line) \in Nat
  BY TextIs
<1>9. \A x \in 1..Len(e) : e[x] \in 1..255
  BY TextIs
<1>0. at \in Nat /\ at >= 1 /\ Len(e) \in Nat /\ Len(line) \in Nat /\ \A x \in 1..Len(e) : e[x] \in 1..255
  BY <1>7, <1>8, <1>9
<1> DEFINE G == { x \in 0..Len(e) : x # 0 => W[at + x] = Append(W[at], SubSeq(e, 1, x)) }
<1>1. 0 \in G
  BY <1>0
<1>2. ASSUME NEW x \in 1..Len(e), x - 1 \in G PROVE x \in G
  <2> DEFINE i == at + x
  <2>1. i \in 1..Len(line) /\ i - 1 = at + (x - 1) /\ i # 1 /\ line[i] = e[x] /\ ~White(line, i) /\ x \in 0..Len(e)
    BY <1>0
  <2>2. CASE x = 1
    <3>1. i - 1 = at
      BY <1>0, <2>2
    <3> HIDE DEF i
    <3>2. W[i] = Append(W[at], <<e[1]>>)
      BY <2>1, <2>2, <3>1 DEF Read
    <3>3. SubSeq(e, 1, 1) = <<e[1]>>
      <4> DEFINE t == SubSeq(e, 1, 1)
                 S == 1..255
      <4>1. e \in Seq(S) /\ 1 \in 1..Len(e)
        BY <1>0 DEF Text
      <4> HIDE DEF S
      <4>2. t \in Seq(S) /\ Len(t) = 1 /\ \A h \in 1..1 : t[h] = e[h]
        BY <4>1, FrontIs
      <4> HIDE DEF t
      <4>3. t[1] = e[1]
        BY <4>2
      <4>4. t = <<e[1]>>
        BY <4>2, <4>3
      <4> QED
        BY <4>4 DEF t
    <3>4. W[i] = Append(W[at], SubSeq(e, 1, 1))
      BY <3>2, <3>3
    <3> QED
      BY <2>1, <2>2, <3>4 DEF i
  <2>3. CASE x # 1
    <3>1. x \in 2..Len(e) /\ x - 1 \in 1..Len(e) /\ x - 1 # 0
      BY <1>0, <2>3
    <3> DEFINE u == SubSeq(e, 1, x - 1)
               v == Append(W[at], u)
    <3>2. W[at + (x - 1)] = v
      BY <1>2, <3>1
    <3>3. ~White(line, i - 1)
      BY <2>1, <3>1
    <3>4. u \in Text
      BY <1>0, <3>1, FrontIs DEF Text
    <3>5. W[i] = Grown(W[i - 1], line[i])
      BY <2>1, <3>3 DEF Read
    <3> HIDE DEF i
    <3>6. W[i] = Grown(v, e[x])
      BY <2>1, <3>2, <3>5
    <3>7. Grown(v, e[x]) = Append(W[at], SubSeq(e, 1, x))
      <4> DEFINE w == W[at]
      <4>1. w \in Seq(Text)
        OBVIOUS
      <4> HIDE DEF w
      <4>2. Grown(Append(w, SubSeq(e, 1, x - 1)), e[x]) = Append(w, SubSeq(e, 1, x))
        BY ONLY <3>1, <4>1, e \in Text, WordGrows
      <4> QED
        BY <4>2 DEF w
    <3>9. W[i] = Append(W[at], SubSeq(e, 1, x))
      BY <3>6, <3>7
    <3> QED
      BY <2>1, <3>9 DEF i
  <2> QED
    BY <2>2, <2>3
<1>3. \A x \in 1..Len(e) : x - 1 \in G => x \in G
  BY <1>2
<1> HIDE DEF G
<1>4. \A x \in 0..Len(e) : x \in G
  BY <1>0, <1>1, <1>3, UpTo
<1>5. Len(e) \in 0..Len(e)
  BY <1>0
<1>6. W[at + Len(e)] = Append(W[at], SubSeq(e, 1, Len(e)))
  BY <1>4, <1>5 DEF G
<1> QED
  BY <1>6, SubSeqFull DEF Text

LEMMA Joined ==
  ASSUME NEW f \in Text, NEW g \in Text
  PROVE  /\ f \o g \in Text /\ Len(f \o g) = Len(f) + Len(g)
         /\ \A x \in 1..Len(f) : (f \o g)[x] = f[x]
         /\ \A x \in 1..Len(g) : (f \o g)[Len(f) + x] = g[x]
<1> DEFINE h == f \o g
<1>1. /\ h \in Text /\ Len(h) = Len(f) + Len(g)
      /\ \A x \in 1..(Len(f) + Len(g)) : h[x] = IF x <= Len(f) THEN f[x] ELSE g[x - Len(f)]
  BY ConcatProperties DEF Text
<1> HIDE DEF h
<1>2. Len(f) \in Nat /\ Len(g) \in Nat
  BY TextIs
<1>3. \A x \in 1..Len(f) : h[x] = f[x]
  BY <1>1, <1>2
<1>4. \A x \in 1..Len(g) : h[Len(f) + x] = g[x]
  <2> TAKE x \in 1..Len(g)
  <2>1. Len(f) + x \in 1..(Len(f) + Len(g)) /\ ~(Len(f) + x <= Len(f)) /\ Len(f) + x - Len(f) = x
    BY <1>2
  <2> QED
    BY <1>1, <2>1
<1> QED
  BY <1>1, <1>3, <1>4 DEF h

(* What stands where in a line                                              *)
TheLine(a, b) == <<108, Space>> \o a \o <<Tab>> \o b \o <<Space>> \o a \o <<Newline>>

LEMMA LineIs ==
  ASSUME NEW a \in Text, NEW b \in Text
  PROVE  LET line == TheLine(a, b)
             A == Len(a)
             B == Len(b)
         IN  /\ line \in Text /\ Len(line) = A + A + B + 5
             /\ line[1] = 108 /\ line[2] = 32 /\ line[A + 3] = 9
             /\ line[A + B + 4] = 32 /\ line[A + A + B + 5] = 10
             /\ \A x \in 1..A : line[2 + x] = a[x] /\ line[A + B + 4 + x] = a[x]
             /\ \A x \in 1..B : line[A + 3 + x] = b[x]
<1> DEFINE h == <<108, Space>>
           t == <<Tab>>
           o == <<Space>>
           w == <<Newline>>
           l1 == h \o a
           l2 == l1 \o t
           l3 == l2 \o b
           l4 == l3 \o o
           l5 == l4 \o a
           l6 == l5 \o w
           A == Len(a)
           B == Len(b)
<1>1. h \in Text /\ Len(h) = 2 /\ h[1] = 108 /\ h[2] = 32
  <2>1. Len(h) = 2 /\ h[1] = 108 /\ h[2] = 32
    BY DEF Space
  <2> QED
    BY <2>1 DEF Text, Space
<1>2. t \in Text /\ Len(t) = 1 /\ t[1] = 9
  <2>1. Len(t) = 1 /\ t[1] = 9
    BY DEF Tab
  <2> QED
    BY <2>1 DEF Text, Tab
<1>3. o \in Text /\ Len(o) = 1 /\ o[1] = 32
  <2>1. Len(o) = 1 /\ o[1] = 32
    BY DEF Space
  <2> QED
    BY <2>1 DEF Text, Space
<1>4. w \in Text /\ Len(w) = 1 /\ w[1] = 10
  <2>1. Len(w) = 1 /\ w[1] = 10
    BY DEF Newline
  <2> QED
    BY <2>1 DEF Text, Newline
<1>5. TheLine(a, b) = l6
  BY DEF TheLine
<1>6. A \in Nat /\ B \in Nat
  BY TextIs
<1> HIDE DEF h, t, o, w, A, B
<1>11. /\ l1 \in Text /\ Len(l1) = A + 2
       /\ \A x \in 1..2 : l1[x] = h[x]
       /\ \A x \in 1..A : l1[2 + x] = a[x]
  <2>0. h \in Text /\ a \in Text
    BY <1>1
  <2>1. /\ l1 \in Text /\ Len(l1) = Len(h) + Len(a)
        /\ \A x \in 1..Len(h) : l1[x] = h[x]
        /\ \A x \in 1..Len(a) : l1[Len(h) + x] = a[x]
    BY ONLY <2>0, Joined
  <2> HIDE DEF l1
  <2>2. Len(l1) = A + 2
    BY <1>1, <1>6, <2>1 DEF A
  <2> QED
    BY <1>1, <2>1, <2>2 DEF A
<1> HIDE DEF l1
<1>12. /\ l2 \in Text /\ Len(l2) = A + 3
       /\ \A x \in 1..(A + 2) : l2[x] = l1[x]
       /\ l2[A + 3] = 9
  <2>0. /\ l2 \in Text /\ Len(l2) = Len(l1) + Len(t)
        /\ \A x \in 1..Len(l1) : l2[x] = l1[x]
        /\ \A x \in 1..Len(t) : l2[Len(l1) + x] = t[x]
    BY <1>2, <1>11, Joined
  <2> HIDE DEF l2
  <2>1. /\ l2 \in Text /\ Len(l2) = A + 2 + 1
        /\ \A x \in 1..(A + 2) : l2[x] = l1[x]
        /\ \A x \in 1..1 : l2[A + 2 + x] = t[x]
    BY <1>2, <1>11, <2>0
  <2>2. A + 2 + 1 = A + 3
    BY <1>6
  <2> QED
    BY <1>2, <2>1, <2>2
<1> HIDE DEF l2
<1>13. /\ l3 \in Text /\ Len(l3) = A + B + 3
       /\ \A x \in 1..(A + 3) : l3[x] = l2[x]
       /\ \A x \in 1..B : l3[A + 3 + x] = b[x]
  <2>0. /\ l3 \in Text /\ Len(l3) = Len(l2) + Len(b)
        /\ \A x \in 1..Len(l2) : l3[x] = l2[x]
        /\ \A x \in 1..Len(b) : l3[Len(l2) + x] = b[x]
    BY <1>12, Joined
  <2> HIDE DEF l3
  <2>1. /\ l3 \in Text /\ Len(l3) = A + 3 + B
        /\ \A x \in 1..(A + 3) : l3[x] = l2[x]
        /\ \A x \in 1..B : l3[A + 3 + x] = b[x]
    BY <1>12, <2>0 DEF B
  <2> QED
    BY <1>6, <2>1
<1> HIDE DEF l3
<1>14. /\ l4 \in Text /\ Len(l4) = A + B + 4
       /\ \A x \in 1..(A + B + 3) : l4[x] = l3[x]
       /\ l4[A + B + 4] = 32
  <2>0. /\ l4 \in Text /\ Len(l4) = Len(l3) + Len(o)
        /\ \A x \in 1..Len(l3) : l4[x] = l3[x]
        /\ \A x \in 1..Len(o) : l4[Len(l3) + x] = o[x]
    BY <1>3, <1>13, Joined, SMTT(20), ZenonT(30)
  <2> HIDE DEF l4
  <2>1. /\ l4 \in Text /\ Len(l4) = A + B + 3 + 1
        /\ \A x \in 1..(A + B + 3) : l4[x] = l3[x]
        /\ \A x \in 1..1 : l4[A + B + 3 + x] = o[x]
    BY <1>3, <1>13, <2>0
  <2>2. A + B + 3 + 1 = A + B + 4
    BY <1>6
  <2> QED
    BY <1>3, <2>1, <2>2
<1> HIDE DEF l4
<1>15. /\ l5 \in Text /\ Len(l5) = A + A + B + 4
       /\ \A x \in 1..(A + B + 4) : l5[x] = l4[x]
       /\ \A x \in 1..A : l5[A + B + 4 + x] = a[x]
  <2>0. /\ l5 \in Text /\ Len(l5) = Len(l4) + Len(a)
        /\ \A x \in 1..Len(l4) : l5[x] = l4[x]
        /\ \A x \in 1..Len(a) : l5[Len(l4) + x] = a[x]
    BY <1>14, Joined
  <2> HIDE DEF l5
  <2>1. /\ l5 \in Text /\ Len(l5) = A + B + 4 + A
        /\ \A x \in 1..(A + B + 4) : l5[x] = l4[x]
        /\ \A x \in 1..A : l5[A + B + 4 + x] = a[x]
    BY <1>14, <2>0 DEF A
  <2> QED
    BY <1>6, <2>1
<1> HIDE DEF l5
<1>16. /\ l6 \in Text /\ Len(l6) = A + A + B + 5
       /\ \A x \in 1..(A + A + B + 4) : l6[x] = l5[x]
       /\ l6[A + A + B + 5] = 10
  <2>0. /\ l6 \in Text /\ Len(l6) = Len(l5) + Len(w)
        /\ \A x \in 1..Len(l5) : l6[x] = l5[x]
        /\ \A x \in 1..Len(w) : l6[Len(l5) + x] = w[x]
    BY <1>4, <1>15, Joined
  <2> HIDE DEF l6
  <2>1. /\ l6 \in Text /\ Len(l6) = A + A + B + 4 + 1
        /\ \A x \in 1..(A + A + B + 4) : l6[x] = l5[x]
        /\ \A x \in 1..1 : l6[A + A + B + 4 + x] = w[x]
    BY <1>4, <1>15, <2>0
  <2>2. A + A + B + 4 + 1 = A + A + B + 5
    BY <1>6
  <2> QED
    BY <1>4, <2>1, <2>2
<1> HIDE DEF l6
<1>20. \A x \in 1..(A + B + 4) : l6[x] = l4[x]
  BY <1>6, <1>15, <1>16
<1>21. \A x \in 1..(A + B + 3) : l6[x] = l3[x]
  BY <1>6, <1>14, <1>20
<1>22. \A x \in 1..(A + 3) : l6[x] = l2[x]
  BY <1>6, <1>13, <1>21
<1>23. \A x \in 1..(A + 2) : l6[x] = l1[x]
  BY <1>6, <1>12, <1>22
<1>24. l6[1] = 108 /\ l6[2] = 32
  <2>1. 1 \in 1..(A + 2) /\ 2 \in 1..(A + 2)
    BY <1>6
  <2> QED
    BY <1>1, <1>11, <1>23, <2>1
<1>25. l6[A + 3] = 9
  <2>1. A + 3 \in 1..(A + 3)
    BY <1>6
  <2> QED
    BY <1>12, <1>22, <2>1
<1>26. l6[A + B + 4] = 32
  <2>1. A + B + 4 \in 1..(A + B + 4)
    BY <1>6
  <2> QED
    BY <1>14, <1>20, <2>1
<1>27. ASSUME NEW x \in 1..A PROVE l6[2 + x] = a[x] /\ l6[A + B + 4 + x] = a[x]
  <2>1. 2 + x \in 1..(A + 2) /\ A + B + 4 + x \in 1..(A + A + B + 4)
    BY <1>6
  <2> QED
    BY <1>11, <1>15, <1>16, <1>23, <2>1
<1>28. ASSUME NEW x \in 1..B PROVE l6[A + 3 + x] = b[x]
  <2>1. A + 3 + x \in 1..(A + B + 3)
    BY <1>6
  <2> QED
    BY <1>13, <1>21, <2>1
<1> QED
  BY <1>5, <1>16, <1>24, <1>25, <1>26, <1>27, <1>28 DEF A, B

(* Each byte is written                                                     *)
LEMMA NotEmpty ==
  ASSUME NEW s \in Text, Len(s) # 0, NEW forShell \in BOOLEAN
  PROVE  Len(encode_internal(s, forShell)) # 0
<1> DEFINE n == Len(s)
           e == encode_internal(s, forShell)
<1>0. n \in Nat /\ n # 0 /\ e \in Text
  BY TextIs, EndsThere
<1>1. PICK pos : Ends(s, forShell, e, pos)
  BY EndsThere
<1> HIDE DEF e
<1>2. n \in 1..n /\ n - 1 \in 0..n /\ n \in 0..n
  BY <1>0
<1>3. pos[n - 1] \in Nat /\ pos[n] = Len(e) /\ Len(e) \in Nat
  <2>1. \A k \in 0..n : pos[k] \in Nat /\ pos[k] <= Len(e)
    BY <1>0, <1>1, EndsAre
  <2>2. pos[n] = Len(e)
    BY <1>1 DEF Ends
  <2>3. Len(e) \in Nat
    BY <1>0, TextIs
  <2> QED
    BY <1>2, <2>1, <2>2, <2>3
<1> DEFINE q == pos[n - 1]
<1>4. pos[n] = q + 1 \/ pos[n] = q + 2
  <2>1. \A k \in 1..n : \/ /\ pos[k] = pos[k - 1] + 1
                           /\ e[pos[k - 1] + 1] = s[k] /\ s[k] \notin {9, 10, 32, 92}
                        \/ /\ pos[k] = pos[k - 1] + 2
                           /\ e[pos[k - 1] + 1] = 92 /\ DecodeByte(e[pos[k - 1] + 2]) = s[k]
                           /\ e[pos[k - 1] + 2] \in {116, 110, 114, 98, 92, 32}
    BY <1>0, <1>1, EndsAre
  <2> QED
    BY <1>2, <2>1
<1>5. q \in Nat
  BY <1>3
<1>6. Len(e) # 0
  <2> DEFINE E == Len(e)
  <2>1. E = q + 1 \/ E = q + 2
    BY <1>3, <1>4
  <2> HIDE DEF E, q
  <2>2. E # 0
    BY <1>5, <2>1
  <2> QED
    BY <2>2 DEF E
<1> QED
  BY <1>6 DEF e

LEMMA Appended1 ==
  ASSUME NEW x, NEW u
  PROVE  Append(<<x>>, u) = <<x, u>>
<1> DEFINE s == <<x>>
           t == Append(s, u)
           r == <<x, u>>
           S == {x, u}
<1>1. s \in Seq(S) /\ u \in S
  OBVIOUS
<1>0. Len(s) = 1
  OBVIOUS
<1>2. s[1] = x
  OBVIOUS
<1>3. r \in Seq(S) /\ Len(r) = 2 /\ r[2] = u
  OBVIOUS
<1>4. r[1] = x
  OBVIOUS
<1> HIDE DEF s, S, r
<1>5. /\ t \in Seq(S) /\ Len(t) = Len(s) + 1
      /\ t[Len(s) + 1] = u /\ \A i \in 1..Len(s) : t[i] = s[i]
  BY <1>1, AppendProperties
<1> HIDE DEF t
<1>6. Len(t) = 2 /\ t[2] = u /\ \A i \in 1..1 : t[i] = s[i]
  BY <1>0, <1>5
<1>7. \A i \in 1..2 : t[i] = r[i]
  <2> TAKE i \in 1..2
  <2>1. i = 1 \/ i = 2
    OBVIOUS
  <2> QED
    BY <1>2, <1>3, <1>4, <1>6, <2>1
<1>8. t = r
  BY <1>3, <1>5, <1>6, <1>7, SeqEqual
<1> QED
  BY <1>8 DEF t, r, s

LEMMA Appended2 ==
  ASSUME NEW x, NEW y, NEW u
  PROVE  Append(<<x, y>>, u) = <<x, y, u>>
<1> DEFINE s == <<x, y>>
           t == Append(s, u)
           r == <<x, y, u>>
           S == {x, y, u}
<1>1. s \in Seq(S) /\ u \in S
  OBVIOUS
<1>0. Len(s) = 2
  OBVIOUS
<1>2. s[1] = x /\ s[2] = y
  OBVIOUS
<1>3. r \in Seq(S) /\ Len(r) = 3 /\ r[3] = u
  OBVIOUS
<1>4. r[1] = x /\ r[2] = y
  OBVIOUS
<1> HIDE DEF s, S, r
<1>5. /\ t \in Seq(S) /\ Len(t) = Len(s) + 1
      /\ t[Len(s) + 1] = u /\ \A i \in 1..Len(s) : t[i] = s[i]
  BY <1>1, AppendProperties
<1> HIDE DEF t
<1>6. Len(t) = 3 /\ t[3] = u /\ \A i \in 1..2 : t[i] = s[i]
  BY <1>0, <1>5
<1>7. \A i \in 1..3 : t[i] = r[i]
  <2> TAKE i \in 1..3
  <2>1. i = 1 \/ i = 2 \/ i = 3
    OBVIOUS
  <2> QED
    BY <1>2, <1>3, <1>4, <1>6, <2>1
<1>8. t = r
  BY <1>3, <1>5, <1>6, <1>7, SeqEqual
<1> QED
  BY <1>8 DEF t, r, s

LEMMA Appended3 ==
  ASSUME NEW x, NEW y, NEW z, NEW u
  PROVE  Append(<<x, y, z>>, u) = <<x, y, z, u>>
<1> DEFINE s == <<x, y, z>>
           t == Append(s, u)
           r == <<x, y, z, u>>
           S == {x, y, z, u}
<1>1. s \in Seq(S) /\ u \in S
  OBVIOUS
<1>0. Len(s) = 3
  OBVIOUS
<1>2. s[1] = x /\ s[2] = y /\ s[3] = z
  OBVIOUS
<1>3. r \in Seq(S) /\ Len(r) = 4 /\ r[4] = u
  OBVIOUS
<1>4. r[1] = x /\ r[2] = y /\ r[3] = z
  OBVIOUS
<1> HIDE DEF s, S, r
<1>5. /\ t \in Seq(S) /\ Len(t) = Len(s) + 1
      /\ t[Len(s) + 1] = u /\ \A i \in 1..Len(s) : t[i] = s[i]
  BY <1>1, AppendProperties
<1> HIDE DEF t
<1>6. Len(t) = 4 /\ t[4] = u /\ \A i \in 1..3 : t[i] = s[i]
  BY <1>0, <1>5
<1>7. \A i \in 1..4 : t[i] = r[i]
  <2> TAKE i \in 1..4
  <2>1. i = 1 \/ i = 2 \/ i = 3 \/ i = 4
    OBVIOUS
  <2> QED
    BY <1>2, <1>3, <1>4, <1>6, <2>1
<1>8. t = r
  BY <1>3, <1>5, <1>6, <1>7, SeqEqual
<1> QED
  BY <1>8 DEF t, r, s

(* Two names in a line come out as they went in                             *)
LEMMA LineRead ==
  ASSUME NEW s \in Text, Len(s) # 0, NEW t \in Text, Len(t) # 0, NEW forShell \in BOOLEAN
  PROVE  LET a == encode_internal(s, forShell)
             b == encode_internal(t, forShell)
         IN  acav_parse(TheLine(a, b)) = << <<108>>, a, b, a >>
<1> DEFINE a == encode_internal(s, forShell)
           b == encode_internal(t, forShell)
           line == TheLine(a, b)
           A == Len(a)
           B == Len(b)
<1>1. a \in Text /\ b \in Text
  BY EndsThere
<1>2. A \in Nat /\ B \in Nat
  BY <1>1, TextIs
<1>3. A # 0 /\ B # 0
  BY NotEmpty
<1>4. /\ line \in Text /\ Len(line) = A + A + B + 5
      /\ line[1] = 108 /\ line[2] = 32 /\ line[A + 3] = 9
      /\ line[A + B + 4] = 32 /\ line[A + A + B + 5] = 10
      /\ \A x \in 1..A : line[2 + x] = a[x] /\ line[A + B + 4 + x] = a[x]
      /\ \A x \in 1..B : line[A + 3 + x] = b[x]
  BY <1>1, LineIs
<1> HIDE DEF line
<1>5. /\ 1 \in Place /\ 2 \in Place /\ A + 3 \in Place /\ A + B + 4 \in Place
      /\ A + 2 \in Place /\ A + B + 3 \in Place /\ A + A + B + 4 \in Place
  <2> HIDE DEF A, B
  <2> QED
    BY <1>2 DEF Place
<1>6. White(line, 2)
  <2>3. \A i \in Place : Slashes(line, i + 1) = IF line[i] = 92 THEN Slashes(line, i) + 1 ELSE 0
    BY SlashesIs
  <2>1. 1 \in Place /\ line[1] # 92
    BY <1>4 DEF Place
  <2>2. 1 + 1 = 2 /\ 0 % 2 = 0
    OBVIOUS
  <2>4. Slashes(line, 2) = 0
    BY <2>1, <2>2, <2>3
  <2> QED
    BY <1>4, <2>2, <2>4 DEF White, Space
<1>7. ~White(line, 1)
  BY <1>4 DEF White, Space, Tab, Newline
<1>8. White(line, A + 3)
  BY <1>4 DEF White, Tab
<1>9. White(line, A + A + B + 5)
  BY <1>4 DEF White, Newline
<1>10. \A x \in 1..A : ~White(line, 2 + x)
  <2>1. line[2] # 92 /\ \A x \in 1..A : line[2 + x] = a[x]
    BY <1>4
  <2> QED
    BY <1>5, <2>1, NoWhite
<1>11. /\ \A x \in 1..B : ~White(line, A + 3 + x)
       /\ Slashes(line, A + 3 + B + 1) % 2 = 0
  <2> DEFINE at == A + 3
  <2>1. line[at] # 92 /\ \A x \in 1..B : line[at + x] = b[x]
    BY <1>4
  <2>2. at \in Place
    BY <1>5
  <2> HIDE DEF at
  <2>3. /\ \A x \in 1..B : ~White(line, at + x)
        /\ Slashes(line, at + B + 1) % 2 = 0
    BY <2>1, <2>2, NoWhite
  <2> QED
    BY <2>3 DEF at
<1>12. White(line, A + B + 4)
  <2>1. A + 3 + B + 1 = A + B + 4
    <3> HIDE DEF A, B
    <3> QED
      BY <1>2
  <2> QED
    BY <1>4, <1>11, <2>1 DEF White, Space
<1>13. \A x \in 1..A : ~White(line, A + B + 4 + x)
  <2> DEFINE at == A + B + 4
  <2>1. line[at] # 92 /\ \A x \in 1..A : line[at + x] = a[x]
    BY <1>4
  <2>2. at \in Place
    BY <1>5
  <2> HIDE DEF at
  <2>3. \A x \in 1..A : ~White(line, at + x)
    BY <2>1, <2>2, NoWhite
  <2> QED
    BY <2>3 DEF at
<1>14. PICK W :
         /\ W[0] = <<>> /\ acav_parse(line) = W[Len(line)]
         /\ Read(line, W)
  BY <1>4, WordsAre
<1> HIDE DEF a, b, A, B
<1> DEFINE n == Len(line)
<1>15. n = A + A + B + 5
  BY <1>4
<1> HIDE DEF n
<1>16. /\ 1 \in 1..n /\ 2 \in 1..n /\ A + 3 \in 1..n /\ A + B + 4 \in 1..n /\ n \in 1..n
       /\ (A + 3) - 1 = 2 + A /\ (A + B + 4) - 1 = A + 3 + B /\ n - 1 = A + B + 4 + A
       /\ 2 + A <= n /\ A + 3 + B <= n /\ A + B + 4 + A <= n
  BY <1>2, <1>15
<1>17. \A i \in 1..n : White(line, i) => W[i] = W[i - 1]
  BY <1>14 DEF n, Read
<1>18. W[1] = << <<108>> >>
  <2>1. W[1] = Append(W[1 - 1], <<line[1]>>)
    BY <1>7, <1>14, <1>16 DEF n, Read
  <2>2. 1 - 1 = 0
    OBVIOUS
  <2>3. W[1] = Append(<<>>, <<108>>)
    BY <1>4, <1>14, <2>1, <2>2
  <2> QED
    BY <2>3
<1>19. W[2] = << <<108>> >>
  <2>1. 2 - 1 = 1
    OBVIOUS
  <2> QED
    BY <1>6, <1>16, <1>17, <1>18, <2>1
<1>20. <<108>> \in Text
  BY DEF Text
<1>21. ASSUME NEW e \in Text, Len(e) # 0, NEW at \in Place, at + Len(e) <= n, White(line, at),
              \A x \in 1..Len(e) : line[at + x] = e[x] /\ ~White(line, at + x), W[at] \in Seq(Text)
       PROVE  W[at + Len(e)] = Append(W[at], e)
  BY <1>4, <1>14, <1>21, WordRead, SMTT(20), ZenonT(30) DEF n
<1>22. W[2 + A] = << <<108>>, a >>
  <2>1. W[2] \in Seq(Text)
    BY <1>19, <1>20
  <2>2. \A x \in 1..A : line[2 + x] = a[x] /\ ~White(line, 2 + x)
    BY <1>4, <1>10
  <2>3. W[2 + A] = Append(W[2], a)
    BY <1>1, <1>3, <1>5, <1>6, <1>16, <1>21, <2>1, <2>2 DEF A
  <2> QED
    BY <1>19, <2>3, Appended1
<1>23. W[A + 3] = << <<108>>, a >>
  BY <1>8, <1>16, <1>17, <1>22
<1>24. W[A + 3 + B] = << <<108>>, a, b >>
  <2> DEFINE at == A + 3
  <2>1. W[at] \in Seq(Text)
    BY <1>1, <1>20, <1>23
  <2>2. \A x \in 1..B : line[at + x] = b[x] /\ ~White(line, at + x)
    BY <1>4, <1>11
  <2>3. at \in Place /\ at + B <= n /\ White(line, at)
    BY <1>5, <1>8, <1>16
  <2> HIDE DEF at
  <2>4. W[at + B] = Append(W[at], b)
    BY <1>1, <1>3, <1>21, <2>1, <2>2, <2>3 DEF B
  <2> QED
    BY <1>23, <2>4, Appended2 DEF at
<1>25. W[A + B + 4] = << <<108>>, a, b >>
  BY <1>12, <1>16, <1>17, <1>24
<1>26. W[A + B + 4 + A] = << <<108>>, a, b, a >>
  <2> DEFINE at == A + B + 4
  <2>1. W[at] \in Seq(Text)
    BY <1>1, <1>20, <1>25
  <2>2. \A x \in 1..A : line[at + x] = a[x] /\ ~White(line, at + x)
    BY <1>4, <1>13
  <2>3. at \in Place /\ at + A <= n /\ White(line, at)
    BY <1>5, <1>12, <1>16
  <2> HIDE DEF at
  <2>4. W[at + A] = Append(W[at], a)
    BY <1>1, <1>3, <1>21, <2>1, <2>2, <2>3 DEF A
  <2> QED
    BY <1>25, <2>4, Appended3 DEF at
<1>27. W[n] = << <<108>>, a, b, a >>
  BY <1>9, <1>15, <1>16, <1>17, <1>26
<1> QED
  BY <1>14, <1>27 DEF a, b, line, n

LEMMA LinesAtFirst == NamesInit => LinesSurvive
<1> SUFFICES ASSUME NamesInit, p3 = <<>>, p2 # <<>>
             PROVE  \A forShell \in BOOLEAN :
                      LET a == encode_internal(p1, forShell)
                          b == encode_internal(p2, forShell)
                          words == acav_parse(TheLine(a, b))
                      IN  words = << <<108>>, a, b, a >> /\ decode(words[2]) = p1 /\ decode(words[3]) = p2
  BY DEF LinesSurvive, TheLine
<1>1. ~Init
  <2>1. ASSUME NEW S PROVE <<>> \notin UNION { [1..k -> S] : k \in 1..MaxLen }
    <3> SUFFICES ASSUME NEW k \in 1..MaxLen, <<>> \in [1..k -> S] PROVE FALSE
      OBVIOUS
    <3>1. k \in Nat /\ 1 \in 1..k /\ DOMAIN <<>> = 1..k
      BY PathOrderAssumption
    <3> QED
      BY <3>1
  <2> QED
    BY <2>1 DEF Init, Strings
<1>2. p1 \in Written /\ p2 \in Written
  BY <1>1 DEF NamesInit
<1>3. ASSUME NEW s \in Written PROVE s \in Text /\ Len(s) # 0
  <2>1. PICK k \in 1..MaxLen : s \in [1..k -> Odd]
    BY DEF Written
  <2>2. k \in Nat /\ k # 0
    BY PathOrderAssumption
  <2>3. s \in [1..k -> 1..255]
    BY <2>1, NamingAssumption
  <2> DEFINE S == 1..255
  <2>4. s \in [1..k -> S]
    BY <2>3
  <2> HIDE DEF S
  <2>5. s \in Seq(S) /\ DOMAIN s = 1..k
    BY <2>2, <2>4, SeqDef
  <2>6. Len(s) = k
    BY <2>2, <2>5, LenProperties
  <2> QED
    BY <2>2, <2>5, <2>6 DEF S, Text
<1>4. p1 \in Text /\ Len(p1) # 0 /\ p2 \in Text /\ Len(p2) # 0
  BY <1>2, <1>3
<1> SUFFICES ASSUME NEW forShell \in BOOLEAN
             PROVE  LET a == encode_internal(p1, forShell)
                        b == encode_internal(p2, forShell)
                        words == acav_parse(TheLine(a, b))
                    IN  words = << <<108>>, a, b, a >> /\ decode(words[2]) = p1 /\ decode(words[3]) = p2
  OBVIOUS
<1> DEFINE a == encode_internal(p1, forShell)
           b == encode_internal(p2, forShell)
           words == acav_parse(TheLine(a, b))
<1>5. words = << <<108>>, a, b, a >>
  BY <1>4, LineRead
<1>6. decode(a) = p1 /\ decode(b) = p2
  BY <1>4, DecodedIs
<1> HIDE DEF a, b, words
<1>7. words[2] = a /\ words[3] = b
  BY <1>5
<1> QED
  BY <1>5, <1>6, <1>7 DEF a, b, words

(* What encode() or encode_space() has written, acav_parse() takes apart    *)
(* again into the same words, and decode() gives the names back, of         *)
(* whatever bytes they are made.                                            *)
THEOREM Survive == NamesSpec => []LinesSurvive
BY AsChosen, LinesAtFirst, PTL
=============================================================================

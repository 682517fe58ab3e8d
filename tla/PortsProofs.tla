------------------------------ MODULE PortsProofs ------------------------------
(* The list of ports for every choice of the constants: each operation keeps  *)
(* it a list of names without repetition, and keeps the saved ones in it. The *)
(* passes over the ports are recursive functions of the position they have    *)
(* come to; what they keep is proved by induction over that position, which   *)
(* rests on the least element of a set of naturals.                           *)
EXTENDS Ports, SequenceTheorems, WellFoundedInduction, TLAPS

(* A non-empty set of natural numbers has a least one.                        *)
LEMMA Least ==
  ASSUME NEW T, T \subseteq Nat, T # {}
  PROVE  \E x \in T : \A y \in T : x <= y
<1> DEFINE R == OpToRel(<, Nat)
<1>1. \A x, y \in Nat : x < y => <<x, y>> \in R
  BY DEF OpToRel
<1>2. IsWellFoundedOn(R, Nat)
  BY NatLessThanWellFounded
<1> HIDE DEF R
<1>3. PICK x \in T : \A y \in T : ~(<<y, x>> \in R)
  BY <1>2, WFMin
<1>4. \A y \in T : x \in Nat /\ y \in Nat /\ ~(y < x)
  BY <1>1, <1>3
<1>5. \A y \in T : x <= y
  BY <1>4
<1> QED
  BY <1>3, <1>5

(* Induction up to N: T holds of 0 and of each next number.                   *)
LEMMA UpTo ==
  ASSUME NEW N \in Nat, NEW T, 0 \in T,
         \A k \in 0 .. N : k # 0 /\ k - 1 \in T => k \in T
  PROVE  0 .. N \subseteq T
<1> DEFINE Out == {k \in 0 .. N : k \notin T}
<1> SUFFICES ASSUME Out # {} PROVE FALSE
  OBVIOUS
<1>1. Out \subseteq Nat
  OBVIOUS
<1>d. \A k : k \in Out <=> k \in 0 .. N /\ k \notin T
  OBVIOUS
<1> HIDE DEF Out
<1>2. PICK k \in Out : \A y \in Out : k <= y
  BY <1>1, Least
<1>3. k \in 0 .. N /\ k \notin T /\ k # 0
  BY <1>d
<1>4. k - 1 \in 0 .. N /\ k - 1 \notin Out
  BY <1>2, <1>3
<1> QED
  BY <1>3, <1>4, <1>d

(* A pass of N steps from base, of which step i makes one of S of one of S.   *)
StepsIn(N, S, Step) == \A i \in 1 .. N : \A c \in S : Step[i][c] \in S
PassTo(N, S, base, Step, g) ==
  /\ g \in [0 .. N -> S] /\ g[0] = base
  /\ \A i \in 1 .. N : g[i - 1] \in S /\ g[i] = Step[i][g[i - 1]]

(* A pass of N steps over values in S exists, whatever value it starts with.  *)
LEMMA Pass ==
  ASSUME NEW N, NEW S, NEW base, NEW Step, N \in Nat, base \in S, StepsIn(N, S, Step)
  PROVE  \E g : PassTo(N, S, base, Step, g)
<1> USE DEF PassTo, StepsIn
<1> DEFINE To(k, g) == PassTo(k, S, base, Step, g)
           T == {k \in 0 .. N : \E g : To(k, g)}
<1>1. 0 \in T
  <2>1. To(0, [i \in 0 .. 0 |-> base])
    OBVIOUS
  <2> HIDE DEF To
  <2>2. 0 \in 0 .. N /\ \E g : To(0, g)
    BY <2>1
  <2> QED
    BY <2>2
<1>2. ASSUME NEW k \in 0 .. N, k # 0, k - 1 \in T
      PROVE  k \in T
  <2>1. PICK g : To(k - 1, g)
    BY <1>2
  <2> DEFINE h == [i \in 0 .. k |-> IF i < k THEN g[i] ELSE Step[k][g[k - 1]]]
  <2>2. \A i \in 0 .. k - 1 : h[i] = g[i] /\ g[i] \in S
    BY <2>1
  <2>3. k \in 1 .. N /\ k - 1 \in 0 .. k - 1 /\ h[k] = Step[k][g[k - 1]]
    BY <1>2
  <2>4. h[k] \in S
    BY <2>2, <2>3
  <2>5. h \in [0 .. k -> S]
    <3>1. \A i \in 0 .. k : i \in 0 .. k - 1 \/ i = k
      OBVIOUS
    <3>2. h = [i \in 0 .. k |-> h[i]]
      OBVIOUS
    <3> HIDE DEF h
    <3>3. \A i \in 0 .. k : h[i] \in S
      BY <3>1, <2>2, <2>4
    <3> QED
      BY <3>2, <3>3
  <2> HIDE DEF h
  <2>6. \A i \in 1 .. k : h[i - 1] \in S /\ h[i] = Step[i][h[i - 1]]
    <3> TAKE i \in 1 .. k
    <3>1. i - 1 \in 0 .. k - 1 /\ h[i - 1] = g[i - 1] /\ g[i - 1] \in S
      BY <2>2
    <3>2. CASE i = k
      BY <3>1, <3>2, <2>3
    <3>3. CASE i # k
      <4>1. i \in 1 .. k - 1 /\ i \in 0 .. k - 1
        BY <3>3
      <4> QED
        BY <3>1, <4>1, <2>1, <2>2
    <3> QED
      BY <3>2, <3>3
  <2>7. h[0] = base
    BY <2>1, <2>2, <2>3
  <2>8. To(k, h)
    BY <2>5, <2>6, <2>7
  <2> HIDE DEF To
  <2>9. \E g1 : To(k, g1)
    BY <2>8
  <2> QED
    BY <2>9
<1> HIDE DEF To
<1>3. 0 .. N \subseteq T
  <2> HIDE DEF T
  <2> QED
    BY <1>1, <1>2, UpTo
<1>4. \E g : To(N, g)
  BY <1>3
<1> HIDE DEF PassTo
<1> QED
  BY <1>4 DEF To

(* Whatever goes by those steps stays in S.                                   *)
Follows(N, S, base, Step, f) ==
  f[0] = base /\ \A i \in 1 .. N : f[i - 1] \in S => f[i] = Step[i][f[i - 1]]

(* What a pass ends with is in S, if each step keeps what it is given there.  *)
LEMMA StaysIn ==
  ASSUME NEW N, NEW S, NEW base, NEW Step, NEW f,
         N \in Nat, base \in S, StepsIn(N, S, Step), Follows(N, S, base, Step, f)
  PROVE  f[N] \in S
<1> DEFINE T == {i \in 0 .. N : f[i] \in S}
<1>1. 0 \in T
  BY DEF Follows
<1>2. \A k \in 0 .. N : k # 0 /\ k - 1 \in T => k \in T
  <2> SUFFICES ASSUME NEW k \in 0 .. N, k # 0, k - 1 \in T PROVE k \in T
    OBVIOUS
  <2>1. k \in 1 .. N /\ f[k - 1] \in S
    OBVIOUS
  <2>2. f[k] = Step[k][f[k - 1]]
    BY <2>1 DEF Follows
  <2> QED
    BY <2>1, <2>2 DEF StepsIn
<1> HIDE DEF T
<1>3. 0 .. N \subseteq T
  BY <1>1, <1>2, UpTo
<1> QED
  BY <1>3 DEF T

----------------------------------------------------------------------------
(* The list of names, none of them twice, and the selection.                  *)
Lists  == {l \in Seq(DOMAIN Kind) : IsInjective(l)}
Combos == [list : Lists, sel : DOMAIN Kind \cup {""}]

(* A list is what its positions hold.                                         *)
LEMMA ListFacts ==
  ASSUME NEW l \in Lists
  PROVE  /\ l \in Seq(DOMAIN Kind) /\ Len(l) \in Nat /\ DOMAIN l = 1 .. Len(l)
         /\ \A i, j \in 1 .. Len(l) : l[i] = l[j] => i = j
         /\ \A i \in 1 .. Len(l) : l[i] \in DOMAIN Kind
         /\ ToSet(l) = {l[i] : i \in 1 .. Len(l)}
         /\ Len(l) = 0 => l = << >>
BY DEF Lists, IsInjective, ToSet

(* find_combo and find_prefix give a position of the list that fits, or 0 if  *)
(* none does.                                                                 *)
LEMMA Found ==
  ASSUME NEW I, NEW N \in Nat, I \subseteq 1 .. N
  PROVE  LET f == IF I # {} THEN Min(I) ELSE 0
         IN  f \in 0 .. N /\ (f # 0 => f \in I) /\ (f = 0 => I = {})
<1>1. CASE I = {}
  BY <1>1
<1>2. CASE I # {}
  <2>0. I \subseteq Nat
    OBVIOUS
  <2>1. \E x \in I : \A y \in I : x <= y
    BY <1>2, <2>0, Least
  <2>2. Min(I) \in I
    BY <2>1 DEF Min
  <2>3. Min(I) \in 1 .. N
    BY <2>2
  <2> QED
    BY <1>2, <2>2, <2>3
<1> QED
  BY <1>1, <1>2

(* find_combo: the name's position, or 0 if it is not in the list.            *)
LEMMA FindCombo ==
  ASSUME NEW c \in Combos, NEW x
  PROVE  /\ find_combo(c, x) \in 0 .. Len(c.list)
         /\ find_combo(c, x) # 0 => c.list[find_combo(c, x)] = x
         /\ find_combo(c, x) = 0 => \A i \in 1 .. Len(c.list) : c.list[i] # x
<1> DEFINE I == {i \in 1 .. Len(c.list) : c.list[i] = x}
<1>1. find_combo(c, x) = IF I # {} THEN Min(I) ELSE 0
  BY DEF find_combo, SelectInSeq
<1>2. \A i : i \in I <=> i \in 1 .. Len(c.list) /\ c.list[i] = x
  OBVIOUS
<1>3. Len(c.list) \in Nat
  BY ListFacts DEF Combos
<1> HIDE DEF I
<1> QED
  BY <1>1, <1>2, <1>3, Found

(* find_prefix never finds a saved name for one that is not saved.            *)
LEMMA FindPrefix ==
  ASSUME NEW c \in Combos, NEW x \in DOMAIN Kind \ ToSet(Saved)
  PROVE  /\ find_prefix(c, x) \in 0 .. Len(c.list)
         /\ find_prefix(c, x) # 0 => c.list[find_prefix(c, x)] \notin ToSet(Saved)
<1> DEFINE I == {i \in 1 .. Len(c.list) :
                   c.list[i] = x \/ (os = "linux" /\ c.list[i] \in Longer[x])}
<1>1. find_prefix(c, x) = IF I # {} THEN Min(I) ELSE 0
  BY DEF find_prefix, SelectInSeq
<1>2. \A i \in I : i \in 1 .. Len(c.list) /\ c.list[i] \notin ToSet(Saved)
  BY PortsAssumption DEF PortsAssumption
<1>3. Len(c.list) \in Nat
  BY ListFacts DEF Combos
<1> HIDE DEF I
<1>4. I \subseteq 1 .. Len(c.list)
  BY <1>2
<1>5. LET f == IF I # {} THEN Min(I) ELSE 0
      IN  f \in 0 .. Len(c.list) /\ (f # 0 => f \in I)
  BY <1>3, <1>4, Found
<1>6. find_prefix(c, x) \in 0 .. Len(c.list) /\ (find_prefix(c, x) # 0 => find_prefix(c, x) \in I)
  BY <1>1, <1>5, Zenon
<1> QED
  BY <1>2, <1>6

(* set_active selects a name of the list, if it has one there.                *)
LEMMA SelectsOne ==
  ASSUME NEW c \in Combos, NEW i \in Nat, c.list = << >> \/ i \in 1 .. Len(c.list)
  PROVE  SetActive(c, i) \in Combos /\ SetActive(c, i).list = c.list
<1>1. c.list = << >> \/ c.list[i] \in DOMAIN Kind
  BY ListFacts DEF Combos
<1> QED
  BY <1>1 DEF SetActive, Combos

(* A name that is not in the list may go behind it, or in front of it.        *)
LEMMA Behind ==
  ASSUME NEW l \in Lists, NEW x \in DOMAIN Kind, \A i \in 1 .. Len(l) : l[i] # x
  PROVE  Append(l, x) \in Lists /\ ToSet(Append(l, x)) = ToSet(l) \cup {x}
<1>l. /\ l \in Seq(DOMAIN Kind) /\ Len(l) \in Nat /\ DOMAIN l = 1 .. Len(l)
      /\ \A i, j \in 1 .. Len(l) : l[i] = l[j] => i = j
      /\ ToSet(l) = {l[i] : i \in 1 .. Len(l)}
  BY ListFacts
<1> DEFINE a == Append(l, x)
<1>1. /\ a \in Seq(DOMAIN Kind) /\ Len(a) = Len(l) + 1 /\ DOMAIN a = 1 .. Len(a)
      /\ a[Len(l) + 1] = x /\ \A i \in 1 .. Len(l) : a[i] = l[i]
  BY <1>l
<1> HIDE DEF a
<1>2. IsInjective(a)
  <2> SUFFICES ASSUME NEW i \in 1 .. Len(l) + 1, NEW j \in 1 .. Len(l) + 1, a[i] = a[j]
               PROVE  i = j
    BY <1>1 DEF IsInjective
  <2>1. CASE i = Len(l) + 1
    BY <2>1, <1>1, <1>l
  <2>2. CASE j = Len(l) + 1
    BY <2>2, <1>1, <1>l
  <2>3. CASE i \in 1 .. Len(l) /\ j \in 1 .. Len(l)
    BY <2>3, <1>1, <1>l
  <2> QED
    BY <2>1, <2>2, <2>3, <1>l
<1>3. ToSet(a) = ToSet(l) \cup {x}
  BY <1>1, <1>l DEF ToSet
<1> QED
  BY <1>1, <1>2, <1>3 DEF Lists, a

(* A new name in front of a list.                                             *)
LEMMA InFront ==
  ASSUME NEW l \in Lists, NEW x \in DOMAIN Kind, \A i \in 1 .. Len(l) : l[i] # x
  PROVE  <<x>> \o l \in Lists /\ ToSet(<<x>> \o l) = ToSet(l) \cup {x}
<1>l. /\ l \in Seq(DOMAIN Kind) /\ Len(l) \in Nat /\ DOMAIN l = 1 .. Len(l)
      /\ \A i, j \in 1 .. Len(l) : l[i] = l[j] => i = j
      /\ ToSet(l) = {l[i] : i \in 1 .. Len(l)}
  BY ListFacts
<1> DEFINE a == <<x>> \o l
<1>1. /\ a \in Seq(DOMAIN Kind) /\ Len(a) = Len(l) + 1 /\ DOMAIN a = 1 .. Len(a)
      /\ a[1] = x /\ \A i \in 2 .. Len(l) + 1 : a[i] = l[i - 1]
  BY <1>l
<1> HIDE DEF a
<1>2. IsInjective(a)
  <2> SUFFICES ASSUME NEW i \in 1 .. Len(l) + 1, NEW j \in 1 .. Len(l) + 1, a[i] = a[j]
               PROVE  i = j
    BY <1>1 DEF IsInjective
  <2>1. CASE i = 1 \/ j = 1
    BY <2>1, <1>1, <1>l
  <2>2. CASE i # 1 /\ j # 1
    <3>1. l[i - 1] = l[j - 1] /\ i - 1 \in 1 .. Len(l) /\ j - 1 \in 1 .. Len(l)
      BY <2>2, <1>1, <1>l
    <3>2. i - 1 = j - 1
      BY <3>1, <1>l
    <3> QED
      BY <3>2
  <2> QED
    BY <2>1, <2>2
<1>3. ToSet(a) = ToSet(l) \cup {x}
  <2>1. \A i \in 1 .. Len(l) : a[i + 1] = l[i] /\ i + 1 \in 1 .. Len(a)
    BY <1>1, <1>l
  <2>2. \A i \in 1 .. Len(a) : a[i] = x \/ \E j \in 1 .. Len(l) : a[i] = l[j]
    <3> TAKE i \in 1 .. Len(a)
    <3>1. CASE i = 1
      BY <3>1, <1>1
    <3>2. CASE i # 1
      <4>1. i \in 2 .. Len(l) + 1 /\ i - 1 \in 1 .. Len(l)
        BY <3>2, <1>1, <1>l
      <4> QED
        BY <4>1, <1>1
    <3> QED
      BY <3>1, <3>2
  <2>3. 1 \in 1 .. Len(a) /\ a[1] = x
    BY <1>1, <1>l
  <2>4. ToSet(a) = {a[i] : i \in 1 .. Len(a)}
    BY <1>1 DEF ToSet
  <2>5. ToSet(l) = {l[i] : i \in 1 .. Len(l)}
    BY <1>l
  <2>6. ASSUME NEW y \in ToSet(l) PROVE y \in ToSet(a)
    <3>1. PICK i \in 1 .. Len(l) : y = l[i]
      BY <2>5
    <3> QED
      BY <3>1, <2>1, <2>4
  <2>7. ASSUME NEW y \in ToSet(a) PROVE y = x \/ y \in ToSet(l)
    <3>1. PICK i \in 1 .. Len(a) : y = a[i]
      BY <2>4
    <3> QED
      BY <3>1, <2>2, <2>5
  <2>8. x \in ToSet(a)
    BY <2>3, <2>4
  <2> QED
    BY <2>6, <2>7, <2>8
<1> QED
  BY <1>1, <1>2, <1>3 DEF Lists, a

(* Without its k-th name a list is still a list, of all the others.           *)
LEMMA Without ==
  ASSUME NEW l \in Lists, NEW k \in 1 .. Len(l)
  PROVE  RemoveAt(l, k) \in Lists /\ ToSet(l) \ {l[k]} \subseteq ToSet(RemoveAt(l, k))
<1>l. /\ l \in Seq(DOMAIN Kind) /\ Len(l) \in Nat /\ DOMAIN l = 1 .. Len(l)
      /\ \A i, j \in 1 .. Len(l) : l[i] = l[j] => i = j
      /\ \A i \in 1 .. Len(l) : l[i] \in DOMAIN Kind
      /\ ToSet(l) = {l[i] : i \in 1 .. Len(l)}
  BY ListFacts
<1> DEFINE a == SubSeq(l, 1, k - 1)
           b == SubSeq(l, k + 1, Len(l))
<1>a. /\ a \in Seq(DOMAIN Kind) /\ Len(a) = k - 1
      /\ \A i \in 1 .. k - 1 : a[i] = l[i]
  <2>1. \A i \in 1 .. k - 1 : l[i] \in DOMAIN Kind
    BY <1>l
  <2>2. 1 \in Int /\ k - 1 \in Int
    OBVIOUS
  <2>3. /\ a \in Seq(DOMAIN Kind)
        /\ Len(a) = IF 1 <= k - 1 THEN k - 1 - 1 + 1 ELSE 0
        /\ \A i \in 1 .. k - 1 - 1 + 1 : a[i] = l[1 + i - 1]
    BY <2>1, <2>2, SubSeqProperties
  <2> HIDE DEF a
  <2>4. \A i \in 1 .. k - 1 : i \in 1 .. k - 1 - 1 + 1 /\ 1 + i - 1 = i
    OBVIOUS
  <2> QED
    BY <2>3, <2>4
<1>b. /\ b \in Seq(DOMAIN Kind) /\ Len(b) = Len(l) - k
      /\ \A i \in 1 .. Len(l) - k : b[i] = l[k + i]
  <2>1. \A i \in k + 1 .. Len(l) : l[i] \in DOMAIN Kind
    BY <1>l
  <2>2. k + 1 \in Int /\ Len(l) \in Int
    BY <1>l
  <2>3. /\ b \in Seq(DOMAIN Kind)
        /\ Len(b) = IF k + 1 <= Len(l) THEN Len(l) - (k + 1) + 1 ELSE 0
        /\ \A i \in 1 .. Len(l) - (k + 1) + 1 : b[i] = l[k + 1 + i - 1]
    BY <2>1, <2>2, SubSeqProperties
  <2> HIDE DEF b
  <2>4. \A i \in 1 .. Len(l) - k : i \in 1 .. Len(l) - (k + 1) + 1 /\ k + 1 + i - 1 = k + i
    BY <1>l
  <2>5. \A i \in 1 .. Len(l) - k : b[i] = l[k + i]
    BY <2>3, <2>4
  <2> QED
    <3>1. Len(b) = Len(l) - k
      <4> DEFINE N == Len(b)
                 M == Len(l)
      <4>1. N = (IF k + 1 <= M THEN M - (k + 1) + 1 ELSE 0) /\ k \in 1 .. M /\ M \in Nat
        BY <2>3, <1>l, ZenonT(60)
      <4> HIDE DEF N, M
      <4>2. N = M - k
        BY <4>1
      <4> QED
        BY <4>2 DEF N, M
    <3> QED
      BY <2>3, <2>5, <3>1
<1> DEFINE r == a \o b
<1> HIDE DEF a, b
<1>1. /\ r \in Seq(DOMAIN Kind) /\ Len(r) = Len(l) - 1 /\ DOMAIN r = 1 .. Len(l) - 1
      /\ \A i \in 1 .. Len(l) - 1 : r[i] = IF i <= k - 1 THEN a[i] ELSE b[i - (k - 1)]
  <2>1. r \in Seq(DOMAIN Kind) /\ Len(r) = Len(a) + Len(b)
    BY <1>a, <1>b, ConcatProperties
  <2>2. \A i \in 1 .. Len(a) + Len(b) : r[i] = IF i <= Len(a) THEN a[i] ELSE b[i - Len(a)]
    BY <1>a, <1>b
  <2>3. Len(a) + Len(b) = Len(l) - 1
    BY <1>a, <1>b, <1>l
  <2> QED
    BY <2>1, <2>2, <2>3, <1>a
<1> HIDE DEF r
<1>2. \A i \in 1 .. Len(l) - 1 : r[i] = IF i < k THEN l[i] ELSE l[i + 1]
  <2> TAKE i \in 1 .. Len(l) - 1
  <2>1. CASE i < k
    BY <2>1, <1>1, <1>a
  <2>2. CASE ~(i < k)
    <3> DEFINE m == i - (k - 1)
    <3>1. m \in 1 .. Len(l) - k /\ k + m = i + 1
      BY <2>2, <1>l
    <3>2. r[i] = b[m]
      BY <2>2, <1>1
    <3>3. b[m] = l[k + m]
      BY <3>1, <1>b
    <3> QED
      BY <2>2, <3>1, <3>2, <3>3
  <2> QED
    BY <2>1, <2>2
<1>3. IsInjective(r)
  <2> SUFFICES ASSUME NEW i \in 1 .. Len(l) - 1, NEW j \in 1 .. Len(l) - 1, r[i] = r[j]
               PROVE  i = j
    BY <1>1 DEF IsInjective
  <2> DEFINE At(m) == IF m < k THEN m ELSE m + 1
  <2>1. /\ At(i) \in 1 .. Len(l) /\ r[i] = l[At(i)]
        /\ At(j) \in 1 .. Len(l) /\ r[j] = l[At(j)]
    BY <1>2, <1>l
  <2>2. At(i) = At(j)
    BY <2>1, <1>l
  <2> QED
    BY <2>2
<1>4. ToSet(l) \ {l[k]} \subseteq ToSet(r)
  <2> SUFFICES ASSUME NEW j \in 1 .. Len(l), j # k
               PROVE  \E i \in 1 .. Len(l) - 1 : r[i] = l[j]
    <3>1. ToSet(r) = {r[i] : i \in 1 .. Len(l) - 1}
      BY <1>1 DEF ToSet
    <3>2. \A y \in ToSet(l) \ {l[k]} : \E j \in 1 .. Len(l) : j # k /\ y = l[j]
      BY <1>l
    <3> QED
      BY <3>1, <3>2, ZenonT(60)
  <2>1. CASE j < k
    <3>1. j \in 1 .. Len(l) - 1 /\ r[j] = l[j]
      BY <2>1, <1>2, <1>l
    <3> QED
      BY <3>1
  <2>2. CASE j > k
    <3>1. j - 1 \in 1 .. Len(l) - 1 /\ r[j - 1] = l[j]
      BY <2>2, <1>2, <1>l
    <3> QED
      BY <3>1
  <2> QED
    BY <2>1, <2>2
<1>5. RemoveAt(l, k) = r
  BY DEF RemoveAt, r, a, b
<1> QED
  BY <1>1, <1>3, <1>4, <1>5 DEF Lists

----------------------------------------------------------------------------
(* What the operations of the list do to the names in it.                     *)
LEMMA AppendCombo ==
  ASSUME NEW c \in Combos, NEW x \in DOMAIN Kind
  PROVE  append_combo(c, x) \in Combos /\ ToSet(append_combo(c, x).list) = ToSet(c.list) \cup {x}
<1>l. c.list \in Lists /\ Len(c.list) \in Nat /\ ToSet(c.list) = {c.list[i] : i \in 1 .. Len(c.list)}
  BY ListFacts DEF Combos
<1> DEFINE a == IF find_combo(c, x) = 0 THEN [c EXCEPT !.list = Append(@, x)] ELSE c
<1>1. a \in Combos /\ ToSet(a.list) = ToSet(c.list) \cup {x} /\ a.list # << >>
  <2>1. CASE find_combo(c, x) = 0
    <3>1. c.list \in Lists /\ \A i \in 1 .. Len(c.list) : c.list[i] # x
      BY <2>1, FindCombo DEF Combos
    <3>2. Append(c.list, x) \in Lists /\ ToSet(Append(c.list, x)) = ToSet(c.list) \cup {x}
      BY <3>1, Behind
    <3>3. Append(c.list, x) # << >>
      <4>1. c.list \in Seq(DOMAIN Kind)
        BY <3>1 DEF Lists
      <4> QED
        BY <4>1
    <3> HIDE DEF Lists
    <3>4. a = [c EXCEPT !.list = Append(@, x)] /\ a.list = Append(c.list, x)
      BY <2>1 DEF Combos
    <3> QED
      BY <3>2, <3>3, <3>4 DEF Combos
  <2>2. CASE find_combo(c, x) # 0
    <3>1. find_combo(c, x) \in 1 .. Len(c.list) /\ c.list[find_combo(c, x)] = x
      BY <2>2, <1>l, FindCombo
    <3>2. x \in ToSet(c.list) /\ c.list # << >>
      BY <3>1, <1>l
    <3> QED
      BY <2>2, <3>2
  <2> QED
    BY <2>1, <2>2
<1> HIDE DEF a
<1>2. append_combo(c, x) = IF find_combo(a, a.sel) = 0 THEN SetActive(a, 1) ELSE a
  BY DEF append_combo, a
<1>3. 1 \in 1 .. Len(a.list)
  <2>1. a.list \in Lists
    BY <1>1 DEF Combos
  <2>2. Len(a.list) \in Nat /\ (Len(a.list) = 0 => a.list = << >>)
    BY <2>1, ListFacts
  <2> QED
    BY <2>2, <1>1
<1> QED
  BY <1>1, <1>2, <1>3, SelectsOne

(* prepend_combo adds a name and loses none.                                  *)
LEMMA PrependCombo ==
  ASSUME NEW c \in Combos, NEW x \in DOMAIN Kind
  PROVE  prepend_combo(c, x) \in Combos /\ ToSet(prepend_combo(c, x).list) = ToSet(c.list) \cup {x}
<1>l. c.list \in Lists /\ Len(c.list) \in Nat /\ ToSet(c.list) = {c.list[i] : i \in 1 .. Len(c.list)}
  BY ListFacts DEF Combos
<1>1. CASE find_combo(c, x) = 0
  <2>1. \A i \in 1 .. Len(c.list) : c.list[i] # x
    BY <1>1, FindCombo
  <2> DEFINE a == [c EXCEPT !.list = <<x>> \o @]
  <2>2. a.list \in Lists /\ ToSet(a.list) = ToSet(c.list) \cup {x} /\ a.sel = c.sel
    BY <2>1, <1>l, InFront DEF Combos
  <2>3. a \in Combos
    BY <2>2 DEF Combos
  <2>4. 1 \in 1 .. Len(a.list)
    BY <1>l DEF Lists
  <2>5. prepend_combo(c, x) = SetActive(a, 1)
    BY <1>1 DEF prepend_combo
  <2> HIDE DEF a
  <2> QED
    BY <2>2, <2>3, <2>4, <2>5, SelectsOne
<1>2. CASE find_combo(c, x) # 0
  <2>1. find_combo(c, x) \in 1 .. Len(c.list) /\ c.list[find_combo(c, x)] = x
    BY <1>2, <1>l, FindCombo
  <2>2. x \in ToSet(c.list)
    BY <2>1, <1>l
  <2>3. prepend_combo(c, x) = SetActive(c, find_combo(c, x))
    BY <1>2 DEF prepend_combo
  <2> QED
    BY <2>1, <2>2, <2>3, SelectsOne
<1> QED
  BY <1>1, <1>2

(* remove_combo loses no saved name.                                          *)
LEMMA RemoveCombo ==
  ASSUME NEW c \in Combos, NEW x \in DOMAIN Kind, ToSet(Saved) \subseteq ToSet(c.list)
  PROVE  remove_combo(c, x) \in Combos /\ ToSet(Saved) \subseteq ToSet(remove_combo(c, x).list)
<1>1. CASE Contains(Saved, x) \/ find_prefix(c, x) = 0
  BY <1>1 DEF remove_combo
<1>2. CASE ~Contains(Saved, x) /\ find_prefix(c, x) # 0
  <2>1. x \notin ToSet(Saved)
    BY <1>2, PortsAssumption DEF PortsAssumption, Contains, ToSet
  <2> DEFINE k == find_prefix(c, x)
             a == [c EXCEPT !.list = RemoveAt(@, k)]
  <2>l. c.list \in Lists /\ Len(c.list) \in Nat
    BY ListFacts DEF Combos
  <2>2. k \in 1 .. Len(c.list) /\ c.list[k] \notin ToSet(Saved)
    BY <1>2, <2>1, <2>l, FindPrefix
  <2>6. remove_combo(c, x) = SetActive(a, 1)
    BY <1>2 DEF remove_combo
  <2> HIDE DEF k
  <2>3. RemoveAt(c.list, k) \in Lists /\ ToSet(Saved) \subseteq ToSet(RemoveAt(c.list, k))
    BY <2>2, <2>l, Without
  <2>4. a \in Combos /\ ToSet(Saved) \subseteq ToSet(a.list)
    BY <2>3 DEF Combos
  <2> HIDE DEF a
  <2>5. a.list = << >> \/ 1 \in 1 .. Len(a.list)
    <3>1. a.list \in Seq(DOMAIN Kind)
      BY <2>4 DEF Combos, Lists
    <3> QED
      BY <3>1
  <2> QED
    BY <2>4, <2>5, <2>6, SelectsOne
<1> QED
  BY <1>1, <1>2

----------------------------------------------------------------------------
(* What the watch does to one name keeps the list and loses no saved name.    *)
LEMMA InsertOne ==
  ASSUME NEW c \in Combos, NEW x \in DOMAIN Kind
  PROVE  Insert(c, x) \in Combos /\ ToSet(c.list) \subseteq ToSet(Insert(c, x).list)
<1>1. check_insert_name(x) \in {-1, 0, 1}
  BY DEF check_insert_name
<1>2. Insert(c, x) \in {c, prepend_combo(c, x), append_combo(c, x)}
  BY <1>1 DEF Insert
<1>3. ToSet(c.list) \subseteq ToSet(c.list) \cup {x}
  OBVIOUS
<1>4. /\ append_combo(c, x) \in Combos /\ ToSet(append_combo(c, x).list) = ToSet(c.list) \cup {x}
      /\ prepend_combo(c, x) \in Combos /\ ToSet(prepend_combo(c, x).list) = ToSet(c.list) \cup {x}
  BY AppendCombo, PrependCombo
<1> QED
  BY <1>2, <1>3, <1>4

(* One name of the watcher's second pass: no saved name is lost.              *)
LEMMA DeleteOne ==
  ASSUME NEW c \in Combos, NEW x \in DOMAIN Kind, ToSet(Saved) \subseteq ToSet(c.list)
  PROVE  Delete(c, x) \in Combos /\ ToSet(Saved) \subseteq ToSet(Delete(c, x).list)
BY RemoveCombo DEF Delete

(* The pass over the ports that are there adds to the list.                   *)
LEMMA InsertedIs ==
  ASSUME Combo \in Combos
  PROVE  Inserted \in Combos /\ ToSet(combo) \subseteq ToSet(Inserted.list)
<1> DEFINE N == Len(Names)
           S == {c \in Combos : ToSet(combo) \subseteq ToSet(c.list)}
           Do(b, i) == IF Names[i] \in check_ports THEN Insert(b, Names[i]) ELSE b
           Step == [i \in 1 .. N |-> [b \in S |-> Do(b, i)]]
           Eq(g) == g = [i \in 0 .. N |-> IF i = 0 THEN Combo ELSE IF Names[i] \in check_ports
                                 THEN Insert(g[i - 1], Names[i]) ELSE g[i - 1]]
           upto == CHOOSE g : Eq(g)
<1>1. N \in Nat /\ \A i \in 1 .. N : Names[i] \in DOMAIN Kind
  BY PortsAssumption DEF PortsAssumption
<1>2. Combo \in S
  BY DEF Combo
<1>3. \A b \in S, i \in 1 .. N : Do(b, i) \in S
  BY <1>1, InsertOne
<1> HIDE DEF N, S
<1>4. StepsIn(N, S, Step)
  BY <1>3 DEF StepsIn
<1>5. \E g : Eq(g)
  <2>1. PICK g : PassTo(N, S, Combo, Step, g)
    <3> HIDE DEF Step
    <3> QED
      BY <1>1, <1>2, <1>4, Pass
  <2>2. \A i \in 1 .. N : g[i] = Do(g[i - 1], i)
    <3> HIDE DEF Do
    <3> QED
      BY <2>1 DEF PassTo
  <2>3. Eq(g)
    <3> HIDE DEF Step
    <3> QED
      BY <2>1, <2>2, <1>1 DEF PassTo
  <2> QED
    BY <2>3
<1>6. Eq(upto)
  <2> HIDE DEF Eq
  <2> QED
    BY <1>5
<1>7. Inserted = upto[N]
  BY DEF Inserted, N
<1> HIDE DEF upto
<1>8. upto[0] = Combo /\ \A i \in 1 .. N : upto[i] = Do(upto[i - 1], i)
  BY <1>6, <1>1
<1>9. Follows(N, S, Combo, Step, upto)
  <2> HIDE DEF Do
  <2> QED
    BY <1>8 DEF Follows
<1>10. upto[N] \in S
  <2> HIDE DEF Step
  <2> QED
    BY <1>1, <1>2, <1>4, <1>9, StaysIn
<1> QED
  BY <1>7, <1>10 DEF S

(* The pass over the names that are listed by then takes no saved one off.    *)
LEMMA DeletedIs ==
  ASSUME NEW c \in Combos, ToSet(Saved) \subseteq ToSet(c.list)
  PROVE  DeletedFrom(c) \in Combos /\ ToSet(Saved) \subseteq ToSet(DeletedFrom(c).list)
<1> DEFINE N == Len(c.list)
           S == {b \in Combos : ToSet(Saved) \subseteq ToSet(b.list)}
           Do(b, i) == Delete(b, c.list[i])
           Step == [i \in 1 .. N |-> [b \in S |-> Do(b, i)]]
           Eq(g) == g = [i \in 0 .. N |-> IF i = 0 THEN c ELSE Delete(g[i - 1], c.list[i])]
           upto == CHOOSE g : Eq(g)
<1>1. N \in Nat /\ \A i \in 1 .. N : c.list[i] \in DOMAIN Kind
  BY ListFacts DEF Combos
<1>2. c \in S
  OBVIOUS
<1>3. \A b \in S, i \in 1 .. N : Do(b, i) \in S
  BY <1>1, DeleteOne
<1> HIDE DEF N, S
<1>4. StepsIn(N, S, Step)
  BY <1>3 DEF StepsIn
<1>5. \E g : Eq(g)
  <2>1. PICK g : PassTo(N, S, c, Step, g)
    <3> HIDE DEF Step
    <3> QED
      BY <1>1, <1>2, <1>4, Pass
  <2>2. \A i \in 1 .. N : g[i] = Do(g[i - 1], i)
    <3> HIDE DEF Do
    <3> QED
      BY <2>1 DEF PassTo
  <2>3. Eq(g)
    <3> HIDE DEF Step
    <3> QED
      BY <2>1, <2>2, <1>1 DEF PassTo
  <2> QED
    BY <2>3
<1>6. Eq(upto)
  <2> HIDE DEF Eq
  <2> QED
    BY <1>5
<1>7. DeletedFrom(c) = upto[N]
  BY DEF DeletedFrom, N
<1> HIDE DEF upto
<1>8. upto[0] = c /\ \A i \in 1 .. N : upto[i] = Do(upto[i - 1], i)
  BY <1>6, <1>1
<1>9. Follows(N, S, c, Step, upto)
  <2> HIDE DEF Do
  <2> QED
    BY <1>8 DEF Follows
<1>10. upto[N] \in S
  <2> HIDE DEF Step
  <2> QED
    BY <1>1, <1>2, <1>4, <1>9, StaysIn
<1> QED
  BY <1>7, <1>10 DEF S

(* The list starts with the serial ports that are there, and ends with those  *)
(* of Bluetooth.                                                              *)
LEMMA SerialsIs ==
  ASSUME NEW ports
  PROVE  Serials(ports) \in Combos /\ ToSet(Serials(ports).list) \subseteq ports
<1> DEFINE N == Len(Names)
           S == {c \in Combos : ToSet(c.list) \subseteq ports}
           Do(b, i) == IF Names[i] \in ports /\ Kind[Names[i]] # "bt" THEN prepend_combo(b, Names[i]) ELSE b
           Step == [i \in 1 .. N |-> [b \in S |-> Do(b, i)]]
           Eq(g) == g = [i \in 0 .. N |-> IF i = 0 THEN Nothing ELSE IF Names[i] \in ports /\ Kind[Names[i]] # "bt"
                                 THEN prepend_combo(g[i - 1], Names[i]) ELSE g[i - 1]]
           upto == CHOOSE g : Eq(g)
<1>1. N \in Nat /\ \A i \in 1 .. N : Names[i] \in DOMAIN Kind
  BY PortsAssumption DEF PortsAssumption
<1>2. Nothing \in S
  <2>1. << >> \in Seq(DOMAIN Kind) /\ DOMAIN << >> = {}
    BY EmptySeq
  <2>2. << >> \in Lists /\ ToSet(<< >>) = {}
    BY <2>1 DEF Lists, IsInjective, ToSet
  <2> QED
    BY <2>2 DEF Nothing, Combos
<1>3. \A b \in S, i \in 1 .. N : Do(b, i) \in S
  BY <1>1, PrependCombo
<1> HIDE DEF N, S
<1>4. StepsIn(N, S, Step)
  BY <1>3 DEF StepsIn
<1>5. \E g : Eq(g)
  <2>1. PICK g : PassTo(N, S, Nothing, Step, g)
    <3> HIDE DEF Step
    <3> QED
      BY <1>1, <1>2, <1>4, Pass
  <2>2. \A i \in 1 .. N : g[i] = Do(g[i - 1], i)
    <3> HIDE DEF Do
    <3> QED
      BY <2>1 DEF PassTo
  <2>3. Eq(g)
    <3> HIDE DEF Step
    <3> QED
      BY <2>1, <2>2, <1>1 DEF PassTo
  <2> QED
    BY <2>3
<1>6. Eq(upto)
  <2> HIDE DEF Eq
  <2> QED
    BY <1>5
<1>7. Serials(ports) = upto[N]
  BY DEF Serials, N
<1> HIDE DEF upto
<1>8. upto[0] = Nothing /\ \A i \in 1 .. N : upto[i] = Do(upto[i - 1], i)
  BY <1>6, <1>1
<1>9. Follows(N, S, Nothing, Step, upto)
  <2> HIDE DEF Do
  <2> QED
    BY <1>8 DEF Follows
<1>10. upto[N] \in S
  <2> HIDE DEF Step
  <2> QED
    BY <1>1, <1>2, <1>4, <1>9, StaysIn
<1> QED
  BY <1>7, <1>10 DEF S

(* The pass over the Bluetooth ports adds to the list.                        *)
LEMMA WithBluetoothIs ==
  ASSUME NEW ports, NEW c \in Combos
  PROVE  WithBluetooth(ports, c) \in Combos /\ ToSet(c.list) \subseteq ToSet(WithBluetooth(ports, c).list)
<1> DEFINE N == Len(Names)
           S == {b \in Combos : ToSet(c.list) \subseteq ToSet(b.list)}
           Do(b, i) == IF Names[i] \in ports /\ Kind[Names[i]] = "bt" THEN append_combo(b, Names[i]) ELSE b
           Step == [i \in 1 .. N |-> [b \in S |-> Do(b, i)]]
           Eq(g) == g = [i \in 0 .. N |-> IF i = 0 THEN c ELSE IF Names[i] \in ports /\ Kind[Names[i]] = "bt"
                                 THEN append_combo(g[i - 1], Names[i]) ELSE g[i - 1]]
           upto == CHOOSE g : Eq(g)
<1>1. N \in Nat /\ \A i \in 1 .. N : Names[i] \in DOMAIN Kind
  BY PortsAssumption DEF PortsAssumption
<1>2. c \in S
  OBVIOUS
<1>3. \A b \in S, i \in 1 .. N : Do(b, i) \in S
  BY <1>1, AppendCombo
<1> HIDE DEF N, S
<1>4. StepsIn(N, S, Step)
  BY <1>3 DEF StepsIn
<1>5. \E g : Eq(g)
  <2>1. PICK g : PassTo(N, S, c, Step, g)
    <3> HIDE DEF Step
    <3> QED
      BY <1>1, <1>2, <1>4, Pass
  <2>2. \A i \in 1 .. N : g[i] = Do(g[i - 1], i)
    <3> HIDE DEF Do
    <3> QED
      BY <2>1 DEF PassTo
  <2>3. Eq(g)
    <3> HIDE DEF Step
    <3> QED
      BY <2>1, <2>2, <1>1 DEF PassTo
  <2> QED
    BY <2>3
<1>6. Eq(upto)
  <2> HIDE DEF Eq
  <2> QED
    BY <1>5
<1>7. WithBluetooth(ports, c) = upto[N]
  BY DEF WithBluetooth, N
<1> HIDE DEF upto
<1>8. upto[0] = c /\ \A i \in 1 .. N : upto[i] = Do(upto[i - 1], i)
  BY <1>6, <1>1
<1>9. Follows(N, S, c, Step, upto)
  <2> HIDE DEF Do
  <2> QED
    BY <1>8 DEF Follows
<1>10. upto[N] \in S
  <2> HIDE DEF Step
  <2> QED
    BY <1>1, <1>2, <1>4, <1>9, StaysIn
<1> QED
  BY <1>7, <1>10 DEF S

----------------------------------------------------------------------------
(* The list as the state has it: every handler keeps it.                      *)
PortsInv == PortsTypeOK /\ ListSound

(* The list and the selection are a combo box's, with the saved names.        *)
LEMMA ComboIs == PortsInv => Combo \in Combos /\ Combo.list = combo /\ ToSet(Saved) \subseteq ToSet(combo)
BY DEF PortsInv, PortsTypeOK, ListSound, Combo, Combos, Lists

(* A handler that shows a list with the saved names keeps the invariant.      *)
LEMMA Shown ==
  ASSUME NEW STATE c, c \in Combos, ToSet(Saved) \subseteq ToSet(c.list), Show(c),
         os' = os, os \in Systems, plugged' \subseteq ToSet(Names)
  PROVE  PortsInv'
<1>1. combo' = c.list /\ sel' = c.sel /\ c.list \in Lists /\ c.sel \in DOMAIN Kind \cup {""}
  BY DEF Show, Combos
<1>2. PortsTypeOK'
  BY <1>1 DEF PortsTypeOK, Lists
<1>3. ListSound'
  BY <1>1 DEF ListSound, Lists
<1> QED
  BY <1>2, <1>3 DEF PortsInv

(* SerialWatcher.run's timer.                                                 *)
LEMMA WatchStep == ASSUME PortsInv, Watch PROVE PortsInv'
<1>1. Combo \in Combos /\ ToSet(Saved) \subseteq ToSet(combo)
  BY ComboIs
<1>2. Inserted \in Combos /\ ToSet(Saved) \subseteq ToSet(Inserted.list)
  BY <1>1, InsertedIs
<1>3. Watched \in Combos /\ ToSet(Saved) \subseteq ToSet(Watched.list)
  BY <1>2, DeletedIs DEF Watched
<1>4. Show(Watched) /\ os' = os /\ os \in Systems /\ plugged' \subseteq ToSet(Names)
  BY DEF Watch, PortsInv, PortsTypeOK
<1> QED
  BY <1>3, <1>4, Shown

(* The device manager adds a port.                                            *)
LEMMA AddedStep ==
  ASSUME PortsInv, NEW x \in ToSet(Names), NEW STATE connected, DeviceAdded(x, connected)
  PROVE  PortsInv'
<1>1. Combo \in Combos /\ Combo.list = combo /\ ToSet(Saved) \subseteq ToSet(combo)
  BY ComboIs
<1>2. x \in DOMAIN Kind
  BY PortsAssumption DEF PortsAssumption, ToSet
<1>3. os' = os /\ os \in Systems /\ plugged' \subseteq ToSet(Names)
  BY DEF DeviceAdded, PortsInv, PortsTypeOK
<1>4. CASE os = "linux"
  <2> DEFINE a == append_combo(Combo, x)
             p == prepend_combo(Combo, x)
  <2>1. /\ a \in Combos /\ ToSet(a.list) = ToSet(combo) \cup {x}
        /\ p \in Combos /\ ToSet(p.list) = ToSet(combo) \cup {x}
    BY <1>1, <1>2, AppendCombo, PrependCombo
  <2>2. ToSet(Saved) \subseteq ToSet(a.list) /\ ToSet(Saved) \subseteq ToSet(p.list)
    BY <2>1, <1>1
  <2>3. Show(IF connected \/ Kind[x] = "bt" THEN a ELSE p)
    BY <1>4 DEF DeviceAdded
  <2>4. Show(a) \/ Show(p)
    BY <2>3
  <2> HIDE DEF a, p
  <2> QED
    BY <2>1, <2>2, <2>4, <1>3, Shown
<1>5. CASE os # "linux"
  BY <1>5, <1>3 DEF DeviceAdded, PortsInv, PortsTypeOK, ListSound
<1> QED
  BY <1>4, <1>5

(* The device manager removes a port.                                         *)
LEMMA RemovedStep ==
  ASSUME PortsInv, NEW x \in ToSet(Names), DeviceRemoved(x)
  PROVE  PortsInv'
<1>1. Combo \in Combos /\ Combo.list = combo /\ ToSet(Saved) \subseteq ToSet(combo)
  BY ComboIs
<1>2. x \in DOMAIN Kind
  BY PortsAssumption DEF PortsAssumption, ToSet
<1>3. os' = os /\ os \in Systems /\ plugged' \subseteq ToSet(Names)
  BY DEF DeviceRemoved, PortsInv, PortsTypeOK
<1>4. CASE os = "linux"
  <2>1. Show(remove_combo(Combo, x))
    BY <1>4 DEF DeviceRemoved
  <2>2. remove_combo(Combo, x) \in Combos /\ ToSet(Saved) \subseteq ToSet(remove_combo(Combo, x).list)
    BY <1>1, <1>2, RemoveCombo
  <2> QED
    BY <2>1, <2>2, <1>3, Shown
<1>5. CASE os # "linux"
  BY <1>5, <1>3 DEF DeviceRemoved, PortsInv, PortsTypeOK, ListSound
<1> QED
  BY <1>4, <1>5

(* The user selects a name.                                                   *)
LEMMA SelectStep == ASSUME PortsInv, NEW x, UserSelects(x) PROVE PortsInv'
<1>1. x \in DOMAIN Kind
  <2>1. combo \in Seq(DOMAIN Kind)
    BY DEF PortsInv, PortsTypeOK
  <2>2. PICK i \in 1 .. Len(combo) : combo[i] = x
    BY DEF UserSelects, Contains
  <2> QED
    BY <2>1, <2>2
<1> QED
  BY <1>1 DEF UserSelects, PortsInv, PortsTypeOK, ListSound

(* The list mwp builds when it starts is sound where no port that the device  *)
(* manager finds is also a saved name.                                        *)
LEMMA InitList ==
  ASSUME NEW system \in Systems, NEW there, there \subseteq ToSet(Names),
         system = "linux" => ToSet(Saved) \cap there = {},
         PortsInit(system, there)
  PROVE  PortsInv
<1> DEFINE ports == IF system = "linux" THEN there ELSE {}
           c == Serials(ports)
           a == [c EXCEPT !.list = @ \o Saved]
<1>1. c \in Combos /\ ToSet(c.list) \subseteq ports /\ c.list \in Lists
  BY SerialsIs DEF Combos
<1>2. ports \cap ToSet(Saved) = {}
  OBVIOUS
<1>3. Saved \in Lists
  BY PortsAssumption DEF PortsAssumption, Lists
<1>4. build_serial_combo(ports) = WithBluetooth(ports, a).list
  BY DEF build_serial_combo
<1>9. combo = build_serial_combo(ports) /\ os = system /\ plugged = there
      /\ sel = IF combo = << >> THEN "" ELSE Head(combo)
  BY DEF PortsInit
<1> HIDE DEF ports, c
<1>5. c.list \o Saved \in Lists /\ ToSet(Saved) \subseteq ToSet(c.list \o Saved)
  <2> DEFINE l == c.list
             r == l \o Saved
  <2>l. /\ l \in Seq(DOMAIN Kind) /\ Len(l) \in Nat
        /\ \A i, j \in 1 .. Len(l) : l[i] = l[j] => i = j
        /\ ToSet(l) = {l[i] : i \in 1 .. Len(l)}
    BY <1>1, ListFacts
  <2>s. /\ Saved \in Seq(DOMAIN Kind) /\ Len(Saved) \in Nat
        /\ \A i, j \in 1 .. Len(Saved) : Saved[i] = Saved[j] => i = j
        /\ ToSet(Saved) = {Saved[i] : i \in 1 .. Len(Saved)}
    BY <1>3, ListFacts
  <2> HIDE DEF l
  <2>1. /\ r \in Seq(DOMAIN Kind) /\ Len(r) = Len(l) + Len(Saved) /\ DOMAIN r = 1 .. Len(l) + Len(Saved)
        /\ \A i \in 1 .. Len(l) + Len(Saved) : r[i] = IF i <= Len(l) THEN l[i] ELSE Saved[i - Len(l)]
    BY <2>l, <2>s
  <2> HIDE DEF r
  <2>2. \A i \in 1 .. Len(l), j \in 1 .. Len(Saved) : l[i] # Saved[j]
    <3>1. ToSet(l) \cap ToSet(Saved) = {}
      BY <1>1, <1>2 DEF l
    <3> TAKE i \in 1 .. Len(l), j \in 1 .. Len(Saved)
    <3>2. l[i] \in ToSet(l)
      BY <2>l
    <3>3. Saved[j] \in ToSet(Saved)
      BY <2>s
    <3> QED
      BY <3>1, <3>2, <3>3
  <2>3. IsInjective(r)
    <3> SUFFICES ASSUME NEW i \in DOMAIN r, NEW j \in DOMAIN r, r[i] = r[j] PROVE i = j
      BY DEF IsInjective
    <3>1. \A m \in DOMAIN r : m <= Len(l) => m \in 1 .. Len(l) /\ r[m] = l[m]
      BY <2>1, <2>l
    <3>2. \A m \in DOMAIN r : ~(m <= Len(l)) => m - Len(l) \in 1 .. Len(Saved) /\ r[m] = Saved[m - Len(l)]
      BY <2>1, <2>l, <2>s
    <3>3. CASE i <= Len(l) /\ j <= Len(l)
      BY <3>1, <3>3, <2>l
    <3>4. CASE ~(i <= Len(l)) /\ ~(j <= Len(l))
      <4>1. i - Len(l) = j - Len(l)
        BY <3>2, <3>4, <2>s
      <4> QED
        BY <4>1, <2>1, <2>l
    <3>5. CASE i <= Len(l) /\ ~(j <= Len(l))
      BY <3>1, <3>2, <3>5, <2>2
    <3>6. CASE ~(i <= Len(l)) /\ j <= Len(l)
      BY <3>1, <3>2, <3>6, <2>2
    <3> QED
      BY <3>3, <3>4, <3>5, <3>6
  <2>4. ToSet(Saved) \subseteq ToSet(r)
    <3>1. \A i \in 1 .. Len(Saved) : Len(l) + i \in DOMAIN r /\ r[Len(l) + i] = Saved[i]
      <4> TAKE i \in 1 .. Len(Saved)
      <4>1. Len(l) + i \in 1 .. Len(l) + Len(Saved) /\ ~(Len(l) + i <= Len(l)) /\ Len(l) + i - Len(l) = i
        BY <2>l, <2>s
      <4> QED
        BY <4>1, <2>1
    <3> QED
      BY <3>1, <2>s DEF ToSet
  <2> QED
    BY <2>1, <2>3, <2>4 DEF Lists, r, l
<1>6. a \in Combos /\ ToSet(Saved) \subseteq ToSet(a.list)
  BY <1>1, <1>5 DEF Combos
<1> HIDE DEF a
<1>7. /\ WithBluetooth(ports, a) \in Combos
      /\ ToSet(Saved) \subseteq ToSet(WithBluetooth(ports, a).list)
  BY <1>6, WithBluetoothIs
<1>8. combo \in Lists /\ ToSet(Saved) \subseteq ToSet(combo)
  BY <1>4, <1>7, <1>9 DEF Combos
<1>10. sel \in DOMAIN Kind \cup {""}
  <2>1. combo \in Seq(DOMAIN Kind)
    BY <1>8 DEF Lists
  <2>2. combo # << >> => Head(combo) \in DOMAIN Kind
    BY <2>1
  <2> QED
    BY <2>2, <1>9
<1> QED
  BY <1>8, <1>9, <1>10 DEF PortsInv, PortsTypeOK, ListSound, Lists
=============================================================================

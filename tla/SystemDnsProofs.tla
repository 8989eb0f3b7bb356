--------------------------- MODULE SystemDnsProofs ---------------------------
(***************************************************************************)
(* Proofs about SystemDns for any cores, interfaces, resolvers of both     *)
(* families, requests and bounds: DnsInv is an invariant, and what becomes *)
(* of the resolvers of the owner follows from it.  First come facts about  *)
(* the lists the core reads and writes, then one lemma per conjunct of     *)
(* DnsInv.                                                                 *)
(***************************************************************************)
EXTENDS SystemDns, NaturalsInduction, SequenceTheorems, WellFoundedInduction, TLAPS

(***************************************************************************)
(* A set of numbers that is not empty has a least element.                 *)
(***************************************************************************)
LEMMA Least ==
  ASSUME NEW S \in SUBSET Nat, S # {}
  PROVE  \E x \in S : \A y \in S : x <= y
<1>1. PICK x \in S : \A y \in S : <<y, x>> \notin OpToRel(<, Nat)
  BY NatLessThanWellFounded, WFMin
<1>2. \A y \in S : ~(y < x)
  BY <1>1, Zenon DEF OpToRel
<1>3. x \in Nat /\ \A y \in S : y \in Nat /\ x <= y
  BY <1>2
<1>. QED
  BY <1>3

-----------------------------------------------------------------------------
(* Lists of resolvers *)

(***************************************************************************)
(* The loop that leaves out the members of a set runs through every list,  *)
(* one element at a time.                                                  *)
(***************************************************************************)
Runs(f, s, S) ==
    /\ f[0] = <<>> /\ Without(s, S) = f[Len(s)]
    /\ \A n \in 1 .. Len(s) : f[n] = IF s[n] \in S THEN f[n - 1] ELSE Append(f[n - 1], s[n])

LEMMA WithoutRuns ==
  ASSUME NEW X, NEW s \in Seq(X), NEW S
  PROVE  \E f \in [0 .. Len(s) -> Seq(X)] : Runs(f, s, S)
<1>. DEFINE Body(f, n) == IF n = 0 THEN <<>>
                          ELSE IF s[n] \in S THEN f[n - 1] ELSE Append(f[n - 1], s[n])
            Reaches(m) == \E f \in [0 .. m -> Seq(X)] : \A n \in 0 .. m : f[n] = Body(f, n)
            Stuck == {m \in 0 .. Len(s) : ~Reaches(m)}
<1>1. Stuck = {}
  <2>. SUFFICES ASSUME Stuck # {} PROVE FALSE
    OBVIOUS
  <2>1. PICK m \in Stuck : \A k \in Stuck : m <= k
    <3>1. Stuck \in SUBSET Nat
      OBVIOUS
    <3>. HIDE DEF Stuck
    <3>. QED
      BY <3>1, Least
  <2>2. m # 0
    <3>. DEFINE none == [n \in 0 .. 0 |-> <<>>]
    <3>1. none \in [0 .. 0 -> Seq(X)]
      OBVIOUS
    <3>2. \A n \in 0 .. 0 : n = 0 /\ none[n] = <<>>
      OBVIOUS
    <3>3. \A n \in 0 .. 0 : none[n] = Body(none, n)
      BY <3>2, Zenon
    <3>4. Reaches(0)
      <4>. HIDE DEF none, Body
      <4>. QED
        BY <3>1, <3>3
    <3>. HIDE DEF Reaches
    <3>. QED
      BY <2>1, <3>4
  <2>3. Reaches(m - 1)
    <3>. HIDE DEF Reaches
    <3>1. m - 1 \in 0 .. Len(s) /\ ~(m <= m - 1)
      BY <2>1, <2>2
    <3>. QED
      BY <2>1, <3>1
  <2>4. PICK f \in [0 .. m - 1 -> Seq(X)] : \A n \in 0 .. m - 1 : f[n] = Body(f, n)
    BY <2>3
  <2>. DEFINE g == [n \in 0 .. m |-> IF n = m THEN Body(f, m) ELSE f[n]]
  <2>5. m \in 1 .. Len(s) /\ s[m] \in X /\ f[m - 1] \in Seq(X)
    BY <2>1, <2>2, <2>4
  <2>6. Body(f, m) \in Seq(X)
    BY <2>5, <2>2
  <2>7. g \in [0 .. m -> Seq(X)]
    BY <2>6, <2>4, <2>5
  <2>8. \A n \in 0 .. m : g[n] = Body(g, n)
    <3>. TAKE n \in 0 .. m
    <3>1. n # 0 => n - 1 \in 0 .. m - 1 /\ g[n - 1] = f[n - 1]
      BY <2>5
    <3>2. Body(g, n) = Body(f, n)
      BY <3>1
    <3>3. CASE n = m
      BY <3>3, <3>2
    <3>4. CASE n # m
      <4>1. n \in 0 .. m - 1 /\ g[n] = f[n]
        BY <3>4, <2>5
      <4>2. f[n] = Body(f, n)
        BY <4>1, <2>4
      <4>. HIDE DEF g, Body
      <4>. QED
        BY <4>1, <4>2, <3>2
    <3>. QED
      BY <3>3, <3>4
  <2>9. Reaches(m)
    BY <2>7, <2>8
  <2>. QED
    BY <2>9, <2>1
<1>2. PICK g \in [0 .. Len(s) -> Seq(X)] : \A n \in 0 .. Len(s) : g[n] = Body(g, n)
  BY <1>1
<1>. DEFINE Solves(f) == f = [n \in 0 .. Len(s) |-> Body(f, n)]
            kept == CHOOSE f : Solves(f)
<1>3. Solves(g)
  BY <1>2
<1>4. Solves(kept)
  BY <1>3
<1>5. Without(s, S) = kept[Len(s)]
  BY DEF Without
<1>6. kept = g
  <2>. DEFINE Off == {n \in 0 .. Len(s) : kept[n] # g[n]}
  <2>1. Off = {}
    <3>. SUFFICES ASSUME Off # {} PROVE FALSE
      OBVIOUS
    <3>1. PICK m \in Off : \A k \in Off : m <= k
      <4>1. Off \in SUBSET Nat
        OBVIOUS
      <4>. HIDE DEF Off
      <4>. QED
        BY <4>1, Least
    <3>. HIDE DEF kept
    <3>2. kept[m] = Body(kept, m) /\ g[m] = Body(g, m)
      BY <1>4, <1>2, <3>1
    <3>3. m # 0 => kept[m - 1] = g[m - 1]
      <4>. SUFFICES ASSUME m # 0 PROVE kept[m - 1] = g[m - 1]
        OBVIOUS
      <4>1. m - 1 \in 0 .. Len(s) /\ ~(m <= m - 1)
        BY <3>1
      <4>. QED
        BY <3>1, <4>1
    <3>4. Body(kept, m) = Body(g, m)
      BY <3>3
    <3>. HIDE DEF Body
    <3>. QED
      BY <3>1, <3>2, <3>4
  <2>. HIDE DEF kept
  <2>2. DOMAIN kept = 0 .. Len(s) /\ kept = [n \in DOMAIN kept |-> kept[n]]
    BY <1>4
  <2>. QED
    BY <2>1, <2>2
<1>7. Without(s, S) = g[Len(s)]
  <2>. HIDE DEF kept
  <2>. QED
    BY <1>5, <1>6
<1>8. g[0] = <<>>
  <2>1. 0 \in 0 .. Len(s) /\ Body(g, 0) = <<>>
    OBVIOUS
  <2>. HIDE DEF Body
  <2>. QED
    BY <1>2, <2>1
<1>9. \A n \in 1 .. Len(s) :
          g[n] = IF s[n] \in S THEN g[n - 1] ELSE Append(g[n - 1], s[n])
  <2>. TAKE n \in 1 .. Len(s)
  <2>1. n \in 0 .. Len(s) /\ n # 0
    OBVIOUS
  <2>2. g[n] = Body(g, n)
    <3>. HIDE DEF Body
    <3>. QED
      BY <1>2, <2>1
  <2>. QED
    BY <2>1, <2>2
<1>. QED
  BY <1>7, <1>8, <1>9, Zenon DEF Runs

(***************************************************************************)
(* A list that has its members of S at the end has the others before them. *)
(***************************************************************************)
LEMMA WithoutIsPrefix ==
  ASSUME NEW X, NEW s \in Seq(X), NEW S, NEW n \in 0 .. Len(s),
         \A k \in 1 .. n : s[k] \notin S,
         \A k \in n + 1 .. Len(s) : s[k] \in S
  PROVE  Without(s, S) = SubSeq(s, 1, n)
<1>0. PICK f \in [0 .. Len(s) -> Seq(X)] : Runs(f, s, S)
  BY WithoutRuns
<1>1. /\ f[0] = <<>> /\ Without(s, S) = f[Len(s)]
      /\ \A k \in 1 .. Len(s) : f[k] = IF s[k] \in S THEN f[k - 1] ELSE Append(f[k - 1], s[k])
  BY <1>0 DEF Runs
<1>. DEFINE Upto(k) == IF k <= n THEN k ELSE n
            Off == {k \in 0 .. Len(s) : f[k] # SubSeq(s, 1, Upto(k))}
<1>2. Off = {}
  <2>. SUFFICES ASSUME Off # {} PROVE FALSE
    OBVIOUS
  <2>1. PICK m \in Off : \A k \in Off : m <= k
    <3>1. Off \in SUBSET Nat
      OBVIOUS
    <3>. HIDE DEF Off
    <3>. QED
      BY <3>1, Least
  <2>2. m # 0
    <3>1. SubSeq(s, 1, Upto(0)) = <<>>
      OBVIOUS
    <3>2. f[m] # SubSeq(s, 1, Upto(m))
      BY <2>1
    <3>. HIDE DEF Upto
    <3>. QED
      BY <3>1, <3>2, <1>1, Zenon
  <2>3. m \in 1 .. Len(s) /\ m - 1 \notin Off
    BY <2>1, <2>2
  <2>4. f[m - 1] = SubSeq(s, 1, Upto(m - 1))
    BY <2>3
  <2>5. CASE m <= n
    <3>1. f[m - 1] = SubSeq(s, 1, m - 1) /\ s[m] \notin S
      BY <2>3, <2>4, <2>5
    <3>3. f[m] = Append(SubSeq(s, 1, m - 1), s[m])
      BY <2>3, <3>1, <1>1
    <3>2. Append(SubSeq(s, 1, m - 1), s[m]) = SubSeq(s, 1, m)
      BY <2>3
    <3>. QED
      BY <3>3, <3>2, <2>5, <2>1
  <2>6. CASE ~(m <= n)
    <3>1. s[m] \in S /\ Upto(m) = n /\ Upto(m - 1) = n
      BY <2>6, <2>3
    <3>. QED
      BY <3>1, <2>3, <2>4, <1>1, <2>1
  <2>. QED
    BY <2>5, <2>6
<1>3. Upto(Len(s)) = n
  OBVIOUS
<1>4. f[Len(s)] = SubSeq(s, 1, Upto(Len(s)))
  BY <1>2
<1>. QED
  BY <1>1, <1>3, <1>4

(***************************************************************************)
(* A list without members of S stays as it is; of one that has nothing     *)
(* else, nothing stays.                                                    *)
(***************************************************************************)
LEMMA WithoutFew ==
  ASSUME NEW X, NEW s \in Seq(X), NEW S
  PROVE  /\ (\A k \in 1 .. Len(s) : s[k] \notin S) => Without(s, S) = s
         /\ (\A k \in 1 .. Len(s) : s[k] \in S) => Without(s, S) = <<>>
         /\ Without(s, S) \in Seq(X)
<1>1. ASSUME \A k \in 1 .. Len(s) : s[k] \notin S
      PROVE  Without(s, S) = s
  <2>1. Len(s) \in 0 .. Len(s) /\ \A k \in Len(s) + 1 .. Len(s) : s[k] \in S
    OBVIOUS
  <2>2. Without(s, S) = SubSeq(s, 1, Len(s))
    BY <1>1, <2>1, WithoutIsPrefix
  <2>. QED
    BY <2>2
<1>2. ASSUME \A k \in 1 .. Len(s) : s[k] \in S
      PROVE  Without(s, S) = <<>>
  <2>1. 0 \in 0 .. Len(s) /\ \A k \in 1 .. 0 : s[k] \notin S
    OBVIOUS
  <2>2. \A k \in 0 + 1 .. Len(s) : s[k] \in S
    BY <1>2
  <2>3. Without(s, S) = SubSeq(s, 1, 0)
    BY <2>1, <2>2, WithoutIsPrefix
  <2>. QED
    BY <2>3
<1>3. Without(s, S) \in Seq(X)
  <2>1. PICK f \in [0 .. Len(s) -> Seq(X)] : Runs(f, s, S)
    BY WithoutRuns
  <2>2. Len(s) \in 0 .. Len(s) /\ Without(s, S) = f[Len(s)]
    BY <2>1 DEF Runs
  <2>. QED
    BY <2>1, <2>2
<1>. QED
  BY <1>1, <1>2, <1>3

(***************************************************************************)
(* Appending to the second of two lists.                                   *)
(***************************************************************************)
Appends(X) ==
    \A x \in Seq(X), y \in Seq(X), e \in X : Append(x \o y, e) = x \o Append(y, e)

LEMMA AppendConcat ==
  ASSUME NEW X
  PROVE  Appends(X)
BY DEF Appends

(***************************************************************************)
(* Two lists, one after the other.                                         *)
(***************************************************************************)
Splits(X, S) ==
    \A a \in Seq(X), b \in Seq(X) : Without(a \o b, S) = Without(a, S) \o Without(b, S)

LEMMA WithoutConcat ==
  ASSUME NEW X, NEW S
  PROVE  Splits(X, S)
<1>. SUFFICES ASSUME NEW a \in Seq(X), NEW b \in Seq(X)
              PROVE  Without(a \o b, S) = Without(a, S) \o Without(b, S)
  BY DEF Splits
<1>0. a \o b \in Seq(X)
  BY ConcatProperties
<1>3. PICK ab \in Seq(X) : ab = a \o b
  BY <1>0
<1>4. /\ Len(ab) = Len(a) + Len(b) /\ Len(a) \in Nat /\ Len(b) \in Nat
      /\ \A k \in 1 .. Len(a) : ab[k] = a[k]
      /\ \A k \in 1 .. Len(b) : ab[Len(a) + k] = b[k]
  BY <1>3
<1>10. PICK f \in [0 .. Len(a) -> Seq(X)] : Runs(f, a, S)
  BY WithoutRuns
<1>20. PICK h \in [0 .. Len(b) -> Seq(X)] : Runs(h, b, S)
  BY WithoutRuns
<1>30. PICK g \in [0 .. Len(ab) -> Seq(X)] : Runs(g, ab, S)
  BY WithoutRuns
<1>1. /\ f[0] = <<>> /\ Without(a, S) = f[Len(a)]
      /\ \A k \in 1 .. Len(a) : f[k] = IF a[k] \in S THEN f[k - 1] ELSE Append(f[k - 1], a[k])
  BY <1>10 DEF Runs
<1>2. /\ h[0] = <<>> /\ Without(b, S) = h[Len(b)]
      /\ \A k \in 1 .. Len(b) : h[k] = IF b[k] \in S THEN h[k - 1] ELSE Append(h[k - 1], b[k])
  BY <1>20 DEF Runs
<1>5. /\ g[0] = <<>> /\ Without(ab, S) = g[Len(ab)]
      /\ \A k \in 1 .. Len(ab) : g[k] = IF ab[k] \in S THEN g[k - 1] ELSE Append(g[k - 1], ab[k])
  BY <1>30 DEF Runs
<1>6. \A k \in 0 .. Len(a) : g[k] = f[k]
  <2>. DEFINE Off == {k \in 0 .. Len(a) : g[k] # f[k]}
  <2>1. Off = {}
    <3>. SUFFICES ASSUME Off # {} PROVE FALSE
      OBVIOUS
    <3>1. PICK m \in Off : \A k \in Off : m <= k
      <4>1. Off \in SUBSET Nat
        OBVIOUS
      <4>. HIDE DEF Off
      <4>. QED
        BY <4>1, Least
    <3>2. m # 0
      BY <3>1, <1>1, <1>5
    <3>20. m \in 1 .. Len(a) /\ m - 1 \in 0 .. Len(a) /\ ~(m <= m - 1)
      BY <3>1, <3>2, <1>4
    <3>21. m - 1 \notin Off
      BY <3>1, <3>20
    <3>3. m \in 1 .. Len(a) /\ m \in 1 .. Len(ab) /\ m - 1 \notin Off /\ m - 1 \in 0 .. Len(a)
      BY <3>20, <3>21, <1>4
    <3>4. g[m - 1] = f[m - 1] /\ ab[m] = a[m]
      BY <3>3, <1>4
    <3>5. f[m] = IF a[m] \in S THEN f[m - 1] ELSE Append(f[m - 1], a[m])
      BY <3>3, <1>1
    <3>6. g[m] = IF ab[m] \in S THEN g[m - 1] ELSE Append(g[m - 1], ab[m])
      BY <3>3, <1>5
    <3>. QED
      BY <3>1, <3>4, <3>5, <3>6
  <2>. QED
    BY <2>1
<1>7. PICK first \in Seq(X) : first = Without(a, S)
  BY WithoutFew
<1>70. Appends(X)
  BY AppendConcat
<1>8. \A k \in 0 .. Len(b) : g[Len(a) + k] = first \o h[k]
  <2>. DEFINE Off == {k \in 0 .. Len(b) : g[Len(a) + k] # first \o h[k]}
  <2>1. Off = {}
    <3>. SUFFICES ASSUME Off # {} PROVE FALSE
      OBVIOUS
    <3>1. PICK m \in Off : \A k \in Off : m <= k
      <4>1. Off \in SUBSET Nat
        OBVIOUS
      <4>. HIDE DEF Off
      <4>. QED
        BY <4>1, Least
    <3>2. m # 0
      <4>1. g[Len(a) + 0] = first
        BY <1>1, <1>6, <1>7
      <4>2. h[0] = <<>>
        BY <1>2
      <4>3. first \o h[0] = first
        BY <4>2
      <4>. QED
        BY <3>1, <4>1, <4>3
    <3>20. m \in 1 .. Len(b) /\ m - 1 \in 0 .. Len(b) /\ ~(m <= m - 1)
      BY <3>1, <3>2, <1>4
    <3>21. m - 1 \notin Off
      BY <3>1, <3>20
    <3>22. Len(a) + m \in 1 .. Len(ab)
      BY <3>20, <1>4
    <3>3. m \in 1 .. Len(b) /\ Len(a) + m \in 1 .. Len(ab) /\ m - 1 \notin Off /\ m - 1 \in 0 .. Len(b)
      BY <3>20, <3>21, <3>22
    <3>4. g[Len(a) + (m - 1)] = first \o h[m - 1] /\ ab[Len(a) + m] = b[m]
      BY <3>3, <1>4
    <3>5. PICK n \in Nat : n = Len(a) + m /\ n - 1 = Len(a) + (m - 1)
      BY <3>3
    <3>6. g[n] = IF ab[n] \in S THEN g[n - 1] ELSE Append(g[n - 1], ab[n])
      BY <3>3, <3>5, <1>5
    <3>7. h[m] = IF b[m] \in S THEN h[m - 1] ELSE Append(h[m - 1], b[m])
      BY <3>3, <1>2
    <3>8. PICK y \in Seq(X) : y = h[m - 1]
      BY <3>3
    <3>19. b[m] \in X
      BY <3>3
    <3>9. PICK e \in X : e = b[m]
      BY <3>19
    <3>10. Append(first \o y, e) = first \o Append(y, e)
      BY <1>7, <1>70, <3>8, <3>9, Zenon DEF Appends
    <3>11. g[n] = first \o h[m]
      <4>1. g[n - 1] = first \o y /\ ab[n] = e
        BY <3>4, <3>5, <3>8, <3>9
      <4>2. CASE e \in S
        BY <4>1, <4>2, <3>6, <3>7, <3>8, <3>9
      <4>3. CASE e \notin S
        BY <4>1, <4>3, <3>6, <3>7, <3>8, <3>9, <3>10
      <4>. QED
        BY <4>2, <4>3
    <3>. QED
      BY <3>1, <3>5, <3>11
  <2>. QED
    BY <2>1
<1>9. g[Len(ab)] = first \o Without(b, S)
  <2>1. Len(b) \in 0 .. Len(b)
    BY <1>4
  <2>2. g[Len(a) + Len(b)] = first \o h[Len(b)]
    BY <2>1, <1>8
  <2>. QED
    BY <2>2, <1>2, <1>4
<1>. QED
  BY <1>3, <1>5, <1>7, <1>9

(***************************************************************************)
(* A list that leads with an address.                                      *)
(***************************************************************************)
LEMMA Leads ==
  ASSUME NEW X, NEW e \in X, NEW a \in Seq(X), NEW b \in Seq(X)
  PROVE  /\ (<<e>> \o a) \o b # <<>> /\ Head((<<e>> \o a) \o b) = e
         /\ Tail((<<e>> \o a) \o b) = a \o b
<1>1. PICK p : p = (<<e>> \o a) \o b
  OBVIOUS
<1>2. /\ p \in Seq(X) /\ Len(p) = 1 + Len(a) + Len(b) /\ p[1] = e
      /\ \A k \in 1 .. Len(a) : p[k + 1] = a[k]
      /\ \A k \in 1 .. Len(b) : p[Len(a) + 1 + k] = b[k]
  BY <1>1
<1>3. PICK r : r = a \o b
  OBVIOUS
<1>4. /\ r \in Seq(X) /\ Len(r) = Len(a) + Len(b)
      /\ \A k \in 1 .. Len(a) : r[k] = a[k]
      /\ \A k \in 1 .. Len(b) : r[Len(a) + k] = b[k]
  BY <1>3
<1>5. p # <<>> /\ Head(p) = e
  BY <1>2
<1>6. /\ Tail(p) \in Seq(X) /\ Len(Tail(p)) = Len(a) + Len(b)
      /\ \A k \in 1 .. Len(Tail(p)) : Tail(p)[k] = p[k + 1]
  BY <1>2, <1>5
<1>7. PICK t \in Seq(X) : t = Tail(p)
  BY <1>6
<1>8. Len(t) = Len(r) /\ \A k \in 1 .. Len(t) : t[k] = p[k + 1]
  BY <1>4, <1>6, <1>7
<1>9. \A k \in 1 .. Len(t) : t[k] = r[k]
  <2>. TAKE k \in 1 .. Len(t)
  <2>1. Len(a) \in Nat /\ Len(b) \in Nat /\ Len(t) = Len(a) + Len(b)
    BY <1>4, <1>8
  <2>2. CASE k \in 1 .. Len(a)
    BY <2>2, <1>2, <1>4, <1>8
  <2>3. CASE k \notin 1 .. Len(a)
    <3>1. PICK l \in 1 .. Len(b) : k = Len(a) + l /\ k + 1 = Len(a) + 1 + l
      <4>. DEFINE l == k - Len(a)
      <4>1. l \in 1 .. Len(b) /\ k = Len(a) + l /\ k + 1 = Len(a) + 1 + l
        BY <2>1, <2>3
      <4>. HIDE DEF l
      <4>. QED
        BY <4>1
    <3>2. t[k] = p[k + 1]
      BY <1>8
    <3>3. p[Len(a) + 1 + l] = b[l] /\ r[Len(a) + l] = b[l]
      BY <1>2, <1>4
    <3>. QED
      BY <3>1, <3>2, <3>3
  <2>. QED
    BY <2>2, <2>3
<1>10. t = r
  BY <1>4, <1>8, <1>9, SeqEqual
<1>. QED
  BY <1>1, <1>3, <1>5, <1>7, <1>10

(***************************************************************************)
(* The addresses of the core are its own.                                  *)
(***************************************************************************)
LEMMA AddressFacts ==
  /\ Local \in Addresses /\ Marks \subseteq Addresses
  /\ Resolvers \subseteq Addresses /\ Resolvers6 \subseteq Addresses
  /\ DhcpMark \in Marks /\ SetMark \in Marks /\ DhcpMark # SetMark /\ Local \notin Marks
  /\ Resolvers \cap Marks = {} /\ Resolvers6 \cap Marks = {}
  /\ Resolvers \cap Resolvers6 = {} /\ Local \notin Resolvers6
  /\ Marks \cap Resolvers6 = {}
<1>1. Local # DhcpMark /\ Local # SetMark /\ DhcpMark # SetMark
  BY DEF DhcpMark, SetMark, Local
<1>. QED
  BY <1>1, SystemDnsAssumption DEF Addresses, Marks

(***************************************************************************)
(* Leaving out nothing, or everything.                                     *)
(***************************************************************************)
LEMMA WithoutPure ==
  ASSUME NEW T \in SUBSET Addresses, NEW s \in Seq(T), NEW S
  PROVE  /\ T \cap S = {} => Without(s, S) = s
         /\ T \subseteq S => Without(s, S) = <<>>
<1>1. s \in Seq(Addresses) /\ \A k \in 1 .. Len(s) : s[k] \in T
  OBVIOUS
<1>2. ASSUME T \cap S = {} PROVE Without(s, S) = s
  <2>1. \A k \in 1 .. Len(s) : s[k] \notin S
    BY <1>1, <1>2
  <2>. QED
    BY <1>1, <2>1, WithoutFew
<1>3. ASSUME T \subseteq S PROVE Without(s, S) = <<>>
  <2>1. \A k \in 1 .. Len(s) : s[k] \in S
    BY <1>1, <1>3
  <2>. QED
    BY <1>1, <2>1, WithoutFew
<1>. QED
  BY <1>2, <1>3

(***************************************************************************)
(* A list without marks was not set by a core.                             *)
(***************************************************************************)
LEMMA Markless ==
  ASSUME NEW s \in Seq(Addresses), \A k \in 1 .. Len(s) : s[k] \notin Marks
  PROVE  /\ ~WasSet(s) /\ ~WasDhcp(s) /\ Unpointed(s) = s
         /\ ~\E k \in DOMAIN s : s[k] = DhcpMark
<1>1. DOMAIN s = 1 .. Len(s)
  OBVIOUS
<1>2. \A k \in DOMAIN s : s[k] \notin Marks
  BY <1>1
<1>3. ~WasSet(s) /\ ~WasDhcp(s)
  BY <1>2 DEF WasSet, WasDhcp
<1>4. Own(s) = s
  BY WithoutFew DEF Own
<1>. QED
  BY <1>2, <1>3, <1>4, AddressFacts DEF Unpointed

(***************************************************************************)
(* The list of an interface in the configuration of its owner.             *)
(***************************************************************************)
LEMMA FoundListFacts ==
  ASSUME NEW i \in Interfaces
  PROVE  /\ Given(i) \in Seq(Addresses) /\ Six[i] \in Seq(Addresses)
         /\ \A k \in 1 .. Len(Given(i)) : Given(i)[k] \in Resolvers
         /\ \A k \in 1 .. Len(Six[i]) : Six[i][k] \in Resolvers6
         /\ FoundList(i) \in Seq(Addresses)
         /\ ~WasSet(FoundList(i)) /\ ~WasDhcp(FoundList(i))
         /\ Unpointed(FoundList(i)) = FoundList(i) /\ Unpointed(Given(i)) = Given(i)
         /\ ~\E k \in DOMAIN FoundList(i) : FoundList(i)[k] = DhcpMark
<1>1. PICK g : g = Given(i)
  OBVIOUS
<1>2. PICK x : x = Six[i]
  OBVIOUS
<1>3. g \in Seq(Resolvers) /\ x \in Seq(Resolvers6)
  <2>1. Manual[i] \in Seq(Resolvers) /\ Offered[i] \in Seq(Resolvers) /\ Six[i] \in Seq(Resolvers6)
    BY SystemDnsAssumption
  <2>. QED
    BY <2>1, <1>1, <1>2 DEF Given
<1>4. /\ g \in Seq(Addresses) /\ \A k \in 1 .. Len(g) : g[k] \in Resolvers
      /\ x \in Seq(Addresses) /\ \A k \in 1 .. Len(x) : x[k] \in Resolvers6
  BY <1>3, AddressFacts
<1>5. PICK f : f = g \o x
  OBVIOUS
<1>6. f \in Seq(Addresses) /\ \A k \in 1 .. Len(f) : f[k] \in Resolvers \cup Resolvers6
  <2>1. /\ f \in Seq(Addresses) /\ Len(f) = Len(g) + Len(x)
        /\ \A k \in 1 .. Len(g) + Len(x) : f[k] = IF k <= Len(g) THEN g[k] ELSE x[k - Len(g)]
    BY <1>4, <1>5, ConcatProperties
  <2>2. ASSUME NEW k \in 1 .. Len(f) PROVE f[k] \in Resolvers \cup Resolvers6
    <3>1. Len(g) \in Nat /\ Len(x) \in Nat
      BY <1>4
    <3>2. CASE k <= Len(g)
      <4>1. k \in 1 .. Len(g) /\ f[k] = g[k]
        BY <2>1, <3>1, <3>2
      <4>. QED
        BY <4>1, <1>4
    <3>3. CASE ~(k <= Len(g))
      <4>1. k - Len(g) \in 1 .. Len(x) /\ f[k] = x[k - Len(g)]
        BY <2>1, <3>1, <3>3
      <4>. QED
        BY <4>1, <1>4
    <3>. QED
      BY <3>2, <3>3
  <2>. QED
    BY <2>1, <2>2
<1>7. \A k \in 1 .. Len(f) : f[k] \notin Marks
  BY <1>6, AddressFacts
<1>8. \A k \in 1 .. Len(g) : g[k] \notin Marks
  BY <1>4, AddressFacts
<1>9. /\ ~WasSet(f) /\ ~WasDhcp(f) /\ Unpointed(f) = f
      /\ ~\E k \in DOMAIN f : f[k] = DhcpMark
  BY <1>6, <1>7, Markless
<1>10. Unpointed(g) = g
  BY <1>4, <1>8, Markless
<1>11. FoundList(i) = f
  BY <1>1, <1>2, <1>5 DEF FoundList
<1>. QED
  BY <1>1, <1>2, <1>4, <1>6, <1>9, <1>10, <1>11

Mark(i) == IF Manual[i] = <<>> THEN DhcpMark ELSE SetMark

(***************************************************************************)
(* What the core writes over it has its own address first and the mark     *)
(* last, and Windows lists the IPv6 resolvers after it.                    *)
(***************************************************************************)
LEMMA CoreListIs ==
  ASSUME NEW i \in Interfaces
  PROVE  /\ Mark(i) \in Marks /\ (Mark(i) = DhcpMark <=> Manual[i] = <<>>)
         /\ <<Local>> \in Seq(Addresses) /\ <<Mark(i)>> \in Seq(Addresses)
         /\ Pointed(Given(i), Manual[i] = <<>>) = (<<Local>> \o Given(i)) \o <<Mark(i)>>
         /\ Pointed(FoundList(i), Manual[i] = <<>>)
              = (<<Local>> \o (Given(i) \o Six[i])) \o <<Mark(i)>>
         /\ CoreList(i) = ((<<Local>> \o Given(i)) \o <<Mark(i)>>) \o Six[i]
<1>1. Mark(i) \in Marks /\ (Mark(i) = DhcpMark <=> Manual[i] = <<>>)
  BY AddressFacts DEF Mark
<1>2. PICK m \in Addresses : m = Mark(i)
  BY <1>1, AddressFacts
<1>3. <<Local>> \in Seq(Addresses) /\ <<m>> \in Seq(Addresses)
  BY AddressFacts
<1>4. Pointed(Given(i), Manual[i] = <<>>) = (<<Local>> \o Given(i)) \o <<Mark(i)>>
  BY FoundListFacts, Zenon DEF Pointed, Mark
<1>5. Pointed(FoundList(i), Manual[i] = <<>>) = (<<Local>> \o (Given(i) \o Six[i])) \o <<Mark(i)>>
  <2>1. Unpointed(FoundList(i)) = Given(i) \o Six[i]
    BY FoundListFacts DEF FoundList
  <2>. QED
    BY <2>1, Zenon DEF Pointed, Mark
<1>6. CoreList(i) = ((<<Local>> \o Given(i)) \o <<Mark(i)>>) \o Six[i]
  BY <1>4, Zenon DEF CoreList
<1>. QED
  BY <1>1, <1>2, <1>3, <1>4, <1>5, <1>6, Zenon

(***************************************************************************)
(* From the list of the core the loops get the list of the owner and       *)
(* whether it was DHCP's.                                                  *)
(***************************************************************************)
LEMMA CoreListFacts ==
  ASSUME NEW i \in Interfaces
  PROVE  /\ CoreList(i) \in Seq(Addresses) /\ CoreList(i) # <<>>
         /\ WasSet(CoreList(i)) /\ Unpointed(CoreList(i)) = FoundList(i)
         /\ WasDhcp(CoreList(i)) <=> Manual[i] = <<>>
         /\ (\E k \in DOMAIN CoreList(i) : CoreList(i)[k] = DhcpMark) <=> Manual[i] = <<>>
<1>1. PICK g \in Seq(Addresses) : g = Given(i)
  BY FoundListFacts
<1>2. PICK x \in Seq(Addresses) : x = Six[i]
  BY FoundListFacts
<1>3. PICK m \in Addresses : m = Mark(i)
  BY CoreListIs, AddressFacts
<1>4. /\ \A k \in 1 .. Len(g) : g[k] \in Resolvers
      /\ \A k \in 1 .. Len(x) : x[k] \in Resolvers6
      /\ m \in Marks /\ (m = DhcpMark <=> Manual[i] = <<>>)
  BY <1>1, <1>2, <1>3, FoundListFacts, CoreListIs
<1>5. PICK p : p = ((<<Local>> \o g) \o <<m>>) \o x
  OBVIOUS
<1>6. CoreList(i) = p
  BY <1>1, <1>2, <1>3, <1>5, CoreListIs
<1>7. PICK n \in Nat : n = Len(g)
  OBVIOUS
<1>8. /\ p \in Seq(Addresses) /\ Len(p) = n + 2 + Len(x) /\ DOMAIN p = 1 .. Len(p)
      /\ p[1] = Local /\ p[n + 2] = m
      /\ \A k \in 1 .. n : p[k + 1] = g[k]
      /\ \A k \in 1 .. Len(x) : p[n + 2 + k] = x[k]
  BY <1>5, <1>7, AddressFacts
<1>9. \A k \in DOMAIN p : p[k] \in Marks <=> k = n + 2
  <2>. TAKE k \in DOMAIN p
  <2>0. Len(x) \in Nat /\ k \in 1 .. n + 2 + Len(x)
    BY <1>8
  <2>1. CASE k = 1
    BY <2>1, <1>7, <1>8, AddressFacts
  <2>2. CASE k \in 2 .. n + 1
    <3>1. k - 1 \in 1 .. n /\ (k - 1) + 1 = k /\ k # n + 2
      BY <2>2
    <3>2. p[k] = g[k - 1]
      BY <3>1, <1>8
    <3>. QED
      BY <3>1, <3>2, <1>4, <1>7, AddressFacts
  <2>3. CASE k = n + 2
    BY <2>3, <1>4, <1>8
  <2>4. CASE k > n + 2
    <3>1. k - (n + 2) \in 1 .. Len(x) /\ n + 2 + (k - (n + 2)) = k /\ k # n + 2
      BY <2>0, <2>4
    <3>2. p[k] = x[k - (n + 2)]
      BY <3>1, <1>8
    <3>. QED
      BY <3>1, <3>2, <1>4, AddressFacts
  <2>. QED
    BY <2>0, <2>1, <2>2, <2>3, <2>4
<1>10. n + 2 \in DOMAIN p
  BY <1>8
<1>11. WasSet(p)
  BY <1>9, <1>10 DEF WasSet
<1>12. Own(p) = (<<Local>> \o g) \o x
  <2>1. <<Local>> \in Seq(Addresses) /\ <<m>> \in Seq(Addresses)
    BY AddressFacts
  <2>2. Own(p) = ((Own(<<Local>>) \o Own(g)) \o Own(<<m>>)) \o Own(x)
    <3>1. Splits(Addresses, Marks)
      BY WithoutConcat
    <3>2. PICK l \in Seq(Addresses), e \in Seq(Addresses) : l = <<Local>> /\ e = <<m>>
      BY <2>1
    <3>3. l \o g \in Seq(Addresses) /\ (l \o g) \o e \in Seq(Addresses)
      BY ConcatProperties
    <3>4. /\ Own(l \o g) = Own(l) \o Own(g)
          /\ Own((l \o g) \o e) = Own(l \o g) \o Own(e)
          /\ Own(((l \o g) \o e) \o x) = Own((l \o g) \o e) \o Own(x)
      BY <3>1, <3>3, Zenon DEF Own, Splits
    <3>. QED
      BY <1>5, <3>2, <3>4
  <2>3. Own(<<Local>>) = <<Local>>
    <3>1. {Local} \in SUBSET Addresses /\ <<Local>> \in Seq({Local}) /\ {Local} \cap Marks = {}
      BY AddressFacts
    <3>. QED
      BY <3>1, WithoutPure DEF Own
  <2>4. Own(<<m>>) = <<>>
    <3>1. \A k \in 1 .. Len(<<m>>) : <<m>>[k] \in Marks
      BY <1>4
    <3>. QED
      BY <2>1, <3>1, WithoutFew DEF Own
  <2>5. Own(g) = g /\ Own(x) = x
    <3>1. /\ \A k \in 1 .. Len(g) : g[k] \notin Marks
          /\ \A k \in 1 .. Len(x) : x[k] \notin Marks
      BY <1>4, AddressFacts
    <3>. QED
      BY <3>1, WithoutFew DEF Own
  <2>6. (<<Local>> \o g) \o <<>> = <<Local>> \o g
    <3>1. <<Local>> \o g \in Seq(Addresses)
      BY <2>1, ConcatProperties
    <3>. QED
      BY <3>1, ConcatEmptySeq
  <2>. QED
    BY <2>2, <2>3, <2>4, <2>5, <2>6
<1>13. Unpointed(p) = g \o x
  <2>1. /\ (<<Local>> \o g) \o x # <<>> /\ Head((<<Local>> \o g) \o x) = Local
        /\ Tail((<<Local>> \o g) \o x) = g \o x
    BY Leads, AddressFacts
  <2>. QED
    BY <1>11, <1>12, <2>1 DEF Unpointed
<1>14. WasDhcp(p) <=> m = DhcpMark
  <2>. DEFINE marks == {k \in DOMAIN p : p[k] \in Marks}
              Last(k) == \A l \in marks : l <= k
  <2>1. marks = {n + 2}
    BY <1>9, <1>10
  <2>2. (CHOOSE k \in marks : Last(k)) = n + 2
    <3>1. \A k \in marks : k = n + 2 /\ Last(k)
      BY <2>1
    <3>2. n + 2 \in marks
      BY <2>1
    <3>. HIDE DEF marks, Last
    <3>. QED
      BY <3>1, <3>2
  <2>3. WasDhcp(p) <=> marks # {} /\ p[CHOOSE k \in marks : Last(k)] = DhcpMark
    BY DEF WasDhcp
  <2>. HIDE DEF marks, Last
  <2>. QED
    BY <2>1, <2>2, <2>3, <1>8
<1>15. (\E k \in DOMAIN p : p[k] = DhcpMark) <=> m = DhcpMark
  BY <1>8, <1>9, <1>10, AddressFacts
<1>16. p # <<>> /\ FoundList(i) = g \o x
  BY <1>1, <1>2, <1>10 DEF FoundList
<1>. QED
  BY <1>4, <1>6, <1>8, <1>11, <1>13, <1>14, <1>15, <1>16

(***************************************************************************)
(* Of the lists it makes, the IPv4 servers are written.                    *)
(***************************************************************************)
LEMMA FourFacts ==
  ASSUME NEW i \in Interfaces
  PROVE  /\ Four(FoundList(i)) = Given(i)
         /\ Four(Pointed(FoundList(i), Manual[i] = <<>>)) = Pointed(Given(i), Manual[i] = <<>>)
<1>1. PICK g \in Seq(Addresses) : g = Given(i)
  BY FoundListFacts
<1>2. PICK x \in Seq(Addresses) : x = Six[i]
  BY FoundListFacts
<1>3. PICK m \in Addresses : m = Mark(i)
  BY CoreListIs, AddressFacts
<1>4. Four(g) = g /\ Four(x) = <<>>
  <2>1. /\ \A k \in 1 .. Len(g) : g[k] \notin Resolvers6
        /\ \A k \in 1 .. Len(x) : x[k] \in Resolvers6
    BY <1>1, <1>2, FoundListFacts, AddressFacts
  <2>. QED
    BY <2>1, WithoutFew DEF Four
<1>5. Four(g \o x) = g
  <2>1. Splits(Addresses, Resolvers6)
    BY WithoutConcat
  <2>2. Four(g \o x) = Four(g) \o Four(x)
    BY <2>1, Zenon DEF Splits, Four
  <2>3. g \o <<>> = g
    BY ConcatEmptySeq
  <2>. QED
    BY <1>4, <2>2, <2>3
<1>6. Four(<<Local>>) = <<Local>> /\ Four(<<m>>) = <<m>>
  <2>1. m \in Marks
    BY <1>3, CoreListIs
  <2>2. /\ {Local} \in SUBSET Addresses /\ <<Local>> \in Seq({Local}) /\ {Local} \cap Resolvers6 = {}
        /\ {m} \in SUBSET Addresses /\ <<m>> \in Seq({m}) /\ {m} \cap Resolvers6 = {}
    BY <2>1, AddressFacts
  <2>3. Four(<<Local>>) = <<Local>>
    BY <2>2, WithoutPure DEF Four
  <2>4. Four(<<m>>) = <<m>>
    BY <2>2, WithoutPure DEF Four
  <2>. QED
    BY <2>3, <2>4
<1>7. Four((<<Local>> \o (g \o x)) \o <<m>>) = (<<Local>> \o g) \o <<m>>
  <2>1. <<Local>> \in Seq(Addresses) /\ <<m>> \in Seq(Addresses)
    BY AddressFacts
  <2>2. Four((<<Local>> \o (g \o x)) \o <<m>>)
          = (Four(<<Local>>) \o (Four(g) \o Four(x))) \o Four(<<m>>)
    <3>1. Splits(Addresses, Resolvers6)
      BY WithoutConcat
    <3>2. PICK l \in Seq(Addresses), e \in Seq(Addresses) : l = <<Local>> /\ e = <<m>>
      BY <2>1
    <3>3. g \o x \in Seq(Addresses) /\ l \o (g \o x) \in Seq(Addresses)
      BY ConcatProperties
    <3>4. /\ Four(g \o x) = Four(g) \o Four(x)
          /\ Four(l \o (g \o x)) = Four(l) \o Four(g \o x)
          /\ Four((l \o (g \o x)) \o e) = Four(l \o (g \o x)) \o Four(e)
      BY <3>1, <3>3, Zenon DEF Four, Splits
    <3>. QED
      BY <3>2, <3>4
  <2>3. g \o <<>> = g
    BY ConcatEmptySeq
  <2>. QED
    BY <1>4, <1>6, <2>2, <2>3
<1>. QED
  BY <1>1, <1>2, <1>3, <1>5, <1>7, CoreListIs DEF FoundList

(***************************************************************************)
(* A list that ends in DHCP's mark is read as DHCP's.                      *)
(***************************************************************************)
LEMMA EndsInDhcp ==
  ASSUME NEW x \in Seq(Addresses), NEW a \in Seq(Addresses)
  PROVE  WasDhcp(x \o (a \o <<DhcpMark>>)) /\ a \o <<DhcpMark>> # <<>>
<1>0. PICK b \in Seq(Addresses) : b = a \o <<DhcpMark>> /\ b # <<>>
                                 /\ Len(b) = Len(a) + 1 /\ b[Len(a) + 1] = DhcpMark
  <2>1. /\ a \o <<DhcpMark>> \in Seq(Addresses) /\ a \o <<DhcpMark>> # <<>>
        /\ Len(a \o <<DhcpMark>>) = Len(a) + 1 /\ (a \o <<DhcpMark>>)[Len(a) + 1] = DhcpMark
    BY AddressFacts
  <2>. QED
    BY <2>1
<1>1. PICK p : p = x \o b
  OBVIOUS
<1>2. PICK n \in Nat : n = Len(x) + Len(a)
  OBVIOUS
<1>3. p \in Seq(Addresses) /\ DOMAIN p = 1 .. n + 1 /\ p[n + 1] = DhcpMark
  BY <1>0, <1>1, <1>2
<1>. DEFINE marks == {k \in DOMAIN p : p[k] \in Marks}
            Last(k) == \A l \in marks : l <= k
<1>4. n + 1 \in marks /\ Last(n + 1)
  BY <1>3, AddressFacts
<1>5. \A k \in marks : Last(k) => k = n + 1
  <2>1. ASSUME NEW k \in marks, Last(k) PROVE k = n + 1
    BY <2>1, <1>3, <1>4
  <2>. QED
    BY <2>1
<1>6. WasDhcp(p) <=> marks # {} /\ p[CHOOSE k \in marks : Last(k)] = DhcpMark
  BY DEF WasDhcp
<1>. HIDE DEF marks, Last
<1>7. (CHOOSE k \in marks : Last(k)) = n + 1
  BY <1>4, <1>5
<1>. QED
  BY <1>0, <1>1, <1>3, <1>4, <1>6, <1>7

(***************************************************************************)
(* Whatever list is read, the lists made from it are lists of addresses.   *)
(***************************************************************************)
LEMMA ListTypes ==
  ASSUME NEW s \in Seq(Addresses), NEW by
  PROVE  /\ Unpointed(s) \in Seq(Addresses) /\ Pointed(s, by) \in Seq(Addresses)
         /\ Four(s) \in Seq(Addresses)
<1>1. Own(s) \in Seq(Addresses) /\ Four(s) \in Seq(Addresses)
  BY WithoutFew DEF Own, Four
<1>2. Own(s) # <<>> => Tail(Own(s)) \in Seq(Addresses)
  BY <1>1
<1>3. Unpointed(s) \in Seq(Addresses)
  BY <1>1, <1>2 DEF Unpointed
<1>4. <<Local>> \in Seq(Addresses) /\ <<IF by THEN DhcpMark ELSE SetMark>> \in Seq(Addresses)
  <2>. DEFINE mark == IF by THEN DhcpMark ELSE SetMark
  <2>1. mark \in Addresses
    BY AddressFacts, Zenon
  <2>. HIDE DEF mark
  <2>2. <<Local>> \in Seq(Addresses) /\ <<mark>> \in Seq(Addresses)
    BY <2>1, AddressFacts
  <2>. QED
    BY <2>2 DEF mark
<1>5. Pointed(s, by) \in Seq(Addresses)
  <2>1. \A x, y, z \in Seq(Addresses) : x \o y \o z \in Seq(Addresses)
    OBVIOUS
  <2>. QED
    BY <2>1, <1>3, <1>4 DEF Pointed
<1>. QED
  BY <1>1, <1>3, <1>5

(***************************************************************************)
(* setSystemDNS writes the list of the core over either configuration, and *)
(* restoreSystemDNS gets from the list of the core what the owner wrote.   *)
(***************************************************************************)
LEMMA WhatIsWritten ==
  ASSUME NEW i \in Interfaces, NEW s \in {FoundList(i), CoreList(i)},
         NEW by, by <=> Manual[i] = <<>>
  PROVE  /\ Four(Pointed(s, by \/ WasDhcp(s))) = Pointed(Given(i), Manual[i] = <<>>)
         /\ WasSet(s) => Four(IF WasDhcp(s) THEN <<>> ELSE Unpointed(s)) = Manual[i]
         /\ WasSet(s) <=> s = CoreList(i)
<1>1. Unpointed(s) = FoundList(i) /\ Unpointed(FoundList(i)) = FoundList(i)
  BY FoundListFacts, CoreListFacts
<1>2. by \/ WasDhcp(s) <=> Manual[i] = <<>>
  BY FoundListFacts, CoreListFacts
<1>3. Four(Pointed(s, by \/ WasDhcp(s))) = Pointed(Given(i), Manual[i] = <<>>)
  <2>1. Pointed(s, by \/ WasDhcp(s)) = Pointed(FoundList(i), Manual[i] = <<>>)
    BY <1>1, <1>2, Zenon DEF Pointed
  <2>. QED
    BY <2>1, FourFacts, Zenon
<1>4. /\ ~WasSet(FoundList(i)) /\ WasSet(CoreList(i))
      /\ (WasDhcp(CoreList(i)) <=> Manual[i] = <<>>)
  BY FoundListFacts, CoreListFacts
<1>5. WasSet(s) <=> s = CoreList(i)
  BY <1>4
<1>6. ASSUME WasSet(s) PROVE Four(IF WasDhcp(s) THEN <<>> ELSE Unpointed(s)) = Manual[i]
  <2>1. CASE Manual[i] = <<>>
    <3>1. WasDhcp(s)
      BY <1>4, <1>5, <1>6, <2>1
    <3>2. Four(<<>>) = <<>>
      <4>1. <<>> \in Seq(Addresses) /\ \A k \in 1 .. Len(<<>>) : FALSE
        OBVIOUS
      <4>. QED
        BY <4>1, WithoutFew DEF Four
    <3>. QED
      BY <2>1, <3>1, <3>2
  <2>2. CASE Manual[i] # <<>>
    <3>1. ~WasDhcp(s)
      BY <1>4, <1>5, <1>6, <2>2
    <3>2. Given(i) = Manual[i]
      BY <2>2 DEF Given
    <3>. QED
      BY <1>1, <3>1, <3>2, FourFacts
  <2>. QED
    BY <2>1, <2>2
<1>. QED
  BY <1>3, <1>5, <1>6

(***************************************************************************)
(* What is read of an interface on which IPv6 does not lead tells its      *)
(* configuration, and the two looks of isIfcDNSDhcp tell whether its owner *)
(* wrote one.                                                              *)
(***************************************************************************)
LEMMA WhatIsRead ==
  ASSUME TypeOK, NEW i \in Interfaces, i \notin Front, AsFound(i) \/ PointsAt(i)
  PROVE  /\ DNS(i) \in {FoundList(i), CoreList(i)}
         /\ AsFound(i) <=> DNS(i) = FoundList(i)
         /\ PointsAt(i) <=> DNS(i) = CoreList(i)
         /\ Marked(i) \/ written[i] = <<>> <=> Manual[i] = <<>>
<1>1. PICK four : four = IF written[i] = <<>> THEN Offered[i] ELSE written[i]
  OBVIOUS
<1>2. four \in Seq(Addresses)
  BY <1>1, SystemDnsAssumption, AddressFacts DEF TypeOK
<1>3. DNS(i) = four \o Six[i]
  <2>1. CASE i \notin SixFirst
    BY <1>1, <2>1 DEF DNS
  <2>2. CASE Six[i] = <<>>
    <3>1. Six[i] \o four = four /\ four \o Six[i] = four
      BY <1>2, <2>2, ConcatEmptySeq
    <3>. QED
      BY <1>1, <3>1 DEF DNS
  <2>. QED
    BY <2>1, <2>2 DEF Front
<1>4. FoundList(i) # CoreList(i)
  BY FoundListFacts, CoreListFacts
<1>5. Pointed(Given(i), Manual[i] = <<>>) # <<>>
  <2>1. PICK g \in Seq(Addresses), m \in Addresses : g = Given(i) /\ m = Mark(i)
    BY FoundListFacts, CoreListIs, AddressFacts
  <2>2. (<<Local>> \o g) \o <<m>> # <<>>
    BY AddressFacts
  <2>. QED
    BY <2>1, <2>2, CoreListIs
<1>6. CASE AsFound(i)
  <2>1. DNS(i) = FoundList(i)
    BY <1>1, <1>3, <1>6 DEF AsFound, FoundList, Given
  <2>2. ~Marked(i)
    BY <2>1, FoundListFacts DEF Marked
  <2>3. ~PointsAt(i)
    <3>1. ASSUME PointsAt(i) PROVE FALSE
      <4>1. four = Pointed(Given(i), Manual[i] = <<>>)
        BY <1>1, <1>5, <3>1 DEF PointsAt
      <4>2. DNS(i) = CoreList(i)
        BY <1>3, <4>1 DEF CoreList
      <4>. QED
        BY <1>4, <2>1, <4>2
    <3>. QED
      BY <3>1
  <2>. QED
    BY <1>4, <1>6, <2>1, <2>2, <2>3 DEF AsFound
<1>7. CASE PointsAt(i)
  <2>1. written[i] # <<>> /\ DNS(i) = CoreList(i)
    BY <1>1, <1>3, <1>5, <1>7 DEF PointsAt, CoreList
  <2>2. ~AsFound(i)
    <3>1. ASSUME AsFound(i) PROVE FALSE
      <4>1. DNS(i) = FoundList(i)
        BY <1>1, <1>3, <3>1 DEF AsFound, FoundList, Given
      <4>. QED
        BY <1>4, <2>1, <4>1
    <3>. QED
      BY <3>1
  <2>3. Marked(i) <=> Manual[i] = <<>>
    BY <2>1, CoreListFacts DEF Marked
  <2>. QED
    BY <1>4, <1>7, <2>1, <2>2, <2>3
<1>. QED
  BY <1>6, <1>7

(***************************************************************************)
(* A list that is read as DHCP's has DHCP's mark.                          *)
(***************************************************************************)
LEMMA DhcpIsMarked ==
  ASSUME NEW s \in Seq(Addresses), WasDhcp(s)
  PROVE  \E k \in DOMAIN s : s[k] = DhcpMark
<1>. DEFINE marks == {k \in DOMAIN s : s[k] \in Marks}
            Last(k) == \A l \in marks : l <= k
<1>1. marks # {} /\ s[CHOOSE k \in marks : Last(k)] = DhcpMark
  BY DEF WasDhcp
<1>2. PICK n \in Nat : n = Len(s) /\ DOMAIN s = 1 .. n
  OBVIOUS
<1>3. \E k \in marks : Last(k)
  <2>. DEFINE After == {n - k : k \in marks}
  <2>0. \A k \in marks : k \in 1 .. n /\ n - k \in Nat
    BY <1>2
  <2>1. After \in SUBSET Nat /\ After # {}
    <3>. HIDE DEF marks
    <3>. QED
      BY <1>1, <2>0
  <2>2. PICK t \in After : \A u \in After : t <= u
    <3>. HIDE DEF After
    <3>. QED
      BY <2>1, Least
  <2>3. PICK k \in marks : t = n - k
    BY <2>2
  <2>4. ASSUME NEW l \in marks PROVE l <= k
    <3>1. n - l \in After /\ l \in 1 .. n /\ k \in 1 .. n
      BY <2>0, <2>3
    <3>2. n - k <= n - l
      BY <2>2, <2>3, <3>1
    <3>. QED
      BY <1>2, <3>1, <3>2
  <2>. QED
    BY <2>3, <2>4
<1>4. (CHOOSE k \in marks : Last(k)) \in marks
  <2>. HIDE DEF marks, Last
  <2>. QED
    BY <1>3
<1>5. marks \subseteq DOMAIN s
  OBVIOUS
<1>. HIDE DEF marks, Last
<1>. QED
  BY <1>1, <1>4, <1>5

(***************************************************************************)
(* What is read of an interface with DHCP on which IPv6 leads: the mark,   *)
(* unless nothing is written into it.                                      *)
(***************************************************************************)
LEMMA WhatIsReadInFront ==
  ASSUME TypeOK, NEW i \in Front, Manual[i] = <<>>, written[i] = <<>> \/ WasDhcp(DNS(i))
  PROVE  /\ WasSet(DNS(i)) => WasDhcp(DNS(i))
         /\ ~Marked(i) => written[i] = <<>>
<1>0. i \in Interfaces /\ i \in SixFirst
  BY SystemDnsAssumption DEF Front
<1>1. CASE written[i] = <<>>
  <2>1. PICK x \in Seq(Addresses), g \in Seq(Addresses) : x = Six[i] /\ g = Given(i)
    BY <1>0, FoundListFacts
  <2>2. DNS(i) = x \o g
    BY <1>0, <1>1, <2>1 DEF DNS, Given
  <2>3. /\ \A k \in 1 .. Len(x) : x[k] \notin Marks
        /\ \A k \in 1 .. Len(g) : g[k] \notin Marks
    BY <1>0, <2>1, FoundListFacts, AddressFacts
  <2>4. PICK p \in Seq(Addresses) : p = x \o g
    BY ConcatProperties
  <2>5. /\ Len(p) = Len(x) + Len(g) /\ Len(x) \in Nat /\ Len(g) \in Nat
        /\ \A k \in 1 .. Len(x) : p[k] = x[k]
        /\ \A k \in 1 .. Len(g) : p[Len(x) + k] = g[k]
    BY <2>4
  <2>6. ASSUME NEW k \in 1 .. Len(p) PROVE p[k] \notin Marks
    <3>1. CASE k <= Len(x)
      BY <2>3, <2>5, <3>1
    <3>2. CASE ~(k <= Len(x))
      <4>1. k - Len(x) \in 1 .. Len(g) /\ Len(x) + (k - Len(x)) = k
        BY <2>5, <3>2
      <4>. QED
        BY <4>1, <2>3, <2>5
    <3>. QED
      BY <3>1, <3>2
  <2>7. ~WasSet(p)
    BY <2>6, Markless
  <2>. QED
    BY <1>1, <2>2, <2>4, <2>7
<1>2. CASE WasDhcp(DNS(i))
  <2>1. DNS(i) \in Seq(Addresses)
    <3>1. PICK four \in Seq(Addresses) : four = IF written[i] = <<>> THEN Offered[i] ELSE written[i]
      BY <1>0, SystemDnsAssumption, AddressFacts DEF TypeOK
    <3>2. PICK x \in Seq(Addresses) : x = Six[i]
      BY <1>0, FoundListFacts
    <3>3. x \o four \in Seq(Addresses)
      BY ConcatProperties
    <3>. QED
      BY <1>0, <3>1, <3>2, <3>3 DEF DNS
  <2>2. Marked(i)
    BY <1>2, <2>1, DhcpIsMarked DEF Marked
  <2>. QED
    BY <1>2, <2>2
<1>. QED
  BY <1>1, <1>2

(***************************************************************************)
(* What a core writes into such an interface ends in DHCP's mark, whatever *)
(* it read.                                                                *)
(***************************************************************************)
LEMMA WhatIsWrittenInFront ==
  ASSUME NEW i \in Interfaces, NEW s \in Seq(Addresses), NEW by, by
  PROVE  /\ Four(Pointed(s, by)) # <<>>
         /\ WasDhcp(Six[i] \o Four(Pointed(s, by)))
<1>1. PICK u \in Seq(Addresses), l \in Seq(Addresses), e \in Seq(Addresses), x \in Seq(Addresses) :
          u = Unpointed(s) /\ l = <<Local>> /\ e = <<DhcpMark>> /\ x = Six[i]
  <2>1. Unpointed(s) \in Seq(Addresses) /\ Six[i] \in Seq(Addresses)
    BY ListTypes, FoundListFacts
  <2>2. <<Local>> \in Seq(Addresses) /\ <<DhcpMark>> \in Seq(Addresses)
    BY AddressFacts
  <2>. QED
    BY <2>1, <2>2
<1>2. Pointed(s, by) = (l \o u) \o e
  BY <1>1, Zenon DEF Pointed
<1>3. PICK lu \in Seq(Addresses) : lu = l \o u
  BY ConcatProperties
<1>4. Four(lu \o e) = Four(lu) \o Four(e)
  <2>1. Splits(Addresses, Resolvers6)
    BY WithoutConcat
  <2>. QED
    BY <2>1, Zenon DEF Splits, Four
<1>5. Four(e) = e
  <2>1. {DhcpMark} \in SUBSET Addresses /\ e \in Seq({DhcpMark}) /\ {DhcpMark} \cap Resolvers6 = {}
    BY <1>1, AddressFacts
  <2>. QED
    BY <2>1, WithoutPure DEF Four
<1>6. PICK a \in Seq(Addresses) : a = Four(lu)
  BY ListTypes
<1>7. a \o e # <<>> /\ Four(Pointed(s, by)) = a \o e
  BY <1>1, <1>2, <1>3, <1>4, <1>5, <1>6, EndsInDhcp
<1>8. WasDhcp(x \o (a \o e))
  BY <1>1, <1>6, EndsInDhcp
<1>. QED
  BY <1>1, <1>7, <1>8

-----------------------------------------------------------------------------
(* Goroutines *)

(***************************************************************************)
(* Pieces of work, and short lists of them.                                *)
(***************************************************************************)
LEMMA JobFacts ==
  /\ \A do \in Kinds, i \in Interfaces :
         Job(do, i) \in Jobs /\ Job(do, i).do = do /\ Job(do, i).ifc = i
  /\ \A i \in Interfaces \cup {None} :
         Job("handle", i) \in Jobs /\ Job("handle", i).do = "handle" /\ Job("handle", i).ifc = i
  /\ \A job \in Jobs : job.do \in Kinds => job.ifc \in Interfaces
  /\ \A job \in Jobs : job.ifc \in Interfaces \cup {None}
BY DEF Job, Jobs, Kinds

LEMMA ShortPlans ==
  ASSUME NEW a \in Jobs, NEW b \in Jobs, NEW c \in Jobs
  PROVE  /\ <<>> \in Seq(Jobs)
         /\ <<a>> \in Seq(Jobs) /\ <<a>> # <<>> /\ Head(<<a>>) = a /\ Tail(<<a>>) = <<>>
         /\ <<a, b>> \in Seq(Jobs) /\ <<a, b>> # <<>>
         /\ Head(<<a, b>>) = a /\ Tail(<<a, b>>) = <<b>>
         /\ <<a, b, c>> \in Seq(Jobs) /\ <<a, b, c>> # <<>>
         /\ Head(<<a, b, c>>) = a /\ Tail(<<a, b, c>>) = <<b, c>>
<1>1. /\ <<>> \in Seq(Jobs) /\ <<a>> \in Seq(Jobs) /\ <<a>> # <<>>
      /\ Head(<<a>>) = a /\ Tail(<<a>>) = <<>>
  OBVIOUS
<1>2. /\ <<a, b>> \in Seq(Jobs) /\ <<a, b>> # <<>>
      /\ Head(<<a, b>>) = a /\ Tail(<<a, b>>) = <<b>>
  OBVIOUS
<1>3. /\ <<a, b, c>> \in Seq(Jobs) /\ <<a, b, c>> # <<>>
      /\ Head(<<a, b, c>>) = a /\ Tail(<<a, b, c>>) = <<b, c>>
  OBVIOUS
<1>. QED
  BY <1>1, <1>2, <1>3

(***************************************************************************)
(* A piece of work that a goroutine has before it.                         *)
(***************************************************************************)
LEMMA WorkFacts ==
  ASSUME TypeOK, NEW g \in Tasks, NEW kinds, Works(g, kinds)
  PROVE  /\ task[g] \in Seq(Jobs) /\ task[g] # <<>> /\ Tail(task[g]) \in Seq(Jobs)
         /\ First(g) \in Jobs /\ First(g).do \in kinds /\ Busy(g)
         /\ kinds \subseteq Kinds => First(g).ifc \in Interfaces
<1>1. task[g] \in Seq(Jobs) /\ task[g] # <<>>
  BY DEF TypeOK, Works, Busy
<1>2. Tail(task[g]) \in Seq(Jobs) /\ Head(task[g]) \in Jobs
  BY <1>1
<1>3. First(g) \in Jobs
  BY <1>2 DEF First
<1>. QED
  BY <1>1, <1>2, <1>3, JobFacts DEF Works

(***************************************************************************)
(* A goroutine that is through with a piece of work has forgotten what it  *)
(* read, and no other is touched.                                          *)
(***************************************************************************)
LEMMA DoneFacts ==
  ASSUME TypeOK, NEW g \in Tasks, task[g] # <<>>, Done(g)
  PROVE  /\ task' \in [Tasks -> Seq(Jobs)] /\ task'[g] = Tail(task[g])
         /\ seen' \in [Tasks -> Seq(Addresses) \cup {None}] /\ seen'[g] = None
         /\ dhcp' \in [Tasks -> {"unasked", "unmarked", "dhcp", "manual"}]
         /\ dhcp'[g] = "unasked"
         /\ \A h \in Tasks \ {g} : task'[h] = task[h] /\ seen'[h] = seen[h] /\ dhcp'[h] = dhcp[h]
<1>1. task[g] \in Seq(Jobs) /\ Tail(task[g]) \in Seq(Jobs)
  <2>1. task[g] \in Seq(Jobs)
    BY DEF TypeOK
  <2>. QED
    BY <2>1
<1>2. task' \in [Tasks -> Seq(Jobs)] /\ task'[g] = Tail(task[g])
  BY <1>1 DEF Done, TypeOK
<1>3. seen' \in [Tasks -> Seq(Addresses) \cup {None}] /\ seen'[g] = None
  BY DEF Done, TypeOK
<1>4. /\ dhcp' \in [Tasks -> {"unasked", "unmarked", "dhcp", "manual"}]
      /\ dhcp'[g] = "unasked"
  BY DEF Done, TypeOK
<1>5. \A h \in Tasks \ {g} : task'[h] = task[h] /\ seen'[h] = seen[h] /\ dhcp'[h] = dhcp[h]
  BY DEF Done, TypeOK
<1>. QED
  BY <1>2, <1>3, <1>4, <1>5

(***************************************************************************)
(* The list that is read is a list of addresses.                           *)
(***************************************************************************)
LEMMA DnsType ==
  ASSUME TypeOK, NEW i \in Interfaces
  PROVE  DNS(i) \in Seq(Addresses)
<1>1. PICK four \in Seq(Addresses) : four = IF written[i] = <<>> THEN Offered[i] ELSE written[i]
  BY SystemDnsAssumption, AddressFacts DEF TypeOK
<1>2. PICK x \in Seq(Addresses) : x = Six[i]
  BY FoundListFacts
<1>3. x \o four \in Seq(Addresses) /\ four \o x \in Seq(Addresses)
  BY ConcatProperties
<1>. QED
  BY <1>1, <1>2, <1>3 DEF DNS

(***************************************************************************)
(* A call that writes one interface.                                       *)
(***************************************************************************)
LEMMA WriteFacts ==
  ASSUME TypeOK, NEW i \in Interfaces, NEW servers \in Seq(Addresses), Write(i, servers)
  PROVE  /\ written' \in [Interfaces -> Seq(Addresses)] /\ faults' \in Nat
         /\ \A j \in Interfaces \ {i} : written'[j] = written[j]
         /\ written'[i] = written[i] \/ written'[i] = Four(servers)
         /\ faults' = 0 => faults = 0 /\ written'[i] = Four(servers)
<1>1. written \in [Interfaces -> Seq(Addresses)] /\ faults \in Nat /\ Four(servers) \in Seq(Addresses)
  BY ListTypes DEF TypeOK
<1>2. CASE written' = [written EXCEPT ![i] = Four(servers)] /\ faults' = faults
  BY <1>1, <1>2
<1>3. CASE Fault /\ written' = written
  BY <1>1, <1>3 DEF Fault
<1>. QED
  BY <1>2, <1>3 DEF Write

(***************************************************************************)
(* What a request is about to keep is an interface.                        *)
(***************************************************************************)
LEMMA KeepingFacts ==
  ASSUME TypeOK, NEW c \in Cores
  PROVE  Keeping(c) \subseteq Interfaces
<1>1. ASSUME NEW g \in Tasks, Works(g, {"keep"}) PROVE First(g).ifc \in Interfaces
  BY <1>1, WorkFacts DEF Kinds
<1>. QED
  BY <1>1 DEF Keeping

(***************************************************************************)
(* Every core has its monitor.                                             *)
(***************************************************************************)
LEMMA TaskFacts ==
  /\ \A c \in Cores : Monitor(c) \in Tasks /\ Core(Monitor(c)) = c
  /\ \A g \in Tasks : Core(g) \in Cores
  /\ \A g \in Tasks : \A c \in Cores : g = Monitor(c) => Core(g) = c
BY DEF Tasks, Monitor, Core

(***************************************************************************)
(* A goroutine gets a new plan.                                            *)
(***************************************************************************)
LEMMA PlanGiven ==
  ASSUME TypeOK, NEW g \in Tasks, NEW plan \in Seq(Jobs), task' = [task EXCEPT ![g] = plan]
  PROVE  /\ task' \in [Tasks -> Seq(Jobs)] /\ task'[g] = plan
         /\ \A h \in Tasks \ {g} : task'[h] = task[h]
BY DEF TypeOK

(***************************************************************************)
(* The plan of a callback that begins.                                     *)
(***************************************************************************)
LEMMA HandlePlan ==
  ASSUME TypeOK, NEW c \in Cores, Handle(c)
  PROVE  LET i == First(Monitor(c)).ifc
             do == IF c \in dnsIsSet THEN "set" ELSE "restore"
             rest == Tail(task[Monitor(c)])
         IN  /\ Works(Monitor(c), {"handle"}) /\ rest \in Seq(Jobs)
             /\ i \in Interfaces \cup {None}
             /\ task' \in [Tasks -> Seq(Jobs)]
             /\ \A h \in Tasks \ {Monitor(c)} : task'[h] = task[h]
             /\ i = None => task'[Monitor(c)] = rest
             /\ i # None => /\ <<Job(do, i), Job("last", i)>> \in Seq(Jobs)
                            /\ task'[Monitor(c)] = <<Job(do, i), Job("last", i)>> \o rest
<1>1. PICK m \in Tasks : m = Monitor(c)
  BY TaskFacts
<1>2. PICK i : i = First(m).ifc
  OBVIOUS
<1>3. PICK do \in {"set", "restore"} : do = IF c \in dnsIsSet THEN "set" ELSE "restore"
  OBVIOUS
<1>4. Works(m, {"handle"})
  BY <1>1 DEF Handle
<1>5. PICK rest \in Seq(Jobs) : rest = Tail(task[m])
  BY <1>4, WorkFacts
<1>6. i \in Interfaces \cup {None}
  BY <1>2, <1>4, WorkFacts, JobFacts
<1>7. PICK plan : plan = (IF i = None THEN <<>> ELSE <<Job(do, i), Job("last", i)>>) \o rest
  OBVIOUS
<1>8. task' = [task EXCEPT ![m] = plan]
  BY <1>1, <1>2, <1>3, <1>5, <1>7, Zenon DEF Handle
<1>9. CASE i = None
  <2>1. plan = rest
    BY <1>7, <1>9
  <2>. QED
    BY <1>1, <1>2, <1>4, <1>5, <1>8, <1>9, <2>1, PlanGiven
<1>10. CASE i # None
  <2>1. Job(do, i) \in Jobs /\ Job("last", i) \in Jobs
    BY <1>6, <1>10, JobFacts DEF Kinds
  <2>2. PICK front \in Seq(Jobs) : front = <<Job(do, i), Job("last", i)>>
    BY <2>1, ShortPlans
  <2>3. plan = front \o rest
    BY <1>7, <1>10, <2>2
  <2>4. plan \in Seq(Jobs)
    BY <2>3, ConcatProperties
  <2>. QED
    BY <1>1, <1>2, <1>3, <1>4, <1>5, <1>6, <1>8, <1>10, <2>2, <2>3, <2>4, PlanGiven
<1>. QED
  BY <1>9, <1>10

(***************************************************************************)
(* The plan of a callback that looks at the interface of the last request. *)
(***************************************************************************)
LEMMA HandleLastPlan ==
  ASSUME TypeOK, NEW c \in Cores, HandleLast(c)
  PROVE  LET rest == Tail(task[Monitor(c)])
         IN  /\ Works(Monitor(c), {"last"}) /\ rest \in Seq(Jobs)
             /\ task' \in [Tasks -> Seq(Jobs)]
             /\ \A h \in Tasks \ {Monitor(c)} : task'[h] = task[h]
             /\ lastIfc[c] \in {None, First(Monitor(c)).ifc} => task'[Monitor(c)] = rest
             /\ lastIfc[c] \notin {None, First(Monitor(c)).ifc} =>
                    \E left \in {lastIfc[c]} \cup Keeping(c) :
                        /\ left \in Interfaces /\ <<Job("restore", left)>> \in Seq(Jobs)
                        /\ task'[Monitor(c)] = <<Job("restore", left)>> \o rest
<1>1. PICK m \in Tasks : m = Monitor(c)
  BY TaskFacts
<1>2. Works(m, {"last"})
  BY <1>1 DEF HandleLast
<1>3. PICK rest \in Seq(Jobs) : rest = Tail(task[m])
  BY <1>2, WorkFacts
<1>4. CASE lastIfc[c] \in {None, First(m).ifc}
  <2>1. task' = [task EXCEPT ![m] = rest]
    BY <1>1, <1>3, <1>4 DEF HandleLast
  <2>. QED
    BY <1>1, <1>2, <1>3, <1>4, <2>1, PlanGiven
<1>5. CASE lastIfc[c] \notin {None, First(m).ifc}
  <2>1. PICK left \in {lastIfc[c]} \cup Keeping(c) :
            task' = [task EXCEPT ![m] = <<Job("restore", left)>> \o rest]
    BY <1>1, <1>3, <1>5 DEF HandleLast
  <2>2. left \in Interfaces
    BY <1>5, KeepingFacts DEF TypeOK
  <2>3. PICK front \in Seq(Jobs) : front = <<Job("restore", left)>>
    BY <2>2, JobFacts, ShortPlans DEF Kinds
  <2>4. front \o rest \in Seq(Jobs)
    BY ConcatProperties
  <2>5. PICK plan \in Seq(Jobs) : plan = front \o rest
    BY <2>4
  <2>6. /\ task' \in [Tasks -> Seq(Jobs)] /\ task'[m] = plan
        /\ \A h \in Tasks \ {m} : task'[h] = task[h]
    BY <2>1, <2>3, <2>5, PlanGiven
  <2>. QED
    BY <1>1, <1>2, <1>3, <1>5, <2>1, <2>2, <2>3, <2>5, <2>6
<1>. QED
  BY <1>4, <1>5

(***************************************************************************)
(* The plan of a request.                                                  *)
(***************************************************************************)
RequestJobs(clear) ==
    IF clear THEN <<Job("unflag", default), Job("restore", default)>>
    ELSE <<Job("flag", default), Job("keep", default), Job("set", default)>>

LEMMA SetPlan ==
  ASSUME TypeOK, NEW g \in Tasks, NEW clear \in BOOLEAN, SetSystemDNS(g, clear)
  PROVE  /\ default \in Interfaces /\ task[g] = <<>>
         /\ task' \in [Tasks -> Seq(Jobs)] /\ task'[g] = RequestJobs(clear)
         /\ task'[g] # <<>>
         /\ \A h \in Tasks \ {g} : task'[h] = task[h]
<1>1. default \in Interfaces /\ task[g] = <<>>
  BY DEF SetSystemDNS, TypeOK, Busy
<1>2. RequestJobs(clear) \in Seq(Jobs) /\ RequestJobs(clear) # <<>>
  BY <1>1, JobFacts, ShortPlans DEF RequestJobs, Kinds
<1>3. PICK plan \in Seq(Jobs) : plan = RequestJobs(clear)
  BY <1>2
<1>4. task' = [task EXCEPT ![g] = plan]
  BY <1>3, Zenon DEF SetSystemDNS, RequestJobs
<1>. QED
  BY <1>1, <1>2, <1>3, <1>4, PlanGiven

(***************************************************************************)
(* The plans of the monitors when the route moves.                         *)
(***************************************************************************)
LEMMA MovePlan ==
  ASSUME TypeOK, NEW i \in Interfaces \cup {None}, RouteMoves(i)
  PROVE  /\ Job("handle", i) \in Jobs /\ task' \in [Tasks -> Seq(Jobs)]
         /\ \A g \in Tasks : task'[g] = IF g \in Monitors THEN Append(task[g], Job("handle", i))
                                        ELSE task[g]
<1>1. Job("handle", i) \in Jobs
  BY JobFacts
<1>2. PICK job \in Jobs : job = Job("handle", i)
  BY <1>1
<1>3. task' = [g \in Tasks |-> IF g \in Monitors THEN Append(task[g], job) ELSE task[g]]
  BY <1>2 DEF RouteMoves
<1>4. \A g \in Tasks : task[g] \in Seq(Jobs) /\ Append(task[g], job) \in Seq(Jobs)
  <2>. TAKE g \in Tasks
  <2>1. PICK s \in Seq(Jobs) : s = task[g]
    BY DEF TypeOK
  <2>2. Append(s, job) \in Seq(Jobs)
    BY AppendProperties
  <2>. QED
    BY <2>1, <2>2
<1>. QED
  BY <1>1, <1>2, <1>3, <1>4

(***************************************************************************)
(* The plan of the callback of a core that starts.                         *)
(***************************************************************************)
LEMMA StartPlan ==
  ASSUME TypeOK, NEW c \in Cores, Starts(c)
  PROVE  /\ task' \in [Tasks -> Seq(Jobs)] /\ task'[Monitor(c)] = <<Job("handle", default)>>
         /\ Job("handle", default) \in Jobs
         /\ \A h \in Tasks \ {Monitor(c)} : task'[h] = task[h]
<1>1. PICK m \in Tasks : m = Monitor(c)
  BY TaskFacts
<1>2. Job("handle", default) \in Jobs
  BY JobFacts DEF TypeOK
<1>3. PICK plan \in Seq(Jobs) : plan = <<Job("handle", default)>>
  BY <1>2, ShortPlans
<1>4. task' = [task EXCEPT ![m] = plan]
  BY <1>1, <1>3 DEF Starts
<1>. QED
  BY <1>1, <1>2, <1>3, <1>4, PlanGiven

-----------------------------------------------------------------------------
(* Types *)

(***************************************************************************)
(* Every step keeps the types.                                             *)
(***************************************************************************)
LEMMA StepType ==
  ASSUME TypeOK, ReadInv, [Next]_vars
  PROVE  TypeOK'
<1>1. ASSUME NEW g \in Tasks, ReadDns(g) PROVE TypeOK'
  <2>1. Works(g, {"set", "restore"}) /\ task[g] # <<>>
    BY <1>1 DEF ReadDns, Works, Busy
  <2>2. First(g).ifc \in Interfaces
    BY <2>1, WorkFacts DEF Kinds
  <2>3. CASE Fault /\ Done(g)
    BY <1>1, <2>1, <2>3, DoneFacts DEF ReadDns, TypeOK, Fault
  <2>4. CASE seen' = [seen EXCEPT ![g] = DNS(First(g).ifc)] /\ UNCHANGED <<task, dhcp, faults>>
    <3>1. PICK list \in Seq(Addresses) : list = DNS(First(g).ifc)
      BY <2>2, DnsType
    <3>2. seen' \in [Tasks -> Seq(Addresses) \cup {None}]
      BY <2>4, <3>1 DEF TypeOK
    <3>. QED
      BY <1>1, <2>4, <3>2 DEF ReadDns, TypeOK
  <2>. QED
    BY <1>1, <2>3, <2>4 DEF ReadDns
<1>2. ASSUME NEW g \in Tasks, AskMark(g) \/ AskRegistry(g) PROVE TypeOK'
  <2>1. faults' \in Nat
    BY <1>2 DEF AskMark, AskRegistry, Fault, TypeOK
  <2>2. \E a \in {"unmarked", "dhcp", "manual"} : dhcp' = [dhcp EXCEPT ![g] = a]
    BY <1>2, Zenon DEF AskMark, AskRegistry, Asked
  <2>3. dhcp' \in [Tasks -> {"unasked", "unmarked", "dhcp", "manual"}]
    BY <2>2 DEF TypeOK
  <2>4. misread' \in BOOLEAN
    <3>1. misread \in BOOLEAN
      BY DEF TypeOK
    <3>2. misread' = misread \/ misread' = TRUE \/ \E i : misread' = (misread \/ Marked(i))
      BY <1>2, Zenon DEF AskMark, AskRegistry
    <3>. QED
      BY <3>1, <3>2, Zenon
  <2>. QED
    BY <1>2, <2>1, <2>3, <2>4 DEF AskMark, AskRegistry, TypeOK
<1>3. ASSUME NEW g \in Tasks, Set(g) PROVE TypeOK'
  <2>1. Works(g, {"set"}) /\ task[g] # <<>> /\ Done(g)
    BY <1>3 DEF Set, Works, Busy
  <2>2. seen[g] \in Seq(Addresses)
    BY <1>3 DEF Set, ReadInv, TypeOK
  <2>3. PICK list : list = Pointed(seen[g], dhcp[g] = "dhcp" \/ WasDhcp(seen[g]))
    OBVIOUS
  <2>4. list \in Seq(Addresses) /\ Write(First(g).ifc, list)
    BY <1>3, <2>2, <2>3, ListTypes DEF Set
  <2>5. First(g).ifc \in Interfaces
    BY <2>1, WorkFacts DEF Kinds
  <2>6. written' \in [Interfaces -> Seq(Addresses)] /\ faults' \in Nat
    BY <2>4, <2>5, WriteFacts
  <2>. QED
    BY <1>3, <2>1, <2>6, DoneFacts DEF Set, TypeOK
<1>4. ASSUME NEW g \in Tasks, Restore(g) PROVE TypeOK'
  <2>1. Works(g, {"restore"}) /\ task[g] # <<>> /\ Done(g)
    BY <1>4 DEF Restore, Works, Busy
  <2>2. seen[g] \in Seq(Addresses)
    BY <1>4 DEF Restore, TypeOK
  <2>3. written' \in [Interfaces -> Seq(Addresses)] /\ faults' \in Nat
    <3>1. CASE ~WasSet(seen[g])
      BY <1>4, <3>1 DEF Restore, TypeOK
    <3>2. CASE WasSet(seen[g])
      <4>1. PICK s : s = IF WasDhcp(seen[g]) THEN <<>> ELSE Unpointed(seen[g])
        OBVIOUS
      <4>2. Write(First(g).ifc, s)
        BY <1>4, <3>2, <4>1 DEF Restore
      <4>3. s \in Seq(Addresses)
        BY <2>2, <4>1, ListTypes
      <4>4. First(g).ifc \in Interfaces
        BY <2>1, WorkFacts DEF Kinds
      <4>. QED
        BY <4>2, <4>3, <4>4, WriteFacts
    <3>. QED
      BY <3>1, <3>2
  <2>. QED
    BY <1>4, <2>1, <2>3, DoneFacts DEF Restore, TypeOK
<1>5. ASSUME NEW g \in Tasks, Flag(g) \/ Keep(g) PROVE TypeOK'
  <2>1. Works(g, {"flag", "unflag", "keep"}) /\ task[g] # <<>> /\ Done(g)
    BY <1>5 DEF Flag, Keep, Works, Busy
  <2>2. Core(g) \in running /\ Core(g) \in Cores
    BY <2>1, TaskFacts DEF ReadInv, Works
  <2>3. dnsIsSet' \subseteq running' /\ lastIfc' \in [Cores -> Interfaces \cup {None}]
    <3>1. CASE Flag(g)
      BY <2>2, <3>1 DEF Flag, TypeOK
    <3>2. CASE Keep(g)
      <4>1. First(g).ifc \in Interfaces
        BY <2>1, WorkFacts DEF Kinds
      <4>. QED
        BY <2>2, <3>2, <4>1 DEF Keep, TypeOK
    <3>. QED
      BY <1>5, <3>1, <3>2
  <2>. QED
    BY <1>5, <2>1, <2>3, DoneFacts DEF Flag, Keep, TypeOK
<1>6. ASSUME NEW g \in Tasks, NEW clear \in BOOLEAN, SetSystemDNS(g, clear) PROVE TypeOK'
  <2>1. task' \in [Tasks -> Seq(Jobs)]
    BY <1>6, SetPlan
  <2>2. raced' \in BOOLEAN
    BY <1>6, Zenon DEF SetSystemDNS, TypeOK
  <2>. QED
    BY <1>6, <2>1, <2>2 DEF SetSystemDNS, TypeOK, Step
<1>7. ASSUME NEW i \in Interfaces \cup {None}, RouteMoves(i) PROVE TypeOK'
  <2>1. task' \in [Tasks -> Seq(Jobs)]
    BY <1>7, MovePlan
  <2>2. raced' \in BOOLEAN
    BY <1>7, Zenon DEF RouteMoves, TypeOK
  <2>. QED
    BY <1>7, <2>1, <2>2 DEF RouteMoves, TypeOK, Step
<1>8. ASSUME NEW c \in Cores, Handle(c) PROVE TypeOK'
  <2>1. task' \in [Tasks -> Seq(Jobs)]
    BY <1>8, HandlePlan
  <2>. QED
    BY <1>8, <2>1 DEF Handle, TypeOK
<1>9. ASSUME NEW c \in Cores, HandleLast(c) PROVE TypeOK'
  <2>1. task' \in [Tasks -> Seq(Jobs)]
    BY <1>9, HandleLastPlan
  <2>. QED
    BY <1>9, <2>1 DEF HandleLast, TypeOK
<1>10. ASSUME NEW c \in Cores, Ends(c) PROVE TypeOK'
  <2>1. task' \in [Tasks -> Seq(Jobs)]
    BY <1>10 DEF Ends, TypeOK
  <2>2. /\ seen' \in [Tasks -> Seq(Addresses) \cup {None}]
        /\ dhcp' \in [Tasks -> {"unasked", "unmarked", "dhcp", "manual"}]
    BY <1>10 DEF Ends, TypeOK
  <2>3. raced' \in BOOLEAN
    BY <1>10, Zenon DEF Ends, TypeOK
  <2>4. /\ running' \subseteq Cores /\ dnsIsSet' \subseteq running'
        /\ lastIfc' \in [Cores -> Interfaces \cup {None}]
    BY <1>10 DEF Ends, TypeOK
  <2>. QED
    BY <1>10, <2>1, <2>2, <2>3, <2>4 DEF Ends, TypeOK, Step
<1>11. ASSUME NEW c \in Cores, Starts(c) PROVE TypeOK'
  <2>1. task' \in [Tasks -> Seq(Jobs)]
    BY <1>11, StartPlan
  <2>2. raced' \in BOOLEAN
    BY <1>11, Zenon DEF Starts, TypeOK
  <2>. QED
    BY <1>11, <2>1, <2>2 DEF Starts, TypeOK
<1>12. CASE UNCHANGED vars
  BY <1>12 DEF TypeOK, vars
<1>. QED
  BY <1>1, <1>2, <1>3, <1>4, <1>5, <1>6, <1>7, <1>8, <1>9, <1>10, <1>11, <1>12 DEF Next

-----------------------------------------------------------------------------
(* What goroutines have read, and who is alone *)

(***************************************************************************)
(* ReadInv of one goroutine.                                               *)
(***************************************************************************)
ReadOf(g) ==
    /\ seen[g] # None => Works(g, {"set", "restore"})
    /\ dhcp[g] # "unasked" => seen[g] # None
    /\ Busy(g) => Core(g) \in running

(***************************************************************************)
(* A goroutine that a step does not touch stays as it is, and one that has *)
(* read nothing may get any work.                                          *)
(***************************************************************************)
LEMMA ReadOfOthers ==
  ASSUME ReadInv, NEW h \in Tasks, running \subseteq running'
  PROVE  /\ ReadOf(h)
         /\ task'[h] = task[h] /\ seen'[h] = seen[h] /\ dhcp'[h] = dhcp[h] => ReadOf(h)'
         /\ seen'[h] = None /\ dhcp'[h] = "unasked" /\ Core(h) \in running => ReadOf(h)'
<1>1. ReadOf(h)
  BY DEF ReadInv, ReadOf
<1>2. ASSUME task'[h] = task[h] /\ seen'[h] = seen[h] /\ dhcp'[h] = dhcp[h] PROVE ReadOf(h)'
  BY <1>1, <1>2 DEF ReadOf, Works, Busy, First
<1>3. ASSUME seen'[h] = None /\ dhcp'[h] = "unasked" /\ Core(h) \in running PROVE ReadOf(h)'
  BY <1>3 DEF ReadOf
<1>. QED
  BY <1>1, <1>2, <1>3

(***************************************************************************)
(* A goroutine that is not at work that reads has read nothing.            *)
(***************************************************************************)
LEMMA NothingRead ==
  ASSUME ReadInv, NEW g \in Tasks, ~Works(g, {"set", "restore"})
  PROVE  seen[g] = None /\ dhcp[g] = "unasked"
BY DEF ReadInv

(***************************************************************************)
(* A move of the route does not disturb what a goroutine is at.            *)
(***************************************************************************)
LEMMA MoveKeeps ==
  ASSUME TypeOK, NEW i \in Interfaces \cup {None}, RouteMoves(i), NEW g \in Tasks
  PROVE  /\ task[g] # <<>> => task'[g] # <<>> /\ Head(task'[g]) = Head(task[g])
         /\ task'[g] # <<>> /\ task[g] = <<>> => g \in Monitors /\ Core(g) \in running
<1>1. PICK s \in Seq(Jobs), job \in Jobs : s = task[g] /\ job = Job("handle", i)
  BY MovePlan DEF TypeOK
<1>2. task'[g] = IF g \in Monitors THEN Append(s, job) ELSE s
  BY <1>1, MovePlan
<1>3. Append(s, job) # <<>> /\ (s # <<>> => Head(Append(s, job)) = Head(s))
  BY AppendProperties, HeadTailAppend
<1>4. g \in Monitors => Core(g) \in running
  BY TaskFacts DEF Monitors, TypeOK
<1>. QED
  BY <1>1, <1>2, <1>3, <1>4

(***************************************************************************)
(* ReadInv is kept.                                                        *)
(***************************************************************************)
LEMMA StepRead ==
  ASSUME TypeOK, ReadInv, [Next]_vars
  PROVE  ReadInv'
<1>. SUFFICES \A h \in Tasks : ReadOf(h)'
  BY DEF ReadInv, ReadOf
<1>. DEFINE Goal == \A h \in Tasks : ReadOf(h)'
<1>. SUFFICES Goal
  OBVIOUS
\* A step of one goroutine that forgets what it read.
<1>0. ASSUME NEW g \in Tasks, seen'[g] = None, dhcp'[g] = "unasked", Core(g) \in running',
             running \subseteq running',
             \A h \in Tasks \ {g} : task'[h] = task[h] /\ seen'[h] = seen[h] /\ dhcp'[h] = dhcp[h]
      PROVE  Goal
  <2>1. ReadOf(g)'
    BY <1>0 DEF ReadOf
  <2>. QED
    BY <1>0, <2>1, ReadOfOthers
<1>00. ASSUME NEW g \in Tasks, NEW kinds, Works(g, kinds) PROVE Core(g) \in running /\ task[g] # <<>>
  BY <1>00 DEF ReadInv, Works, Busy
<1>. HIDE DEF Goal
<1>1. ASSUME NEW g \in Tasks, ReadDns(g) PROVE Goal
  <2>1. Works(g, {"set", "restore"}) /\ task[g] # <<>> /\ running' = running
        /\ Core(g) \in running
    BY <1>1, <1>00 DEF ReadDns
  <2>2. CASE Done(g)
    BY <2>1, <2>2, <1>0, DoneFacts
  <2>3. CASE seen' = [seen EXCEPT ![g] = DNS(First(g).ifc)] /\ UNCHANGED <<task, dhcp, faults>>
    <3>1. \A h \in Tasks \ {g} : seen'[h] = seen[h]
      BY <2>3 DEF TypeOK
    <3>2. dhcp[g] = "unasked"
      BY <1>1 DEF ReadDns, ReadInv
    <3>3. ReadOf(g)'
      BY <2>1, <2>3, <3>2 DEF ReadOf, Works, Busy, First
    <3>. QED
      BY <2>1, <2>3, <3>1, <3>3, ReadOfOthers DEF Goal
  <2>. QED
    BY <1>1, <2>2, <2>3 DEF ReadDns
<1>2. ASSUME NEW g \in Tasks, AskMark(g) \/ AskRegistry(g) PROVE Goal
  <2>1. /\ task' = task /\ seen' = seen /\ running' = running
        /\ Works(g, {"set"}) /\ (seen[g] # None \/ dhcp[g] = "unmarked")
        /\ \A h \in Tasks \ {g} : dhcp'[h] = dhcp[h]
    BY <1>2 DEF AskMark, AskRegistry, Asked, TypeOK
  <2>2. seen[g] # None
    BY <2>1 DEF ReadInv
  <2>3. ReadOf(g)'
    BY <2>1, <2>2 DEF ReadOf, ReadInv, Works, Busy, First
  <2>. QED
    BY <2>1, <2>3, ReadOfOthers DEF Goal
<1>3. ASSUME NEW g \in Tasks, Set(g) \/ Restore(g) \/ Flag(g) \/ Keep(g) PROVE Goal
  <2>1. PICK kinds : Works(g, kinds) /\ Done(g) /\ running' = running
    BY <1>3 DEF Set, Restore, Flag, Keep
  <2>2. task[g] # <<>> /\ Core(g) \in running'
    BY <2>1, <1>00
  <2>. QED
    BY <2>1, <2>2, <1>0, DoneFacts
<1>4. ASSUME NEW g \in Tasks, NEW clear \in BOOLEAN, SetSystemDNS(g, clear) PROVE Goal
  <2>1. task[g] = <<>> /\ \A h \in Tasks \ {g} : task'[h] = task[h]
    BY <1>4, SetPlan
  <2>2. seen' = seen /\ dhcp' = dhcp /\ running' = running /\ Core(g) \in running
    BY <1>4 DEF SetSystemDNS
  <2>3. seen[g] = None /\ dhcp[g] = "unasked"
    BY <2>1, NothingRead DEF Works, Busy
  <2>. QED
    BY <2>1, <2>2, <2>3, <1>0
<1>5. ASSUME NEW i \in Interfaces \cup {None}, RouteMoves(i) PROVE Goal
  <2>1. seen' = seen /\ dhcp' = dhcp /\ running' = running
    BY <1>5 DEF RouteMoves
  <2>2. ASSUME NEW h \in Tasks PROVE ReadOf(h)'
    <3>1. ReadOf(h)
      BY <2>1, ReadOfOthers
    <3>2. CASE task[h] = <<>>
      <4>1. seen[h] = None /\ dhcp[h] = "unasked"
        BY <3>2, NothingRead DEF Works, Busy
      <4>2. task'[h] # <<>> => Core(h) \in running
        BY <1>5, <3>2, MoveKeeps
      <4>. QED
        BY <2>1, <4>1, <4>2 DEF ReadOf, Busy
    <3>3. CASE task[h] # <<>>
      <4>1. task'[h] # <<>> /\ Head(task'[h]) = Head(task[h])
        BY <1>5, <3>3, MoveKeeps
      <4>. QED
        BY <2>1, <3>1, <3>3, <4>1 DEF ReadOf, Works, Busy, First
    <3>. QED
      BY <3>2, <3>3
  <2>. QED
    BY <2>2 DEF Goal
<1>6. ASSUME NEW c \in Cores, Handle(c) \/ HandleLast(c) PROVE Goal
  <2>1. PICK m \in Tasks : m = Monitor(c)
    BY TaskFacts
  <2>2. /\ Works(m, {"handle"}) \/ Works(m, {"last"})
        /\ \A h \in Tasks \ {m} : task'[h] = task[h]
    BY <1>6, <2>1, HandlePlan, HandleLastPlan
  <2>3. seen' = seen /\ dhcp' = dhcp /\ running' = running
    BY <1>6 DEF Handle, HandleLast
  <2>4. seen[m] = None /\ dhcp[m] = "unasked"
    BY <2>2, NothingRead DEF Works
  <2>. QED
    BY <2>2, <2>3, <2>4, <1>0, <1>00
<1>7. ASSUME NEW c \in Cores, Ends(c) PROVE Goal
  <2>1. ASSUME NEW h \in Tasks, Core(h) = c PROVE ReadOf(h)'
    <3>1. seen'[h] = None /\ dhcp'[h] = "unasked" /\ task'[h] = <<>>
      BY <1>7, <2>1 DEF Ends
    <3>. QED
      BY <3>1 DEF ReadOf, Busy
  <2>2. ASSUME NEW h \in Tasks, Core(h) # c PROVE ReadOf(h)'
    <3>1. seen'[h] = seen[h] /\ dhcp'[h] = dhcp[h] /\ task'[h] = task[h]
      BY <1>7, <2>2 DEF Ends
    <3>2. Core(h) \in running => Core(h) \in running'
      BY <1>7, <2>2 DEF Ends
    <3>. QED
      BY <3>1, <3>2 DEF ReadOf, ReadInv, Works, Busy, First
  <2>. QED
    BY <2>1, <2>2 DEF Goal
<1>8. ASSUME NEW c \in Cores, Starts(c) PROVE Goal
  <2>1. PICK m \in Tasks : m = Monitor(c) /\ Core(m) = c
    BY TaskFacts
  <2>2. \A h \in Tasks \ {m} : task'[h] = task[h]
    BY <1>8, <2>1, StartPlan
  <2>3. /\ seen' = seen /\ dhcp' = dhcp /\ c \in running' /\ running \subseteq running'
        /\ c \notin running
    BY <1>8 DEF Starts
  <2>4. seen[m] = None /\ dhcp[m] = "unasked"
    <3>1. ~Busy(m)
      BY <2>1, <2>3 DEF ReadInv
    <3>. QED
      BY <3>1, NothingRead DEF Works
  <2>. QED
    BY <2>1, <2>2, <2>3, <2>4, <1>0
<1>9. CASE UNCHANGED vars
  BY <1>9, ReadOfOthers DEF Goal, vars
<1>. QED
  BY <1>1, <1>2, <1>3, <1>4, <1>5, <1>6, <1>7, <1>8, <1>9 DEF Next

(***************************************************************************)
(* While raced is not set, one goroutine of one core at most is at work.   *)
(***************************************************************************)
LEMMA StepAlone ==
  ASSUME TypeOK, ReadInv, AloneInv, [Next]_vars
  PROVE  AloneInv'
<1>1. ASSUME ~raced' => ~raced, \A h \in Tasks : task'[h] # <<>> => task[h] # <<>>,
             running' \subseteq running
      PROVE  AloneInv'
  BY <1>1 DEF AloneInv, Busy
<1>2. ASSUME ~raced' => /\ \E g \in Tasks : \A h \in Tasks : task'[h] # <<>> => h = g
                        /\ \A c, d \in running' : c = d
      PROVE  AloneInv'
  BY <1>2 DEF AloneInv, Busy
<1>3. ASSUME NEW g \in Tasks, task[g] # <<>>, raced' = raced, running' = running,
             task' = task \/ \A h \in Tasks \ {g} : task'[h] = task[h]
      PROVE  AloneInv'
  BY <1>1, <1>3
<1>4. ASSUME NEW g \in Tasks, \/ ReadDns(g) \/ AskMark(g) \/ AskRegistry(g)
                              \/ Set(g) \/ Restore(g) \/ Flag(g) \/ Keep(g)
      PROVE  AloneInv'
  <2>1. task[g] # <<>> /\ raced' = raced /\ running' = running /\ (task' = task \/ Done(g))
    BY <1>4 DEF ReadDns, AskMark, AskRegistry, Set, Restore, Flag, Keep, Works, Busy
  <2>. QED
    BY <1>3, <2>1, DoneFacts
<1>5. ASSUME NEW g \in Tasks, NEW clear \in BOOLEAN, SetSystemDNS(g, clear) PROVE AloneInv'
  <2>1. \A h \in Tasks \ {g} : task'[h] = task[h]
    BY <1>5, SetPlan
  <2>2. raced' = (raced \/ \E other \in Tasks : Busy(other)) /\ running' = running
    BY <1>5 DEF SetSystemDNS
  <2>3. ~raced' => ~raced /\ \A h \in Tasks : task[h] = <<>>
    BY <2>2, Zenon DEF Busy
  <2>. QED
    BY <1>2, <2>1, <2>2, <2>3 DEF AloneInv
<1>6. ASSUME NEW i \in Interfaces \cup {None}, RouteMoves(i) PROVE AloneInv'
  <2>1. raced' = (raced \/ \E g \in Tasks \ Monitors : Busy(g)) /\ running' = running
    BY <1>6 DEF RouteMoves
  <2>2. ~raced' => ~raced /\ \A h \in Tasks : task[h] # <<>> => h \in Monitors
    BY <2>1, Zenon DEF Busy
  <2>3. \A h \in Tasks : task'[h] # <<>> /\ task[h] = <<>> => h \in Monitors
    BY <1>6, MoveKeeps
  <2>4. ~raced => \A g, h \in Monitors : g = h
    BY DEF AloneInv, Monitors
  <2>. QED
    BY <2>1, <2>2, <2>3, <2>4 DEF AloneInv, Busy
<1>7. ASSUME NEW c \in Cores, Handle(c) \/ HandleLast(c) PROVE AloneInv'
  <2>1. PICK m \in Tasks : m = Monitor(c)
    BY TaskFacts
  <2>2. /\ Works(m, {"handle"}) \/ Works(m, {"last"})
        /\ \A h \in Tasks \ {m} : task'[h] = task[h]
    BY <1>7, <2>1, HandlePlan, HandleLastPlan
  <2>3. raced' = raced /\ running' = running /\ task[m] # <<>>
    BY <1>7, <2>2 DEF Handle, HandleLast, Works, Busy
  <2>. QED
    BY <1>3, <2>2, <2>3
<1>8. ASSUME NEW c \in Cores, Ends(c) PROVE AloneInv'
  <2>1. raced' = (raced /\ running' # {}) /\ running' \subseteq running
    BY <1>8 DEF Ends
  <2>2. \A h \in Tasks : task'[h] # <<>> => task[h] # <<>>
    BY <1>8 DEF Ends
  <2>3. CASE running' = {}
    <3>1. \A h \in Tasks : task'[h] = <<>>
      BY <2>3, StepRead DEF ReadInv, Busy
    <3>. QED
      BY <2>3, <3>1 DEF AloneInv, Busy
  <2>4. CASE running' # {}
    <3>1. ~raced' => ~raced
      BY <2>1, <2>4, Zenon
    <3>. QED
      BY <1>1, <2>1, <2>2, <3>1
  <2>. QED
    BY <2>3, <2>4
<1>9. ASSUME NEW c \in Cores, Starts(c) PROVE AloneInv'
  <2>1. PICK m \in Tasks : m = Monitor(c)
    BY TaskFacts
  <2>2. \A h \in Tasks \ {m} : task'[h] = task[h]
    BY <1>9, <2>1, StartPlan
  <2>3. raced' = (raced \/ running # {}) /\ running' = running \cup {c}
    BY <1>9 DEF Starts
  <2>4. ~raced' => running = {}
    BY <2>3, Zenon
  <2>5. running = {} => \A h \in Tasks : task[h] = <<>>
    BY DEF ReadInv, Busy
  <2>. QED
    BY <1>2, <2>2, <2>3, <2>4, <2>5
<1>10. CASE UNCHANGED vars
  BY <1>1, <1>10 DEF vars
<1>. QED
  BY <1>4, <1>5, <1>6, <1>7, <1>8, <1>9, <1>10 DEF Next

-----------------------------------------------------------------------------
(* The resolvers of the owner *)

(***************************************************************************)
(* The configuration of one interface, as NothingOfTheOwnerIsLost says it. *)
(***************************************************************************)
Owned(i) ==
    /\ i \notin Front => AsFound(i) \/ PointsAt(i)
    /\ i \in Front /\ Manual[i] = <<>> => written[i] = <<>> \/ WasDhcp(DNS(i))

LEMMA OwnedIs ==
  /\ NothingOfTheOwnerIsLost <=> (~misread => \A i \in Interfaces : Owned(i))
  /\ NothingOfTheOwnerIsLost' <=> (~misread' => \A i \in Interfaces : Owned(i)')
BY DEF NothingOfTheOwnerIsLost, Owned

(***************************************************************************)
(* An interface that is not written keeps its configuration.               *)
(***************************************************************************)
LEMMA OwnedKept ==
  ASSUME NEW i \in Interfaces, Owned(i), written'[i] = written[i]
  PROVE  Owned(i)'
<1>1. DNS(i)' = DNS(i)
  BY DEF DNS
<1>. QED
  BY <1>1 DEF Owned, AsFound, PointsAt

(***************************************************************************)
(* setSystemDNS, when isIfcDNSDhcp was right, writes the list of the core. *)
(***************************************************************************)
LEMMA SetEffect ==
  ASSUME TypeOK, ReadInv, SeenInv, ~misread', NEW g \in Tasks, Set(g),
         NEW i \in Interfaces, i = First(g).ifc
  PROVE  /\ \A j \in Interfaces \ {i} : written'[j] = written[j]
         /\ Owned(i) => Owned(i)'
         /\ i \notin Front /\ faults' = 0 => PointsAt(i)'
<1>1. i = First(g).ifc
  OBVIOUS
<1>2. seen[g] # None /\ seen[g] \in Seq(Addresses) /\ misread' = misread
  BY DEF Set, ReadInv, TypeOK
<1>3. PICK by : by = (dhcp[g] = "dhcp")
  OBVIOUS
<1>4. PICK list : list = Pointed(seen[g], by \/ WasDhcp(seen[g]))
  OBVIOUS
<1>5. list \in Seq(Addresses)
  BY <1>2, <1>4, ListTypes
<1>6. Write(i, list)
  BY <1>1, <1>3, <1>4 DEF Set
<1>7. /\ \A j \in Interfaces \ {i} : written'[j] = written[j]
      /\ written'[i] = written[i] \/ written'[i] = Four(list)
      /\ faults' = 0 => written'[i] = Four(list)
  BY <1>5, <1>6, WriteFacts
<1>8. SeenOf(g) /\ dhcp[g] \in {"dhcp", "manual"}
  BY <1>2 DEF SeenInv, Set
<1>9. ASSUME i \notin Front PROVE Four(list) = Pointed(Given(i), Manual[i] = <<>>)
  <2>1. seen[g] \in {FoundList(i), CoreList(i)}
    BY <1>1, <1>2, <1>8, <1>9 DEF SeenOf
  <2>2. by <=> Manual[i] = <<>>
    BY <1>1, <1>3, <1>8, <1>9 DEF SeenOf
  <2>. QED
    BY <1>4, <2>1, <2>2, WhatIsWritten
<1>10. ASSUME i \in Front, Manual[i] = <<>>, written'[i] = Four(list)
       PROVE  WasDhcp(DNS(i)')
  <2>1. by
    BY <1>1, <1>3, <1>8, <1>10 DEF SeenOf
  <2>2. PICK either : either = (by \/ WasDhcp(seen[g]))
    OBVIOUS
  <2>3. either
    BY <2>1, <2>2
  <2>4. Four(list) # <<>> /\ WasDhcp(Six[i] \o Four(list))
    BY <1>2, <1>4, <2>2, <2>3, WhatIsWrittenInFront
  <2>5. DNS(i)' = Six[i] \o Four(list)
    BY <1>10, <2>4 DEF DNS, Front
  <2>. QED
    BY <2>4, <2>5
<1>11. Owned(i) => Owned(i)'
  <2>1. CASE written'[i] = written[i]
    BY <2>1, OwnedKept
  <2>2. CASE written'[i] = Four(list)
    BY <1>9, <1>10, <2>2 DEF Owned, PointsAt
  <2>. QED
    BY <1>7, <2>1, <2>2
<1>12. i \notin Front /\ faults' = 0 => PointsAt(i)'
  BY <1>7, <1>9 DEF PointsAt
<1>. QED
  BY <1>1, <1>7, <1>11, <1>12

(***************************************************************************)
(* restoreSystemDNS writes what the owner wrote, or leaves an interface on *)
(* which it found no mark.                                                 *)
(***************************************************************************)
LEMMA RestoreEffect ==
  ASSUME TypeOK, SeenInv, ~misread', NEW g \in Tasks, Restore(g),
         NEW i \in Interfaces, i = First(g).ifc
  PROVE  /\ \A j \in Interfaces \ {i} : written'[j] = written[j]
         /\ Owned(i) => Owned(i)'
         /\ i \notin Front /\ faults' = 0 =>
                AsFound(i)' \/ (written'[i] = written[i] /\ seen[g] = FoundList(i))
<1>1. seen[g] # None /\ seen[g] \in Seq(Addresses) /\ misread' = misread
  BY DEF Restore, TypeOK
<1>2. SeenOf(g)
  BY <1>1 DEF SeenInv
<1>3. i \notin Front => seen[g] \in {FoundList(i), CoreList(i)}
  BY <1>1, <1>2 DEF SeenOf
<1>4. PICK by : by <=> Manual[i] = <<>>
  OBVIOUS
<1>5. CASE ~WasSet(seen[g])
  <2>1. written' = written
    BY <1>5 DEF Restore
  <2>2. i \notin Front => seen[g] = FoundList(i)
    BY <1>3, <1>5, CoreListFacts
  <2>. QED
    BY <2>1, <2>2, OwnedKept
<1>6. CASE WasSet(seen[g])
  <2>1. PICK list : list = IF WasDhcp(seen[g]) THEN <<>> ELSE Unpointed(seen[g])
    OBVIOUS
  <2>2. Write(i, list)
    BY <1>6, <2>1 DEF Restore
  <2>3. list \in Seq(Addresses)
    BY <1>1, <2>1, ListTypes
  <2>4. /\ \A j \in Interfaces \ {i} : written'[j] = written[j]
        /\ written'[i] = written[i] \/ written'[i] = Four(list)
        /\ faults' = 0 => written'[i] = Four(list)
    BY <2>2, <2>3, WriteFacts
  <2>5. i \notin Front => Four(list) = Manual[i]
    BY <1>3, <1>4, <1>6, <2>1, WhatIsWritten, Zenon
  <2>6. i \in Front /\ Manual[i] = <<>> => Four(list) = <<>>
    <3>1. i \in Front /\ Manual[i] = <<>> => list = <<>>
      BY <1>1, <1>2, <1>6, <2>1 DEF SeenOf
    <3>2. Four(<<>>) = <<>>
      <4>1. <<>> \in Seq(Addresses) /\ \A k \in 1 .. Len(<<>>) : FALSE
        OBVIOUS
      <4>. QED
        BY <4>1, WithoutFew DEF Four
    <3>. QED
      BY <3>1, <3>2
  <2>7. Owned(i) => Owned(i)'
    <3>1. CASE written'[i] = written[i]
      BY <3>1, OwnedKept
    <3>2. CASE written'[i] = Four(list)
      BY <2>5, <2>6, <3>2 DEF Owned, AsFound
    <3>. QED
      BY <2>4, <3>1, <3>2
  <2>. QED
    BY <2>4, <2>5, <2>7 DEF AsFound
<1>. QED
  BY <1>5, <1>6

(***************************************************************************)
(* An interface keeps one of its two configurations, and a goroutine has   *)
(* read nothing else, in whatever order goroutines read and write.         *)
(***************************************************************************)
LEMMA StepOwned ==
  ASSUME TypeOK, ReadInv, NothingOfTheOwnerIsLost, SeenInv, [Next]_vars
  PROVE  NothingOfTheOwnerIsLost' /\ SeenInv'
<1>. DEFINE Owns == \A i \in Interfaces : Owned(i)'
            Seen == \A h \in Tasks : SeenOf(h)'
<1>. SUFFICES ASSUME ~misread' PROVE Owns /\ Seen
  BY OwnedIs DEF SeenInv
<1>1. ASSUME ~misread
      PROVE  (\A i \in Interfaces : Owned(i)) /\ \A h \in Tasks : SeenOf(h)
  BY <1>1, OwnedIs DEF SeenInv
<1>2. ASSUME written' = written, ~misread PROVE Owns
  BY <1>1, <1>2, OwnedKept
<1>3. ASSUME ~misread, NEW h \in Tasks, seen'[h] = seen[h], dhcp'[h] = dhcp[h],
             \/ task'[h] = task[h]
             \/ seen[h] = None /\ dhcp[h] = "unasked"
             \/ Head(task'[h]) = Head(task[h])
      PROVE  SeenOf(h)'
  <2>1. SeenOf(h)
    BY <1>1, <1>3
  <2>2. First(h)' = First(h) \/ (seen[h] = None /\ dhcp[h] = "unasked")
    BY <1>3 DEF First
  <2>. QED
    BY <1>3, <2>1, <2>2 DEF SeenOf
<1>4. ASSUME NEW h \in Tasks, seen'[h] = None, dhcp'[h] = "unasked" PROVE SeenOf(h)'
  BY <1>4 DEF SeenOf
<1>5. ASSUME ~misread, NEW g \in Tasks, task[g] # <<>>, Done(g) PROVE Seen
  <2>1. /\ seen'[g] = None /\ dhcp'[g] = "unasked"
        /\ \A h \in Tasks \ {g} : task'[h] = task[h] /\ seen'[h] = seen[h] /\ dhcp'[h] = dhcp[h]
    BY <1>5, DoneFacts
  <2>2. ASSUME NEW h \in Tasks PROVE SeenOf(h)'
    BY <1>3, <1>4, <1>5, <2>1
  <2>. QED
    BY <2>2
<1>. HIDE DEF Owns, Seen
<1>6. ASSUME NEW g \in Tasks, ReadDns(g) PROVE Owns /\ Seen
  <2>1. PICK i \in Interfaces : i = First(g).ifc
    BY <1>6, WorkFacts DEF ReadDns, Kinds
  <2>2. ~misread /\ written' = written /\ task[g] # <<>> /\ seen[g] = None /\ dhcp[g] = "unasked"
    BY <1>6 DEF ReadDns, ReadInv, Works, Busy
  <2>3. CASE Done(g)
    BY <1>2, <1>5, <2>2, <2>3
  <2>4. CASE seen' = [seen EXCEPT ![g] = DNS(i)] /\ UNCHANGED <<task, dhcp, faults>>
    <3>1. seen'[g] = DNS(i) /\ \A h \in Tasks \ {g} : seen'[h] = seen[h]
      BY <2>4 DEF TypeOK
    <3>2. Owned(i)
      BY <1>1, <2>2
    <3>3. i \notin Front => DNS(i) \in {FoundList(i), CoreList(i)}
      BY <3>2, WhatIsRead DEF Owned
    <3>4. i \in Front /\ Manual[i] = <<>> /\ WasSet(DNS(i)) => WasDhcp(DNS(i))
      BY <3>2, WhatIsReadInFront DEF Owned
    <3>5. First(g)' = First(g) /\ dhcp'[g] = "unasked"
      BY <2>2, <2>4 DEF First
    <3>6. SeenOf(g)'
      BY <2>1, <3>1, <3>3, <3>4, <3>5 DEF SeenOf
    <3>7. ASSUME NEW h \in Tasks PROVE SeenOf(h)'
      BY <1>3, <2>2, <2>4, <3>1, <3>6
    <3>. QED
      BY <1>2, <2>2, <3>7 DEF Seen
  <2>. QED
    BY <1>6, <2>1, <2>3, <2>4 DEF ReadDns
<1>7. ASSUME NEW g \in Tasks, AskMark(g) \/ AskRegistry(g) PROVE Owns /\ Seen
  <2>1. PICK i \in Interfaces : i = First(g).ifc
    BY <1>7, WorkFacts DEF AskMark, AskRegistry, Kinds
  <2>2. /\ written' = written /\ task' = task /\ seen' = seen
        /\ \A h \in Tasks \ {g} : dhcp'[h] = dhcp[h]
    BY <1>7 DEF AskMark, AskRegistry, Asked, TypeOK
  <2>3. ~misread
    BY <1>7, Zenon DEF AskMark, AskRegistry
  <2>4. Owned(i) /\ SeenOf(g)
    BY <1>1, <2>3
  <2>5. /\ dhcp'[g] = "manual" => ~Marked(i) /\ written[i] # <<>>
        /\ dhcp'[g] = "dhcp" => Marked(i) \/ written[i] = <<>>
    <3>1. CASE AskMark(g)
      <4>1. Asked(g, IF Marked(i) THEN "dhcp" ELSE "unmarked")
        BY <2>1, <3>1, Zenon DEF AskMark
      <4>. QED
        BY <4>1 DEF Asked, TypeOK
    <3>2. CASE AskRegistry(g)
      <4>1. /\ Asked(g, IF written[i] = <<>> THEN "dhcp" ELSE "manual")
            /\ misread' = (misread \/ Marked(i))
        BY <2>1, <3>2, Zenon DEF AskRegistry
      <4>2. ~Marked(i)
        BY <4>1, Zenon
      <4>. QED
        BY <4>1, <4>2 DEF Asked, TypeOK
    <3>. QED
      BY <1>7, <3>1, <3>2
  <2>6. dhcp'[g] = "manual" => Manual[i] # <<>>
    <3>1. CASE i \notin Front
      BY <2>4, <2>5, <3>1, WhatIsRead DEF Owned
    <3>2. CASE i \in Front
      BY <2>4, <2>5, <3>2, WhatIsReadInFront DEF Owned
    <3>. QED
      BY <3>1, <3>2
  <2>7. dhcp'[g] = "dhcp" /\ i \notin Front => Manual[i] = <<>>
    BY <2>4, <2>5, WhatIsRead DEF Owned
  <2>8. First(g)' = First(g)
    BY <2>2 DEF First
  <2>9. SeenOf(g)'
    BY <2>1, <2>2, <2>4, <2>6, <2>7, <2>8 DEF SeenOf
  <2>10. ASSUME NEW h \in Tasks PROVE SeenOf(h)'
    BY <1>3, <2>2, <2>3, <2>9
  <2>. QED
    BY <1>2, <2>2, <2>3, <2>10 DEF Seen
<1>8. ASSUME NEW g \in Tasks, Set(g) \/ Restore(g) PROVE Owns /\ Seen
  <2>1. PICK i \in Interfaces : i = First(g).ifc
    BY <1>8, WorkFacts DEF Set, Restore, Kinds
  <2>2. (\A j \in Interfaces \ {i} : written'[j] = written[j]) /\ (Owned(i) => Owned(i)')
    BY <1>8, <2>1, SetEffect, RestoreEffect
  <2>3. ~misread /\ task[g] # <<>> /\ Done(g)
    BY <1>8 DEF Set, Restore, Works, Busy
  <2>4. ASSUME NEW j \in Interfaces PROVE Owned(j)'
    BY <1>1, <2>2, <2>3, OwnedKept
  <2>. QED
    BY <1>5, <2>3, <2>4 DEF Owns
<1>9. ASSUME NEW g \in Tasks, Flag(g) \/ Keep(g) PROVE Owns /\ Seen
  <2>1. ~misread /\ task[g] # <<>> /\ Done(g) /\ written' = written
    BY <1>9 DEF Flag, Keep, Works, Busy
  <2>. QED
    BY <1>2, <1>5, <2>1
<1>10. ASSUME NEW g \in Tasks, NEW clear \in BOOLEAN, SetSystemDNS(g, clear) PROVE Owns /\ Seen
  <2>1. task[g] = <<>> /\ \A h \in Tasks \ {g} : task'[h] = task[h]
    BY <1>10, SetPlan
  <2>2. seen' = seen /\ dhcp' = dhcp /\ written' = written /\ ~misread
    BY <1>10 DEF SetSystemDNS
  <2>3. seen[g] = None /\ dhcp[g] = "unasked"
    BY <2>1, NothingRead DEF Works, Busy
  <2>4. ASSUME NEW h \in Tasks PROVE SeenOf(h)'
    BY <1>3, <2>1, <2>2, <2>3
  <2>. QED
    BY <1>2, <2>2, <2>4 DEF Seen
<1>11. ASSUME NEW i \in Interfaces \cup {None}, RouteMoves(i) PROVE Owns /\ Seen
  <2>1. seen' = seen /\ dhcp' = dhcp /\ written' = written /\ ~misread
    BY <1>11 DEF RouteMoves
  <2>2. ASSUME NEW h \in Tasks PROVE SeenOf(h)'
    <3>1. CASE task[h] = <<>>
      <4>1. seen[h] = None /\ dhcp[h] = "unasked"
        BY <3>1, NothingRead DEF Works, Busy
      <4>. QED
        BY <1>3, <2>1, <4>1
    <3>2. CASE task[h] # <<>>
      <4>1. Head(task'[h]) = Head(task[h])
        BY <1>11, <3>2, MoveKeeps
      <4>. QED
        BY <1>3, <2>1, <4>1
    <3>. QED
      BY <3>1, <3>2
  <2>. QED
    BY <1>2, <2>1, <2>2 DEF Seen
<1>12. ASSUME NEW c \in Cores, Handle(c) \/ HandleLast(c) PROVE Owns /\ Seen
  <2>1. PICK m \in Tasks : m = Monitor(c)
    BY TaskFacts
  <2>2. /\ Works(m, {"handle"}) \/ Works(m, {"last"})
        /\ \A h \in Tasks \ {m} : task'[h] = task[h]
    BY <1>12, <2>1, HandlePlan, HandleLastPlan
  <2>3. seen' = seen /\ dhcp' = dhcp /\ written' = written /\ ~misread
    <3>1. CASE Handle(c)
      BY <3>1 DEF Handle
    <3>2. CASE HandleLast(c)
      BY <3>2 DEF HandleLast
    <3>. QED
      BY <1>12, <3>1, <3>2
  <2>4. seen[m] = None /\ dhcp[m] = "unasked"
    BY <2>2, NothingRead DEF Works
  <2>5. ASSUME NEW h \in Tasks PROVE SeenOf(h)'
    BY <1>3, <2>2, <2>3, <2>4
  <2>. QED
    BY <1>2, <2>3, <2>5 DEF Seen
<1>13. ASSUME NEW c \in Cores, Ends(c) PROVE Owns /\ Seen
  <2>1. written' = written /\ ~misread
    BY <1>13 DEF Ends
  <2>2. ASSUME NEW h \in Tasks PROVE SeenOf(h)'
    <3>1. CASE Core(h) = c
      BY <1>4, <1>13, <3>1 DEF Ends
    <3>2. CASE Core(h) # c
      BY <1>3, <1>13, <2>1, <3>2 DEF Ends
    <3>. QED
      BY <3>1, <3>2
  <2>. QED
    BY <1>2, <2>1, <2>2 DEF Seen
<1>14. ASSUME NEW c \in Cores, Starts(c) PROVE Owns /\ Seen
  <2>1. PICK m \in Tasks : m = Monitor(c) /\ Core(m) = c
    BY TaskFacts
  <2>2. \A h \in Tasks \ {m} : task'[h] = task[h]
    BY <1>14, <2>1, StartPlan
  <2>3. seen' = seen /\ dhcp' = dhcp /\ written' = written /\ ~misread /\ c \notin running
    BY <1>14 DEF Starts
  <2>4. seen[m] = None /\ dhcp[m] = "unasked"
    <3>1. ~Busy(m)
      BY <2>1, <2>3 DEF ReadInv
    <3>. QED
      BY <3>1, NothingRead DEF Works
  <2>5. ASSUME NEW h \in Tasks PROVE SeenOf(h)'
    BY <1>3, <2>2, <2>3, <2>4
  <2>. QED
    BY <1>2, <2>3, <2>5 DEF Seen
<1>15. CASE UNCHANGED vars
  <2>1. ASSUME NEW h \in Tasks PROVE SeenOf(h)'
    BY <1>3, <1>15 DEF vars
  <2>. QED
    BY <1>2, <1>15, <2>1 DEF vars, Seen
<1>. QED
  BY <1>6, <1>7, <1>8, <1>9, <1>10, <1>11, <1>12, <1>13, <1>14, <1>15 DEF Next

-----------------------------------------------------------------------------
(* Undisturbed work *)

(***************************************************************************)
(* The last piece of work of a plan.                                       *)
(***************************************************************************)
LastIs(plan, job) == plan # <<>> /\ plan[Len(plan)] = job

LEMMA LastFacts ==
  ASSUME NEW plan \in Seq(Jobs), NEW job \in Jobs
  PROVE  /\ LastIs(Append(plan, job), job)
         /\ LastIs(plan, job) => \/ Tail(plan) # <<>> /\ LastIs(Tail(plan), job)
                                 \/ Tail(plan) = <<>> /\ Head(plan) = job
<1>1. LastIs(Append(plan, job), job)
  <2>1. Append(plan, job) # <<>> /\ Append(plan, job)[Len(Append(plan, job))] = job
    BY AppendProperties
  <2>. QED
    BY <2>1 DEF LastIs
<1>2. ASSUME LastIs(plan, job)
      PROVE  \/ Tail(plan) # <<>> /\ LastIs(Tail(plan), job)
             \/ Tail(plan) = <<>> /\ Head(plan) = job
  <2>1. plan # <<>> /\ plan[Len(plan)] = job
    BY <1>2 DEF LastIs
  <2>0. Tail(plan) \in Seq(Jobs)
    BY <2>1, HeadTailProperties
  <2>2. PICK t \in Seq(Jobs) : t = Tail(plan)
    BY <2>0
  <2>3. /\ Len(t) = Len(plan) - 1 /\ Len(plan) \in Nat \ {0} /\ Head(plan) = plan[1]
        /\ \A k \in 1 .. Len(t) : t[k] = plan[k + 1]
    BY <2>1, <2>2
  <2>4. CASE t = <<>>
    <3>1. Len(plan) = 1
      BY <2>3, <2>4
    <3>. QED
      BY <2>1, <2>2, <2>3, <2>4, <3>1
  <2>5. CASE t # <<>>
    <3>1. Len(t) \in 1 .. Len(t) /\ Len(t) + 1 = Len(plan)
      BY <2>3, <2>5
    <3>2. t[Len(t)] = plan[Len(plan)]
      BY <2>3, <3>1
    <3>. QED
      BY <2>1, <2>2, <2>5, <3>2 DEF LastIs
  <2>. QED
    BY <2>4, <2>5
<1>. QED
  BY <1>1, <1>2

LEMMA LastOfTwo ==
  ASSUME NEW a \in Seq(Jobs), NEW b \in Seq(Jobs), NEW job \in Jobs, LastIs(b, job)
  PROVE  LastIs(a \o b, job)
<1>1. b # <<>> /\ b[Len(b)] = job
  BY DEF LastIs
<1>2. PICK p : p = a \o b
  OBVIOUS
<1>3. /\ p \in Seq(Jobs) /\ Len(p) = Len(a) + Len(b) /\ Len(a) \in Nat /\ Len(b) \in Nat \ {0}
      /\ \A k \in 1 .. Len(b) : p[Len(a) + k] = b[k]
  BY <1>1, <1>2
<1>4. Len(b) \in 1 .. Len(b) /\ p # <<>>
  BY <1>3
<1>5. p[Len(p)] = b[Len(b)]
  BY <1>3, <1>4
<1>. QED
  BY <1>1, <1>2, <1>4, <1>5 DEF LastIs

LEMMA PendingIs ==
  \A plan : /\ Pending(plan) <=> LastIs(plan, Job("handle", default))
            /\ Pending(plan)' <=> LastIs(plan', Job("handle", default'))
BY DEF Pending, LastIs

(***************************************************************************)
(* What an undisturbed request does next, and what is left then.           *)
(***************************************************************************)
LEMMA RequestStage ==
  ASSUME TypeOK, NEW g \in Tasks, RequestPlan(g)
  PROVE  LET c == Core(g)
             do == First(g).do
             rest == Tail(task[g])
         IN  /\ default \in Interfaces /\ First(g).ifc = default
             /\ \/ do = "flag" /\ rest = <<Job("keep", default), Job("set", default)>>
                \/ do = "keep" /\ rest = <<Job("set", default)>> /\ c \in dnsIsSet
                \/ do = "set" /\ rest = <<>> /\ c \in dnsIsSet /\ lastIfc[c] = default
                \/ do = "unflag" /\ rest = <<Job("restore", default)>> /\ LeftAlone(c)
                \/ do = "restore" /\ rest = <<>> /\ c \notin dnsIsSet /\ LeftAlone(c)
<1>1. default \in Interfaces
  BY DEF TypeOK, RequestPlan
<1>2. PICK job \in [Kinds -> Jobs] :
          \A do \in Kinds : job[do] = Job(do, default) /\ job[do].do = do /\ job[do].ifc = default
  <2>. DEFINE job == [do \in Kinds |-> Job(do, default)]
  <2>1. job \in [Kinds -> Jobs]
    BY <1>1, JobFacts
  <2>2. \A do \in Kinds : job[do] = Job(do, default) /\ job[do].do = do /\ job[do].ifc = default
    BY <1>1, JobFacts
  <2>. QED
    BY <2>1, <2>2
<1>3. ASSUME NEW do \in Kinds, task[g] = <<job[do]>>
      PROVE  First(g).ifc = default /\ First(g).do = do /\ Tail(task[g]) = <<>>
  BY <1>2, <1>3, ShortPlans DEF First
<1>4. ASSUME NEW do \in Kinds, NEW e \in Kinds, task[g] = <<job[do], job[e]>>
      PROVE  First(g).ifc = default /\ First(g).do = do /\ Tail(task[g]) = <<job[e]>>
  BY <1>2, <1>4, ShortPlans DEF First
<1>5. ASSUME NEW do \in Kinds, NEW e \in Kinds, NEW f \in Kinds,
             task[g] = <<job[do], job[e], job[f]>>
      PROVE  First(g).ifc = default /\ First(g).do = do /\ Tail(task[g]) = <<job[e], job[f]>>
  BY <1>2, <1>5, ShortPlans DEF First
<1>6. {"flag", "keep", "set", "unflag", "restore"} \subseteq Kinds
  BY DEF Kinds
<1>7. CASE task[g] = <<Job("flag", default), Job("keep", default), Job("set", default)>>
  <2>1. task[g] = <<job["flag"], job["keep"], job["set"]>>
    BY <1>2, <1>6, <1>7
  <2>. QED
    BY <1>1, <1>2, <1>5, <1>6, <2>1
<1>8. CASE task[g] = <<Job("keep", default), Job("set", default)>> /\ Core(g) \in dnsIsSet
  <2>1. task[g] = <<job["keep"], job["set"]>>
    BY <1>2, <1>6, <1>8
  <2>. QED
    BY <1>1, <1>2, <1>4, <1>6, <1>8, <2>1
<1>9. CASE /\ task[g] = <<Job("set", default)>>
           /\ Core(g) \in dnsIsSet /\ lastIfc[Core(g)] = default
  <2>1. task[g] = <<job["set"]>>
    BY <1>2, <1>6, <1>9
  <2>. QED
    BY <1>1, <1>3, <1>6, <1>9, <2>1
<1>10. CASE task[g] = <<Job("unflag", default), Job("restore", default)>> /\ LeftAlone(Core(g))
  <2>1. task[g] = <<job["unflag"], job["restore"]>>
    BY <1>2, <1>6, <1>10
  <2>. QED
    BY <1>1, <1>2, <1>4, <1>6, <1>10, <2>1
<1>11. CASE /\ task[g] = <<Job("restore", default)>>
            /\ Core(g) \notin dnsIsSet /\ LeftAlone(Core(g))
  <2>1. task[g] = <<job["restore"]>>
    BY <1>2, <1>6, <1>11
  <2>. QED
    BY <1>1, <1>3, <1>6, <1>11, <2>1
<1>. QED
  BY <1>7, <1>8, <1>9, <1>10, <1>11, Zenon DEF RequestPlan

(***************************************************************************)
(* What the undisturbed callback does next, and what is left then.         *)
(***************************************************************************)
LEMMA MonitorStage ==
  ASSUME TypeOK, NEW c \in Cores, NEW m \in Tasks, m = Monitor(c), MonitorPlan(c)
  PROVE  LET do == First(m).do
             i == First(m).ifc
             rest == Tail(task[m])
         IN  \/ Pending(rest)
             \/ do = "handle" /\ i = default /\ rest = <<>>
             \/ /\ default \in Interfaces
                /\ \/ /\ do = (IF c \in dnsIsSet THEN "set" ELSE "restore")
                      /\ i = default /\ rest = <<Job("last", default)>>
                   \/ do = "last" /\ i = default /\ rest = <<>> /\ Wanted(c)
                   \/ /\ do = "restore" /\ i = lastIfc[c] /\ rest = <<>> /\ Wanted(c)
                      /\ lastIfc[c] \notin {None, default}
<1>1. PICK plan \in Seq(Jobs) : plan = task[m]
  BY DEF TypeOK
<1>2. default \in Interfaces \cup {None} /\ lastIfc[c] \in Interfaces \cup {None}
  BY DEF TypeOK
<1>3. PICK do \in {"set", "restore"} : do = IF c \in dnsIsSet THEN "set" ELSE "restore"
  OBVIOUS
<1>4. CASE Pending(plan)
  <2>1. PICK job \in Jobs : job = Job("handle", default) /\ job.do = "handle" /\ job.ifc = default
    BY <1>2, JobFacts
  <2>2. LastIs(plan, job)
    BY <1>4, <2>1, PendingIs
  <2>3. \/ LastIs(Tail(plan), job)
        \/ Tail(plan) = <<>> /\ Head(plan) = job
    BY <2>2, LastFacts
  <2>. QED
    BY <1>1, <2>1, <2>3, PendingIs DEF First
<1>5. CASE default # None /\ plan = <<Job(do, default), Job("last", default)>>
  <2>1. default \in Interfaces
    BY <1>2, <1>5
  <2>2. PICK a \in Jobs, b \in Jobs : /\ a = Job(do, default) /\ a.do = do /\ a.ifc = default
                                      /\ b = Job("last", default)
    BY <2>1, JobFacts DEF Kinds
  <2>3. Head(<<a, b>>) = a /\ Tail(<<a, b>>) = <<b>>
    BY ShortPlans
  <2>4. First(m) = a /\ Tail(task[m]) = <<b>>
    BY <1>1, <1>5, <2>2, <2>3 DEF First
  <2>. QED
    BY <1>3, <2>1, <2>2, <2>4
<1>6. CASE default # None /\ plan = <<Job("last", default)>> /\ Wanted(c)
  <2>1. default \in Interfaces
    BY <1>2, <1>6
  <2>2. PICK a \in Jobs : a = Job("last", default) /\ a.do = "last" /\ a.ifc = default
    BY <2>1, JobFacts DEF Kinds
  <2>3. First(m) = a /\ Tail(task[m]) = <<>>
    BY <1>1, <1>6, <2>2, ShortPlans DEF First
  <2>. QED
    BY <1>6, <2>1, <2>2, <2>3
<1>7. CASE /\ default # None /\ plan = <<Job("restore", lastIfc[c])>> /\ Wanted(c)
           /\ lastIfc[c] \notin {None, default}
  <2>1. default \in Interfaces /\ lastIfc[c] \in Interfaces
    BY <1>2, <1>7
  <2>2. PICK a \in Jobs : a = Job("restore", lastIfc[c]) /\ a.do = "restore" /\ a.ifc = lastIfc[c]
    BY <2>1, JobFacts DEF Kinds
  <2>3. First(m) = a /\ Tail(task[m]) = <<>>
    BY <1>1, <1>7, <2>2, ShortPlans DEF First
  <2>. QED
    BY <1>7, <2>1, <2>2, <2>3
<1>8. \/ Pending(plan)
      \/ default # None /\ plan = <<Job(do, default), Job("last", default)>>
      \/ default # None /\ plan = <<Job("last", default)>> /\ Wanted(c)
      \/ /\ default # None /\ plan = <<Job("restore", lastIfc[c])>> /\ Wanted(c)
         /\ lastIfc[c] \notin {None, default}
  BY <1>1, <1>3, Zenon DEF MonitorPlan
<1>. QED
  BY <1>4, <1>5, <1>6, <1>7, <1>8

(***************************************************************************)
(* PlanInv without its guard.                                              *)
(***************************************************************************)
Ordered ==
    /\ \A g \in Tasks : seen[g] # None => seen[g] = DNS(First(g).ifc)
    /\ \A g \in Tasks : Busy(g) => Plan(g)
    /\ Idle => \A c \in running : Wanted(c) /\ LeftAlone(c)

Calm == ~raced /\ ~misread /\ faults = 0

LEMMA PlanIs ==
  (PlanInv <=> (Calm => Ordered)) /\ (PlanInv' <=> (Calm' => Ordered'))
BY DEF PlanInv, Calm, Ordered

(***************************************************************************)
(* The two ways in which a piece of work leaves the goroutines: none has   *)
(* anything left, or one has.                                              *)
(***************************************************************************)
LEMMA NoneIsLeft ==
  ASSUME \A h \in Tasks : seen'[h] = None /\ task'[h] = <<>>,
         \A c \in running' : Wanted(c)' /\ LeftAlone(c)'
  PROVE  Ordered'
BY DEF Ordered, Busy

LEMMA OneIsLeft ==
  ASSUME NEW g \in Tasks, \A h \in Tasks : seen'[h] = None,
         \A h \in Tasks \ {g} : task'[h] = <<>>, task'[g] # <<>>, Plan(g)'
  PROVE  Ordered'
<1>1. ~Idle'
  BY DEF Idle, Busy
<1>. QED
  BY <1>1 DEF Ordered, Busy

(***************************************************************************)
(* A goroutine at work while raced is not set is the only one.             *)
(***************************************************************************)
LEMMA OnlyOne ==
  ASSUME TypeOK, ReadInv, AloneInv, ~raced, NEW g \in Tasks, task[g] # <<>>
  PROVE  /\ \A h \in Tasks \ {g} : task[h] = <<>> /\ seen[h] = None
         /\ Core(g) \in running /\ running = {Core(g)}
         /\ Core(g) \in Cores
         /\ g \in Monitors <=> g = Monitor(Core(g))
<1>1. \A h \in Tasks \ {g} : task[h] = <<>>
  BY DEF AloneInv, Busy
<1>2. \A h \in Tasks \ {g} : seen[h] = None
  BY <1>1, NothingRead DEF Works, Busy
<1>3. Core(g) \in running
  BY DEF ReadInv, Busy
<1>4. running = {Core(g)}
  BY <1>3 DEF AloneInv
<1>5. g \in Monitors <=> g = Monitor(Core(g))
  BY <1>4 DEF Monitors
<1>. QED
  BY <1>1, <1>2, <1>3, <1>4, <1>5, TaskFacts

LEMMA DoneAlone ==
  ASSUME TypeOK, ReadInv, AloneInv, ~raced, NEW g \in Tasks, task[g] # <<>>, Done(g)
  PROVE  /\ \A h \in Tasks : seen'[h] = None
         /\ \A h \in Tasks \ {g} : task'[h] = <<>>
         /\ task'[g] = Tail(task[g])
BY OnlyOne, DoneFacts

LEMMA NoneAtWork ==
  ASSUME ReadInv, \A h \in Tasks : task[h] = <<>>
  PROVE  Idle /\ \A h \in Tasks : seen[h] = None
BY NothingRead DEF Works, Busy, Idle

(***************************************************************************)
(* What a core wants of an interface depends on little.                    *)
(***************************************************************************)
LEMMA WantedKept ==
  ASSUME NEW c \in Cores, default' = default, c \in dnsIsSet' <=> c \in dnsIsSet,
         written'[default] = written[default]
  PROVE  Wanted(c)' <=> Wanted(c)
BY DEF Wanted, PointsAt, AsFound

LEMMA LeftAloneKept ==
  ASSUME NEW c \in Cores, default' = default, lastIfc'[c] = lastIfc[c],
         written'[lastIfc[c]] = written[lastIfc[c]]
  PROVE  LeftAlone(c)' <=> LeftAlone(c)
BY DEF LeftAlone, AsFound

(***************************************************************************)
(* A monitor with the last move of the route still before it.              *)
(***************************************************************************)
LEMMA PendingIsLeft ==
  ASSUME NEW c \in running', NEW m \in Tasks, m = Monitor(c), Core(m) = c,
         \A h \in Tasks : seen'[h] = None, \A h \in Tasks \ {m} : task'[h] = <<>>,
         LastIs(task'[m], Job("handle", default'))
  PROVE  Ordered'
<1>1. task'[m] # <<>>
  BY DEF LastIs
<1>2. MonitorPlan(Core(m))'
  BY PendingIs DEF MonitorPlan
<1>3. m \in Monitors'
  BY DEF Monitors
<1>4. Plan(m)'
  BY <1>2, <1>3 DEF Plan
<1>. QED
  BY <1>1, <1>4, OneIsLeft

(***************************************************************************)
(* The looks at an interface change nothing a plan speaks of.              *)
(***************************************************************************)
LEMMA PlanOfLooks ==
  ASSUME TypeOK, Ordered, ~Fault, NEW g \in Tasks, ReadDns(g) \/ AskMark(g) \/ AskRegistry(g)
  PROVE  Ordered'
<1>1. /\ task' = task /\ written' = written /\ running' = running
      /\ default' = default /\ dnsIsSet' = dnsIsSet /\ lastIfc' = lastIfc
      /\ seen' = seen \/ seen' = [seen EXCEPT ![g] = DNS(First(g).ifc)]
  BY DEF ReadDns, AskMark, AskRegistry
<1>2. \A h \in Tasks : DNS(First(h).ifc)' = DNS(First(h).ifc)
  BY <1>1 DEF DNS, First
<1>3. \A h \in Tasks : seen'[h] # None => seen'[h] = DNS(First(h).ifc)'
  BY <1>1, <1>2 DEF TypeOK, Ordered
<1>4. \A h \in Tasks : Plan(h)' <=> Plan(h)
  BY <1>1 DEF Plan, Monitors, MonitorPlan, RequestPlan, Pending, Wanted, LeftAlone, AsFound, PointsAt
<1>5. /\ \A h \in Tasks : Busy(h)' <=> Busy(h)
      /\ Idle' <=> Idle
      /\ \A c \in running : (Wanted(c)' <=> Wanted(c)) /\ (LeftAlone(c)' <=> LeftAlone(c))
  BY <1>1 DEF Busy, Idle, Wanted, LeftAlone, AsFound, PointsAt
<1>. QED
  BY <1>1, <1>3, <1>4, <1>5 DEF Ordered

(***************************************************************************)
(* setSystemDNS of an undisturbed goroutine.                               *)
(***************************************************************************)
LEMMA PlanOfSet ==
  ASSUME TypeOK, ReadInv, AloneInv, SeenInv, Ordered, Calm, ~misread', faults' = 0,
         NEW g \in Tasks, Set(g)
  PROVE  Ordered'
<1>1. /\ Works(g, {"set"}) /\ task[g] # <<>> /\ Done(g)
      /\ default' = default /\ dnsIsSet' = dnsIsSet /\ lastIfc' = lastIfc /\ running' = running
  BY DEF Set, Works, Busy
<1>2. PICK i \in Interfaces : i = First(g).ifc
  BY <1>1, WorkFacts DEF Kinds
<1>3. First(g).do = "set" /\ ~raced
  BY <1>1 DEF Works, Calm
<1>4. PICK c \in Cores : /\ c = Core(g) /\ running = {c}
                         /\ \A h \in Tasks \ {g} : task[h] = <<>> /\ seen[h] = None
                         /\ g \in Monitors <=> g = Monitor(c)
  BY <1>1, <1>3, OnlyOne
<1>5. /\ \A h \in Tasks : seen'[h] = None
      /\ \A h \in Tasks \ {g} : task'[h] = <<>>
      /\ task'[g] = Tail(task[g])
  BY <1>1, <1>3, DoneAlone
<1>6. i \notin Front => PointsAt(i)'
  BY <1>2, SetEffect
<1>7. i = default /\ c \in dnsIsSet => Wanted(c)'
  BY <1>1, <1>6 DEF Wanted, PointsAt
<1>8. Plan(g)
  BY <1>1 DEF Ordered, Busy
<1>9. CASE g \notin Monitors
  <2>1. RequestPlan(g)
    BY <1>8, <1>9 DEF Plan
  <2>2. i = default /\ task'[g] = <<>> /\ c \in dnsIsSet /\ lastIfc[c] = default
    BY <1>2, <1>3, <1>4, <1>5, <2>1, RequestStage
  <2>3. Wanted(c)' /\ LeftAlone(c)'
    BY <1>1, <1>7, <2>2 DEF LeftAlone
  <2>. QED
    BY <1>1, <1>4, <1>5, <2>2, <2>3, NoneIsLeft
<1>10. CASE g \in Monitors
  <2>1. g = Monitor(c) /\ MonitorPlan(c)
    BY <1>4, <1>8, <1>10 DEF Plan
  <2>2. \/ Pending(Tail(task[g]))
        \/ /\ default \in Interfaces /\ c \in dnsIsSet /\ i = default
           /\ task'[g] = <<Job("last", default)>>
    BY <1>2, <1>3, <1>5, <2>1, MonitorStage
  <2>3. CASE Pending(Tail(task[g]))
    <3>1. LastIs(task'[g], Job("handle", default'))
      BY <1>1, <1>5, <2>3, PendingIs
    <3>. QED
      BY <1>1, <1>4, <1>5, <2>1, <3>1, PendingIsLeft
  <2>4. CASE /\ default \in Interfaces /\ c \in dnsIsSet /\ i = default
             /\ task'[g] = <<Job("last", default)>>
    <3>1. Job("last", default) \in Jobs
      BY <2>4, JobFacts DEF Kinds
    <3>2. task'[g] # <<>>
      BY <2>4, <3>1, ShortPlans
    <3>3. default # None
      BY <2>4, SystemDnsAssumption
    <3>4. MonitorPlan(c)'
      BY <1>1, <1>7, <2>1, <2>4, <3>3 DEF MonitorPlan
    <3>5. Plan(g)'
      BY <1>1, <1>4, <1>10, <3>4 DEF Plan, Monitors
    <3>. QED
      BY <1>5, <3>2, <3>5, OneIsLeft
  <2>. QED
    BY <2>2, <2>3, <2>4
<1>. QED
  BY <1>9, <1>10

(***************************************************************************)
(* restoreSystemDNS of an undisturbed goroutine.                           *)
(***************************************************************************)
LEMMA PlanOfRestore ==
  ASSUME TypeOK, ReadInv, AloneInv, NothingOfTheOwnerIsLost, SeenInv, Ordered, Calm,
         ~misread', faults' = 0, NEW g \in Tasks, Restore(g)
  PROVE  Ordered'
<1>1. /\ Works(g, {"restore"}) /\ task[g] # <<>> /\ Done(g) /\ seen[g] # None
      /\ default' = default /\ dnsIsSet' = dnsIsSet /\ lastIfc' = lastIfc /\ running' = running
  BY DEF Restore, Works, Busy
<1>2. PICK i \in Interfaces : i = First(g).ifc
  BY <1>1, WorkFacts DEF Kinds
<1>3. First(g).do = "restore" /\ ~raced /\ ~misread
  BY <1>1 DEF Works, Calm
<1>4. PICK c \in Cores : /\ c = Core(g) /\ running = {c}
                         /\ \A h \in Tasks \ {g} : task[h] = <<>> /\ seen[h] = None
                         /\ g \in Monitors <=> g = Monitor(c)
  BY <1>1, <1>3, OnlyOne
<1>5. /\ \A h \in Tasks : seen'[h] = None
      /\ \A h \in Tasks \ {g} : task'[h] = <<>>
      /\ task'[g] = Tail(task[g])
  BY <1>1, <1>3, DoneAlone
<1>6. i \notin Front => AsFound(i)'
  <2>1. SUFFICES ASSUME i \notin Front, written'[i] = written[i], seen[g] = FoundList(i)
                 PROVE  AsFound(i)'
    BY <1>2, RestoreEffect
  <2>2. DNS(i) = FoundList(i)
    BY <1>1, <1>2, <2>1 DEF Ordered
  <2>3. AsFound(i) \/ PointsAt(i)
    BY <1>3, <2>1, OwnedIs DEF Owned
  <2>4. AsFound(i)
    BY <2>1, <2>2, <2>3, WhatIsRead
  <2>. QED
    BY <2>1, <2>4 DEF AsFound
<1>7. \A j \in Interfaces \ {i} : written'[j] = written[j]
  BY <1>2, RestoreEffect
<1>8. i = default /\ c \notin dnsIsSet => Wanted(c)'
  BY <1>1, <1>6 DEF Wanted, AsFound
<1>9. LeftAlone(c) => LeftAlone(c)'
  <2>1. lastIfc[c] \in Interfaces \cup {None}
    BY DEF TypeOK
  <2>2. CASE lastIfc[c] = i
    BY <1>1, <1>6, <2>2 DEF LeftAlone, AsFound
  <2>3. CASE lastIfc[c] \in Interfaces \ {i}
    BY <1>1, <1>7, <2>3, LeftAloneKept
  <2>4. CASE lastIfc[c] = None
    BY <1>1, <2>4 DEF LeftAlone
  <2>. QED
    BY <2>1, <2>2, <2>3, <2>4
<1>10. Plan(g)
  BY <1>1 DEF Ordered, Busy
<1>11. CASE g \notin Monitors
  <2>1. RequestPlan(g)
    BY <1>10, <1>11 DEF Plan
  <2>2. i = default /\ task'[g] = <<>> /\ c \notin dnsIsSet /\ LeftAlone(c)
    BY <1>2, <1>3, <1>4, <1>5, <2>1, RequestStage
  <2>. QED
    BY <1>1, <1>4, <1>5, <1>8, <1>9, <2>2, NoneIsLeft
<1>12. CASE g \in Monitors
  <2>1. g = Monitor(c) /\ MonitorPlan(c)
    BY <1>4, <1>10, <1>12 DEF Plan
  <2>2. \/ Pending(Tail(task[g]))
        \/ /\ default \in Interfaces /\ c \notin dnsIsSet /\ i = default
           /\ task'[g] = <<Job("last", default)>>
        \/ /\ default \in Interfaces /\ i = lastIfc[c] /\ task'[g] = <<>> /\ Wanted(c)
           /\ lastIfc[c] \notin {None, default}
    BY <1>2, <1>3, <1>5, <2>1, MonitorStage
  <2>3. CASE Pending(Tail(task[g]))
    <3>1. LastIs(task'[g], Job("handle", default'))
      BY <1>1, <1>5, <2>3, PendingIs
    <3>. QED
      BY <1>1, <1>4, <1>5, <2>1, <3>1, PendingIsLeft
  <2>4. CASE /\ default \in Interfaces /\ c \notin dnsIsSet /\ i = default
             /\ task'[g] = <<Job("last", default)>>
    <3>1. Job("last", default) \in Jobs
      BY <2>4, JobFacts DEF Kinds
    <3>2. task'[g] # <<>>
      BY <2>4, <3>1, ShortPlans
    <3>3. default # None
      BY <2>4, SystemDnsAssumption
    <3>4. MonitorPlan(c)'
      BY <1>1, <1>8, <2>1, <2>4, <3>3 DEF MonitorPlan
    <3>5. Plan(g)'
      BY <1>1, <1>4, <1>12, <3>4 DEF Plan, Monitors
    <3>. QED
      BY <1>5, <3>2, <3>5, OneIsLeft
  <2>5. CASE /\ default \in Interfaces /\ i = lastIfc[c] /\ task'[g] = <<>> /\ Wanted(c)
             /\ lastIfc[c] \notin {None, default}
    <3>1. Wanted(c)'
      BY <1>1, <1>7, <2>5, WantedKept
    <3>2. LeftAlone(c)'
      BY <1>1, <1>6, <2>5 DEF LeftAlone, AsFound
    <3>. QED
      BY <1>1, <1>4, <1>5, <2>5, <3>1, <3>2, NoneIsLeft
  <2>. QED
    BY <2>2, <2>3, <2>4, <2>5
<1>. QED
  BY <1>11, <1>12

(***************************************************************************)
(* The accesses of an undisturbed request to dnsIsSet and lastIfc.         *)
(***************************************************************************)
LEMMA PlanOfFlagAndKeep ==
  ASSUME TypeOK, ReadInv, AloneInv, Ordered, Calm, NEW g \in Tasks, Flag(g) \/ Keep(g)
  PROVE  Ordered'
<1>1. /\ Works(g, {"flag", "unflag", "keep"}) /\ task[g] # <<>> /\ Done(g)
      /\ default' = default /\ running' = running /\ written' = written
  BY DEF Flag, Keep, Works, Busy
<1>2. First(g).do \in {"flag", "unflag", "keep"} /\ ~raced
  BY <1>1 DEF Works, Calm
<1>3. PICK c \in Cores : /\ c = Core(g) /\ running = {c}
                         /\ g \in Monitors <=> g = Monitor(c)
  BY <1>1, <1>2, OnlyOne
<1>4. /\ \A h \in Tasks : seen'[h] = None
      /\ \A h \in Tasks \ {g} : task'[h] = <<>>
      /\ task'[g] = Tail(task[g])
  BY <1>1, <1>2, DoneAlone
<1>5. Plan(g)
  BY <1>1 DEF Ordered, Busy
<1>6. CASE g \notin Monitors
  <2>1. RequestPlan(g)
    BY <1>5, <1>6 DEF Plan
  <2>2. default \in Interfaces /\ default # None
    BY <2>1, RequestStage, SystemDnsAssumption
  <2>3. PICK kept \in Jobs, set \in Jobs, restored \in Jobs :
            /\ kept = Job("keep", default) /\ set = Job("set", default)
            /\ restored = Job("restore", default)
    BY <2>2, JobFacts DEF Kinds
  <2>4. RequestPlan(g)' /\ task'[g] # <<>>
    <3>1. CASE First(g).do = "flag"
      <4>1. c \in dnsIsSet' /\ lastIfc' = lastIfc
        BY <1>1, <1>3, <3>1 DEF Flag, Keep, Works
      <4>2. task'[g] = <<kept, set>>
        BY <1>4, <2>1, <2>3, <3>1, RequestStage
      <4>. QED
        BY <1>1, <1>3, <2>2, <2>3, <4>1, <4>2, ShortPlans DEF RequestPlan
    <3>2. CASE First(g).do = "keep"
      <4>1. dnsIsSet' = dnsIsSet /\ lastIfc'[c] = First(g).ifc
        BY <1>1, <1>3, <3>2 DEF Flag, Keep, Works, TypeOK
      <4>2. task'[g] = <<set>> /\ c \in dnsIsSet /\ First(g).ifc = default
        BY <1>3, <1>4, <2>1, <2>3, <3>2, RequestStage
      <4>. QED
        BY <1>1, <1>3, <2>2, <2>3, <4>1, <4>2, ShortPlans DEF RequestPlan
    <3>3. CASE First(g).do = "unflag"
      <4>1. c \notin dnsIsSet' /\ lastIfc' = lastIfc
        BY <1>1, <1>3, <3>3 DEF Flag, Keep, Works
      <4>2. task'[g] = <<restored>> /\ LeftAlone(c)
        BY <1>3, <1>4, <2>1, <2>3, <3>3, RequestStage
      <4>3. LeftAlone(c)'
        BY <1>1, <4>1, <4>2, LeftAloneKept
      <4>. QED
        BY <1>1, <1>3, <2>2, <2>3, <4>1, <4>2, <4>3, ShortPlans DEF RequestPlan
    <3>. QED
      BY <1>2, <3>1, <3>2, <3>3
  <2>5. Plan(g)'
    BY <1>1, <1>6, <2>4 DEF Plan, Monitors
  <2>. QED
    BY <1>4, <2>4, <2>5, OneIsLeft
<1>7. CASE g \in Monitors
  <2>1. g = Monitor(c) /\ MonitorPlan(c)
    BY <1>3, <1>5, <1>7 DEF Plan
  <2>2. Pending(Tail(task[g]))
    BY <1>2, <2>1, MonitorStage
  <2>3. LastIs(task'[g], Job("handle", default'))
    BY <1>1, <1>4, <2>2, PendingIs
  <2>. QED
    BY <1>1, <1>3, <1>4, <2>1, <2>3, PendingIsLeft
<1>. QED
  BY <1>6, <1>7

(***************************************************************************)
(* The callback of an undisturbed monitor, first half.                     *)
(***************************************************************************)
LEMMA PlanOfHandle ==
  ASSUME TypeOK, ReadInv, AloneInv, Ordered, Calm, NEW c \in Cores, Handle(c)
  PROVE  Ordered'
<1>1. PICK m \in Tasks : m = Monitor(c) /\ Core(m) = c
  BY TaskFacts
<1>2. /\ Works(m, {"handle"}) /\ task[m] # <<>> /\ seen' = seen /\ running' = running
      /\ default' = default /\ dnsIsSet' = dnsIsSet /\ lastIfc' = lastIfc /\ written' = written
  BY <1>1 DEF Handle, Works, Busy
<1>3. First(m).do = "handle" /\ ~raced
  BY <1>2 DEF Works, Calm
<1>4. /\ running = {c} /\ m \in Monitors
      /\ \A h \in Tasks \ {m} : task[h] = <<>> /\ seen[h] = None
  BY <1>1, <1>2, <1>3, OnlyOne
<1>5. PICK rest \in Seq(Jobs) : rest = Tail(task[m])
  BY <1>1, HandlePlan
<1>6. PICK i \in Interfaces \cup {None} : i = First(m).ifc
  BY <1>1, HandlePlan
<1>7. PICK do \in {"set", "restore"} : do = IF c \in dnsIsSet THEN "set" ELSE "restore"
  OBVIOUS
<1>8. /\ \A h \in Tasks \ {m} : task'[h] = <<>>
      /\ i = None => task'[m] = rest
      /\ i # None => /\ <<Job(do, i), Job("last", i)>> \in Seq(Jobs)
                     /\ task'[m] = <<Job(do, i), Job("last", i)>> \o rest
  BY <1>1, <1>4, <1>5, <1>6, <1>7, HandlePlan
<1>9. \A h \in Tasks : seen'[h] = None
  BY <1>2, <1>3, <1>4, NothingRead DEF Works
<1>10. MonitorPlan(c)
  BY <1>1, <1>2, <1>4 DEF Ordered, Busy, Plan
<1>11. Pending(rest) \/ (i = default /\ rest = <<>>)
  BY <1>1, <1>3, <1>5, <1>6, <1>10, MonitorStage
<1>12. CASE Pending(rest)
  <2>1. PICK job \in Jobs : job = Job("handle", default)
    BY JobFacts DEF TypeOK
  <2>2. LastIs(rest, job)
    BY <1>12, <2>1, PendingIs
  <2>3. LastIs(task'[m], job)
    <3>1. CASE i = None
      BY <1>8, <2>2, <3>1
    <3>2. CASE i # None
      <4>1. PICK two \in Seq(Jobs) : two = <<Job(do, i), Job("last", i)>>
        BY <1>8, <3>2
      <4>2. LastIs(two \o rest, job)
        BY <2>2, LastOfTwo
      <4>. QED
        BY <1>8, <3>2, <4>1, <4>2
    <3>. QED
      BY <3>1, <3>2
  <2>. QED
    BY <1>1, <1>2, <1>4, <1>8, <1>9, <2>1, <2>3, PendingIsLeft
<1>13. CASE i = default /\ rest = <<>> /\ i = None
  <2>1. \A h \in Tasks : task'[h] = <<>>
    BY <1>8, <1>13
  <2>2. Wanted(c)' /\ LeftAlone(c)'
    BY <1>2, <1>13 DEF Wanted, LeftAlone
  <2>. QED
    BY <1>2, <1>4, <1>9, <2>1, <2>2, NoneIsLeft
<1>14. CASE i = default /\ rest = <<>> /\ i # None
  <2>1. Job(do, i) \in Jobs /\ Job("last", i) \in Jobs
    BY <1>14, JobFacts DEF Kinds
  <2>2. PICK two \in Seq(Jobs) : two = <<Job(do, i), Job("last", i)>> /\ two # <<>>
    BY <2>1, ShortPlans
  <2>3. two \o <<>> = two
    BY ConcatEmptySeq
  <2>4. task'[m] = two
    BY <1>8, <1>14, <2>2, <2>3
  <2>5. MonitorPlan(c)'
    BY <1>1, <1>2, <1>7, <1>14, <2>2, <2>4 DEF MonitorPlan
  <2>6. Plan(m)'
    BY <1>1, <1>2, <1>4, <2>5 DEF Plan, Monitors
  <2>. QED
    BY <1>8, <1>9, <2>2, <2>4, <2>6, OneIsLeft
<1>. QED
  BY <1>11, <1>12, <1>13, <1>14

(***************************************************************************)
(* Second half.  No request of the core keeps an interface meanwhile.      *)
(***************************************************************************)
LEMMA PlanOfHandleLast ==
  ASSUME TypeOK, ReadInv, AloneInv, Ordered, Calm, NEW c \in Cores, HandleLast(c)
  PROVE  Ordered'
<1>1. PICK m \in Tasks : m = Monitor(c) /\ Core(m) = c
  BY TaskFacts
<1>2. /\ Works(m, {"last"}) /\ task[m] # <<>> /\ seen' = seen /\ running' = running
      /\ default' = default /\ dnsIsSet' = dnsIsSet /\ lastIfc' = lastIfc /\ written' = written
  BY <1>1 DEF HandleLast, Works, Busy
<1>3. First(m).do = "last" /\ ~raced
  BY <1>2 DEF Works, Calm
<1>4. /\ running = {c} /\ m \in Monitors
      /\ \A h \in Tasks \ {m} : task[h] = <<>> /\ seen[h] = None
  BY <1>1, <1>2, <1>3, OnlyOne
<1>5. PICK rest \in Seq(Jobs) : rest = Tail(task[m])
  BY <1>1, HandleLastPlan
<1>6. PICK i : i = First(m).ifc
  OBVIOUS
<1>7. PICK last \in Interfaces \cup {None} : last = lastIfc[c]
  BY DEF TypeOK
<1>8. Keeping(c) = {}
  <2>1. \A h \in Tasks : ~Works(h, {"keep"})
    BY <1>3, <1>4 DEF Works, Busy
  <2>. QED
    BY <2>1 DEF Keeping
<1>9. /\ \A h \in Tasks \ {m} : task'[h] = <<>>
      /\ last \in {None, i} => task'[m] = rest
      /\ last \notin {None, i} => /\ <<Job("restore", last)>> \in Seq(Jobs)
                                  /\ task'[m] = <<Job("restore", last)>> \o rest
  BY <1>1, <1>4, <1>5, <1>6, <1>7, <1>8, HandleLastPlan
<1>10. \A h \in Tasks : seen'[h] = None
  BY <1>2, <1>3, <1>4, NothingRead DEF Works
<1>11. MonitorPlan(c)
  BY <1>1, <1>2, <1>4 DEF Ordered, Busy, Plan
<1>12. Pending(rest) \/ (default \in Interfaces /\ i = default /\ rest = <<>> /\ Wanted(c))
  BY <1>1, <1>3, <1>5, <1>6, <1>11, MonitorStage
<1>13. CASE Pending(rest)
  <2>1. PICK job \in Jobs : job = Job("handle", default)
    BY JobFacts DEF TypeOK
  <2>2. LastIs(rest, job)
    BY <1>13, <2>1, PendingIs
  <2>3. LastIs(task'[m], job)
    <3>1. CASE last \in {None, i}
      BY <1>9, <2>2, <3>1
    <3>2. CASE last \notin {None, i}
      <4>1. PICK one \in Seq(Jobs) : one = <<Job("restore", last)>>
        BY <1>9, <3>2
      <4>2. LastIs(one \o rest, job)
        BY <2>2, LastOfTwo
      <4>. QED
        BY <1>9, <3>2, <4>1, <4>2
    <3>. QED
      BY <3>1, <3>2
  <2>. QED
    BY <1>1, <1>2, <1>4, <1>9, <1>10, <2>1, <2>3, PendingIsLeft
<1>14. CASE default \in Interfaces /\ i = default /\ rest = <<>> /\ Wanted(c)
  <2>1. Wanted(c)' /\ default # None
    BY <1>2, <1>14, WantedKept, SystemDnsAssumption
  <2>2. CASE last \in {None, default}
    <3>1. \A h \in Tasks : task'[h] = <<>>
      BY <1>9, <1>14, <2>2
    <3>2. LeftAlone(c)'
      BY <1>2, <1>7, <2>2 DEF LeftAlone
    <3>. QED
      BY <1>2, <1>4, <1>10, <2>1, <3>1, <3>2, NoneIsLeft
  <2>3. CASE last \notin {None, default}
    <3>1. Job("restore", last) \in Jobs
      BY <2>3, JobFacts DEF Kinds
    <3>2. PICK one \in Seq(Jobs) : one = <<Job("restore", last)>> /\ one # <<>>
      BY <3>1, ShortPlans
    <3>3. one \o <<>> = one
      BY ConcatEmptySeq
    <3>4. task'[m] = one
      BY <1>9, <1>14, <2>3, <3>2, <3>3
    <3>5. MonitorPlan(c)'
      BY <1>1, <1>2, <1>7, <2>1, <2>3, <3>2, <3>4 DEF MonitorPlan
    <3>6. Plan(m)'
      BY <1>1, <1>2, <1>4, <3>5 DEF Plan, Monitors
    <3>. QED
      BY <1>9, <1>10, <3>2, <3>4, <3>6, OneIsLeft
  <2>. QED
    BY <2>2, <2>3
<1>. QED
  BY <1>12, <1>13, <1>14

(***************************************************************************)
(* A move of the route is left to the monitor.                             *)
(***************************************************************************)
LEMMA PlanOfMove ==
  ASSUME TypeOK, ReadInv, AloneInv, Ordered, ~raced', NEW i \in Interfaces \cup {None},
         RouteMoves(i)
  PROVE  Ordered'
<1>1. /\ default' = i /\ seen' = seen /\ running' = running /\ written' = written
      /\ raced' = (raced \/ \E g \in Tasks \ Monitors : Busy(g))
  BY DEF RouteMoves
<1>2. ~raced /\ \A h \in Tasks : task[h] # <<>> => h \in Monitors
  BY <1>1, Zenon DEF Busy
<1>3. \A h \in Tasks : task[h] = <<>> => seen[h] = None
  BY NothingRead DEF Works, Busy
<1>4. CASE running = {}
  <2>1. \A h \in Tasks : task'[h] = <<>> /\ seen'[h] = None
    BY <1>1, <1>2, <1>3, <1>4, MovePlan DEF Monitors
  <2>. QED
    BY <1>1, <1>4, <2>1, NoneIsLeft
<1>5. CASE running # {}
  <2>1. PICK c \in Cores : running = {c}
    BY <1>2, <1>5 DEF AloneInv, TypeOK
  <2>2. PICK m \in Tasks : m = Monitor(c) /\ Core(m) = c
    BY TaskFacts
  <2>3. Monitors = {m} /\ Monitors' = {m}
    BY <1>1, <2>1, <2>2 DEF Monitors
  <2>4. \A h \in Tasks \ {m} : task[h] = <<>> /\ task'[h] = <<>> /\ seen[h] = None
    BY <1>2, <1>3, <2>3, MovePlan
  <2>5. PICK plan \in Seq(Jobs), job \in Jobs : plan = task[m] /\ job = Job("handle", i)
    BY MovePlan DEF TypeOK
  <2>6. task'[m] = Append(plan, job)
    BY <2>3, <2>5, MovePlan
  <2>7. LastIs(task'[m], Job("handle", default'))
    BY <1>1, <2>5, <2>6, LastFacts
  <2>8. task'[m] # <<>>
    BY <2>7 DEF LastIs
  <2>9. Plan(m)'
    BY <2>2, <2>3, <2>7, PendingIs DEF Plan, MonitorPlan
  <2>10. ASSUME NEW h \in Tasks, seen'[h] # None PROVE seen'[h] = DNS(First(h).ifc)'
    <3>1. task[h] # <<>> /\ seen[h] = DNS(First(h).ifc)
      BY <1>1, <1>3, <2>10 DEF Ordered
    <3>2. First(h)' = First(h)
      BY <3>1, MoveKeeps DEF First
    <3>. QED
      BY <1>1, <3>1, <3>2 DEF DNS
  <2>11. ~Idle'
    BY <2>8 DEF Idle, Busy
  <2>12. \A h \in Tasks : Busy(h)' => Plan(h)'
    BY <2>4, <2>9 DEF Busy
  <2>. QED
    BY <2>10, <2>11, <2>12 DEF Ordered
<1>. QED
  BY <1>4, <1>5

(***************************************************************************)
(* A request that finds nobody at work.                                    *)
(***************************************************************************)
LEMMA PlanOfRequest ==
  ASSUME TypeOK, ReadInv, AloneInv, Ordered, ~raced', NEW g \in Tasks, NEW clear \in BOOLEAN,
         SetSystemDNS(g, clear)
  PROVE  Ordered'
<1>1. /\ default' = default /\ seen' = seen /\ running' = running /\ written' = written
      /\ dnsIsSet' = dnsIsSet /\ lastIfc' = lastIfc /\ g \notin Monitors /\ Core(g) \in running
      /\ raced' = (raced \/ \E other \in Tasks : Busy(other))
  BY DEF SetSystemDNS
<1>2. \A h \in Tasks : task[h] = <<>>
  BY <1>1, Zenon DEF Busy
<1>3. Idle /\ \A h \in Tasks : seen'[h] = None
  BY <1>1, <1>2, NoneAtWork
<1>4. PICK c \in Cores : c = Core(g)
  BY TaskFacts
<1>5. LeftAlone(c)'
  BY <1>1, <1>3, <1>4, LeftAloneKept DEF Ordered
<1>6. /\ default \in Interfaces /\ default # None /\ task'[g] = RequestJobs(clear)
      /\ task'[g] # <<>> /\ \A h \in Tasks \ {g} : task'[h] = <<>>
  BY <1>2, SetPlan, SystemDnsAssumption
<1>7. RequestPlan(g)'
  BY <1>1, <1>4, <1>5, <1>6 DEF RequestPlan, RequestJobs
<1>8. Plan(g)'
  BY <1>1, <1>7 DEF Plan, Monitors
<1>. QED
  BY <1>3, <1>6, <1>8, OneIsLeft

(***************************************************************************)
(* A core that ran alone ends, and one starts alone.                       *)
(***************************************************************************)
LEMMA PlanOfEnd ==
  ASSUME TypeOK, ReadInv, AloneInv, ~raced', NEW c \in Cores, Ends(c), ReadInv'
  PROVE  Ordered'
<1>1. c \in running /\ running' = running \ {c} /\ raced' = (raced /\ running' # {})
  BY DEF Ends
<1>2. running' = {}
  <2>1. ~raced \/ running' = {}
    BY <1>1, Zenon
  <2>. QED
    BY <1>1, <2>1 DEF AloneInv
<1>3. \A h \in Tasks : task'[h] = <<>> /\ seen'[h] = None
  BY <1>2 DEF ReadInv, Works, Busy
<1>. QED
  BY <1>2, <1>3, NoneIsLeft

LEMMA PlanOfStart ==
  ASSUME TypeOK, ReadInv, ~raced', NEW c \in Cores, Starts(c)
  PROVE  Ordered'
<1>1. /\ running' = running \cup {c} /\ raced' = (raced \/ running # {})
      /\ seen' = seen /\ default' = default
  BY DEF Starts
<1>2. running = {}
  BY <1>1, Zenon
<1>3. \A h \in Tasks : task[h] = <<>> /\ seen'[h] = None
  BY <1>1, <1>2, NothingRead DEF ReadInv, Works, Busy
<1>4. PICK m \in Tasks : m = Monitor(c) /\ Core(m) = c
  BY TaskFacts
<1>5. PICK job \in Jobs : job = Job("handle", default)
  BY StartPlan
<1>6. task'[m] = <<job>> /\ \A h \in Tasks \ {m} : task'[h] = <<>>
  BY <1>3, <1>4, <1>5, StartPlan
<1>7. LastIs(<<job>>, job)
  BY ShortPlans DEF LastIs
<1>. QED
  BY <1>1, <1>3, <1>4, <1>5, <1>6, <1>7, PendingIsLeft

(***************************************************************************)
(* A step that leaves nothing disturbed found nothing disturbed, but for   *)
(* the races that end with the last core.                                  *)
(***************************************************************************)
LEMMA StepCalm ==
  ASSUME TypeOK, [Next]_vars, ~misread', faults' = 0
  PROVE  ~misread /\ faults = 0 /\ ~Fault
<1>1. faults \in Nat /\ ~Fault
  BY DEF TypeOK, Fault
<1>2. faults = 0
  BY <1>1, Zenon DEF Next, vars, ReadDns, AskMark, AskRegistry, Set, Restore, Write, Flag, Keep,
                     SetSystemDNS, RouteMoves, Handle, HandleLast, Ends, Starts
<1>3. ~misread
  BY <1>1, Zenon DEF Next, vars, ReadDns, AskMark, AskRegistry, Set, Restore, Write, Flag, Keep,
                     SetSystemDNS, RouteMoves, Handle, HandleLast, Ends, Starts
<1>. QED
  BY <1>1, <1>2, <1>3

(***************************************************************************)
(* Undisturbed requests and callbacks do what they were to do: when all    *)
(* are done, the interfaces are as was asked.                              *)
(***************************************************************************)
LEMMA StepPlan ==
  ASSUME TypeOK, ReadInv, AloneInv, NothingOfTheOwnerIsLost, SeenInv, PlanInv, [Next]_vars
  PROVE  PlanInv'
<1>. SUFFICES ASSUME Calm' PROVE Ordered'
  BY PlanIs
<1>1. ~raced' /\ ~misread' /\ faults' = 0
  BY DEF Calm
<1>2. ~misread /\ faults = 0 /\ ~Fault
  BY <1>1, StepCalm
<1>3. ~raced => Calm /\ Ordered
  BY <1>2, PlanIs DEF Calm
<1>4. ASSUME NEW g \in Tasks, ReadDns(g) \/ AskMark(g) \/ AskRegistry(g) PROVE Ordered'
  <2>1. raced' = raced
    BY <1>4 DEF ReadDns, AskMark, AskRegistry
  <2>. QED
    BY <1>1, <1>2, <1>3, <1>4, <2>1, PlanOfLooks
<1>5. ASSUME NEW g \in Tasks, Set(g) PROVE Ordered'
  <2>1. raced' = raced
    BY <1>5 DEF Set
  <2>. QED
    BY <1>1, <1>3, <1>5, <2>1, PlanOfSet
<1>6. ASSUME NEW g \in Tasks, Restore(g) PROVE Ordered'
  <2>1. raced' = raced
    BY <1>6 DEF Restore
  <2>. QED
    BY <1>1, <1>3, <1>6, <2>1, PlanOfRestore
<1>7. ASSUME NEW g \in Tasks, Flag(g) \/ Keep(g) PROVE Ordered'
  <2>1. raced' = raced
    BY <1>7 DEF Flag, Keep
  <2>. QED
    BY <1>1, <1>3, <1>7, <2>1, PlanOfFlagAndKeep
<1>8. ASSUME NEW g \in Tasks, NEW clear \in BOOLEAN, SetSystemDNS(g, clear) PROVE Ordered'
  <2>1. raced' = (raced \/ \E other \in Tasks : Busy(other))
    BY <1>8 DEF SetSystemDNS
  <2>2. ~raced
    BY <1>1, <2>1, Zenon
  <2>. QED
    BY <1>1, <1>3, <1>8, <2>2, PlanOfRequest
<1>9. ASSUME NEW i \in Interfaces \cup {None}, RouteMoves(i) PROVE Ordered'
  <2>1. raced' = (raced \/ \E g \in Tasks \ Monitors : Busy(g))
    BY <1>9 DEF RouteMoves
  <2>2. ~raced
    BY <1>1, <2>1, Zenon
  <2>. QED
    BY <1>1, <1>3, <1>9, <2>2, PlanOfMove
<1>10. ASSUME NEW c \in Cores, Handle(c) \/ HandleLast(c) PROVE Ordered'
  <2>1. raced' = raced
    BY <1>10 DEF Handle, HandleLast
  <2>. QED
    BY <1>1, <1>3, <1>10, <2>1, PlanOfHandle, PlanOfHandleLast
<1>11. ASSUME NEW c \in Cores, Ends(c) PROVE Ordered'
  BY <1>1, <1>11, StepRead, PlanOfEnd
<1>12. ASSUME NEW c \in Cores, Starts(c) PROVE Ordered'
  BY <1>1, <1>12, PlanOfStart
<1>13. CASE UNCHANGED vars
  <2>1. Calm /\ Ordered
    BY <1>1, <1>3, <1>13 DEF vars
  <2>2. \A h \in Tasks : Plan(h)' <=> Plan(h)
    BY <1>13 DEF vars, Plan, Monitors, MonitorPlan, RequestPlan, Pending, Wanted, LeftAlone,
                 AsFound, PointsAt
  <2>3. /\ \A h \in Tasks : Busy(h)' <=> Busy(h)
        /\ Idle' <=> Idle
        /\ \A c \in running : (Wanted(c)' <=> Wanted(c)) /\ (LeftAlone(c)' <=> LeftAlone(c))
        /\ \A h \in Tasks : DNS(First(h).ifc)' = DNS(First(h).ifc)
    BY <1>13 DEF vars, Busy, Idle, Wanted, LeftAlone, AsFound, PointsAt, DNS, First
  <2>. QED
    BY <1>13, <2>1, <2>2, <2>3 DEF vars, Ordered
<1>. QED
  BY <1>4, <1>5, <1>6, <1>7, <1>8, <1>9, <1>10, <1>11, <1>12, <1>13 DEF Next

-----------------------------------------------------------------------------
(* The theorems *)

(***************************************************************************)
(* Every behaviour keeps DnsInv.                                           *)
(***************************************************************************)
THEOREM DnsIsSound == Spec => []DnsInv
<1>1. Init => DnsInv
  <2>. SUFFICES ASSUME Init PROVE DnsInv
    OBVIOUS
  <2>1. /\ written = Manual /\ default \in Interfaces \cup {None}
        /\ running = {} /\ dnsIsSet = {} /\ raced = FALSE /\ misread = FALSE
        /\ \A g \in Tasks : task[g] = <<>> /\ seen[g] = None /\ dhcp[g] = "unasked"
        /\ steps = 0 /\ faults = 0
    BY DEF Init
  <2>2. TypeOK
    <3>1. written \in [Interfaces -> Seq(Addresses)]
      <4>1. Seq(Resolvers) \subseteq Seq(Addresses)
        BY DEF Addresses
      <4>. QED
        BY <2>1, <4>1, SystemDnsAssumption
    <3>2. task \in [Tasks -> Seq(Jobs)] /\ lastIfc \in [Cores -> Interfaces \cup {None}]
      BY DEF Init
    <3>3. /\ seen \in [Tasks -> Seq(Addresses) \cup {None}]
          /\ dhcp \in [Tasks -> {"unasked", "unmarked", "dhcp", "manual"}]
      BY DEF Init
    <3>. QED
      BY <2>1, <3>1, <3>2, <3>3 DEF TypeOK
  <2>3. ReadInv /\ AloneInv
    BY <2>1 DEF ReadInv, AloneInv, Busy
  <2>4. NothingOfTheOwnerIsLost /\ SeenInv
    BY <2>1 DEF NothingOfTheOwnerIsLost, SeenInv, SeenOf, AsFound
  <2>5. PlanInv
    BY <2>1 DEF PlanInv, Busy
  <2>. QED
    BY <2>2, <2>3, <2>4, <2>5 DEF DnsInv
<1>2. DnsInv /\ [Next]_vars => DnsInv'
  BY StepType, StepRead, StepAlone, StepOwned, StepPlan DEF DnsInv
<1>. QED
  BY <1>1, <1>2, PTL DEF Spec

(***************************************************************************)
(* Every variable keeps its type.                                          *)
(***************************************************************************)
THEOREM DnsTypeCorrect == Spec => []TypeOK
<1>1. DnsInv => TypeOK
  BY DEF DnsInv
<1>. QED
  BY <1>1, DnsIsSound, PTL

(***************************************************************************)
(* Whatever requests, callbacks, failed calls and ends of any number of    *)
(* cores interleave, an interface on which IPv4 leads has the resolvers of *)
(* its owner or those of a core over them, and one with DHCP on which IPv6 *)
(* leads can be given back, unless isIfcDNSDhcp failed or was overtaken    *)
(* (setSystemDNS, restoreSystemDNS).                                       *)
(***************************************************************************)
THEOREM OwnersAreKept == Spec => []NothingOfTheOwnerIsLost
<1>1. DnsInv => NothingOfTheOwnerIsLost
  BY DEF DnsInv
<1>. QED
  BY <1>1, DnsIsSound, PTL

(***************************************************************************)
(* For a core that ran alone and undisturbed, the interface of the default *)
(* route points at it exactly while that was asked for, and the interface  *)
(* of the last request is put back when the route left it                  *)
(* (HandleSystemDNS, SetSystemDNS).                                        *)
(***************************************************************************)
THEOREM ResolversFollowRequests == Spec => []PointsWhereAsked
<1>1. DnsInv => PointsWhereAsked
  BY DEF DnsInv, PlanInv, PointsWhereAsked, Idle
<1>. QED
  BY <1>1, DnsIsSound, PTL
=============================================================================

------------------------------ MODULE HeapProofs ------------------------------
(***************************************************************************)
(* The heaps for every capacity, size, alignment and number of threads.    *)
(*                                                                         *)
(* In order: induction over finite sets; the logarithms of o1heap.c;       *)
(* sequences without repetition, which the bins are; the bins of a heap;   *)
(* its chain of fragments; allocating and freeing, which keep both; the    *)
(* blocks that are cut out of fragments; and the calls of the guest.       *)
(***************************************************************************)
EXTENDS Heap, PowersProofs, SequenceTheorems, FiniteSetTheorems

-----------------------------------------------------------------------------
(* The least and the greatest member of a set.                             *)
LEMMA LeastMember ==
    ASSUME NEW S \in SUBSET Nat, S # {}
    PROVE  Min(S) \in S /\ \A x \in S : Min(S) <= x
<1>1. \E x \in S : \A y \in S : x <= y
  BY LeastNumber
<1> QED
  BY <1>1 DEF Min

LEMMA GreatestMember ==
    ASSUME NEW m \in Nat, NEW S \in SUBSET (0 .. m), S # {}
    PROVE  Max(S) \in S /\ \A x \in S : Max(S) >= x
<1> DEFINE T == {n \in Nat : \E x \in S : n = m - x}
<1>1. T \in SUBSET Nat /\ T # {}
  <2>1. PICK x \in S : TRUE
    OBVIOUS
  <2>2. m - x \in T
    BY <2>1
  <2> QED
    BY <2>2
<1> HIDE DEF T
<1>2. PICK n \in T : \A k \in T : n <= k
  BY <1>1, LeastNumber
<1>3. PICK x \in S : n = m - x
  BY <1>2 DEF T
<1>4. \A y \in S : m - y \in T
  BY DEF T
<1>5. \A y \in S : x >= y
  BY <1>2, <1>3, <1>4
<1>6. \E z \in S : \A y \in S : z >= y
  BY <1>5
<1> QED
  BY <1>6 DEF Max

(* log2Floor is the exponent of the power of two at or below a number, and *)
(* is all that is.                                                         *)
LEMMA Log2Floor ==
    ASSUME NEW n \in Nat \ {0}
    PROVE  /\ log2Floor(n) \in Nat
           /\ pow2[log2Floor(n)] <= n
           /\ \A k \in Nat : k <= log2Floor(n) <=> pow2[k] <= n
<1> DEFINE S == {k \in 0 .. n : pow2[k] <= n}
<1>1. S \in SUBSET (0 .. n) /\ 0 \in S
  BY Pow2
<1> DEFINE best == Max(S)
<1>2. log2Floor(n) = best
  BY DEF log2Floor
<1>3. best \in S /\ \A k \in S : best >= k
  <2> HIDE DEF S
  <2> QED
    BY <1>1, GreatestMember
<1> HIDE DEF best
<1>4. ASSUME NEW k \in Nat PROVE k <= best <=> pow2[k] <= n
  <2>0. best \in Nat /\ pow2[best] <= n /\ pow2[best] \in Nat /\ pow2[k] \in Nat
    BY <1>3, Pow2Grows
  <2>1. ASSUME k <= best PROVE pow2[k] <= n
    <3>1. pow2[k] <= pow2[best]
      BY <2>0, <2>1, Pow2Grows
    <3> QED
      BY <2>0, <3>1
  <2>2. ASSUME pow2[k] <= n PROVE k <= best
    <3>1. k \in S
      BY <2>0, <2>2, Pow2Grows
    <3> QED
      BY <1>3, <3>1
  <2> QED
    BY <2>1, <2>2
<1> QED
  BY <1>2, <1>3, <1>4

(* log2Ceil is the exponent of the power of two at or above a number.      *)
LEMMA Log2Ceil ==
    ASSUME NEW n \in Nat
    PROVE  /\ log2Ceil(n) \in Nat
           /\ pow2[log2Ceil(n)] >= n
           /\ \A k \in Nat : log2Ceil(n) <= k <=> pow2[k] >= n
<1> DEFINE S == {k \in 0 .. n : pow2[k] >= n}
<1>1. S \in SUBSET Nat /\ n \in S
  BY Pow2Grows
<1> DEFINE best == Min(S)
<1>2. log2Ceil(n) = best
  BY DEF log2Ceil
<1>3. best \in S /\ \A k \in S : best <= k
  <2> HIDE DEF S
  <2> QED
    BY <1>1, LeastMember
<1> HIDE DEF best
<1>4. ASSUME NEW k \in Nat PROVE best <= k <=> pow2[k] >= n
  <2>0. best \in Nat /\ pow2[best] >= n /\ pow2[best] \in Nat /\ pow2[k] \in Nat
        /\ best <= n
    BY <1>3, Pow2Grows
  <2>1. ASSUME best <= k PROVE pow2[k] >= n
    <3>1. pow2[k] >= pow2[best]
      BY <2>0, <2>1, Pow2Grows
    <3> QED
      BY <2>0, <3>1
  <2>2. ASSUME pow2[k] >= n PROVE best <= k
    <3>1. k <= n => k \in S
      BY <2>2
    <3> QED
      BY <1>3, <2>0, <3>1
  <2> QED
    BY <2>1, <2>2
<1> QED
  BY <1>2, <1>3, <1>4

(* A request is rounded up to a power of two of fragments, which holds it  *)
(* and its header.                                                         *)
LEMMA FragmentSizeFits ==
    ASSUME NEW amount \in Nat
    PROVE  /\ FragmentSize(amount) \in Nat \ {0}
           /\ FRAGMENT_SIZE_MIN * FragmentSize(amount) >= amount + O1HEAP_ALIGNMENT
           /\ FragmentSize(amount) = pow2[log2Ceil(FragmentSize(amount))]
           /\ \A k \in Nat : FRAGMENT_SIZE_MIN * pow2[k] >= amount + O1HEAP_ALIGNMENT
                               => FragmentSize(amount) <= pow2[k]
<1> DEFINE J == {j \in 0 .. amount : FRAGMENT_SIZE_MIN * pow2[j] >= amount + O1HEAP_ALIGNMENT}
           S == {pow2[k] : k \in J}
           size == FragmentSize(amount)
<1>0. \A k \in Nat : pow2[k] \in Nat /\ k < pow2[k]
  BY Pow2Grows
<1>1. size = Min(S)
  BY DEF FragmentSize
<1>2. amount \in J
  <2>1. pow2[amount] \in Nat /\ amount < pow2[amount]
    BY <1>0
  <2> QED
    BY <2>1 DEF FRAGMENT_SIZE_MIN, O1HEAP_ALIGNMENT
<1>3. S \in SUBSET Nat /\ S # {}
  BY <1>0, <1>2
<1>4. size \in S /\ \A x \in S : size <= x
  <2> HIDE DEF S
  <2> QED
    BY <1>1, <1>3, LeastMember
<1>5. PICK k \in J : size = pow2[k]
  BY <1>4
<1>6. k \in Nat /\ FRAGMENT_SIZE_MIN * size >= amount + O1HEAP_ALIGNMENT /\ size \in Nat \ {0}
  BY <1>0, <1>5
<1> HIDE DEF size
<1>7. log2Ceil(size) = k
  <2>1. log2Ceil(size) <= k /\ log2Ceil(size) \in Nat /\ pow2[log2Ceil(size)] >= size
    BY <1>5, <1>6, Log2Ceil
  <2>2. log2Ceil(size) < k => 2 * pow2[log2Ceil(size)] <= pow2[k]
    BY <1>6, <2>1, Pow2Grows
  <2>3. pow2[log2Ceil(size)] \in Nat
    BY <1>0, <2>1
  <2> QED
    BY <1>5, <1>6, <2>1, <2>2, <2>3
<1>8. ASSUME NEW j \in Nat, FRAGMENT_SIZE_MIN * pow2[j] >= amount + O1HEAP_ALIGNMENT
      PROVE  size <= pow2[j]
  <2>1. CASE j <= amount
    <3>1. j \in J
      BY <1>8, <2>1
    <3> QED
      BY <1>4, <3>1
  <2>2. CASE j > amount
    <3>1. size <= pow2[amount]
      BY <1>2, <1>4
    <3>2. pow2[amount] <= pow2[j] /\ pow2[amount] \in Nat /\ pow2[j] \in Nat
      BY <2>2, Pow2Grows
    <3> QED
      BY <1>6, <3>1, <3>2
  <2> QED
    BY <2>1, <2>2
<1> QED
  BY <1>5, <1>6, <1>7, <1>8 DEF size

-----------------------------------------------------------------------------
Distinct(s) == \A i, j \in 1 .. Len(s) : i # j => s[i] # s[j]

(* A sequence with one more member in front.                               *)
LEMMA Pushed ==
    ASSUME NEW S, NEW s \in Seq(S), NEW e \in S
    PROVE  LET t == <<e>> \o s IN
           /\ t \in Seq(S) /\ Len(t) = Len(s) + 1 /\ t[1] = e
           /\ \A i \in 1 .. Len(s) : t[i + 1] = s[i]
           /\ \A i \in 2 .. Len(t) : t[i] = s[i - 1]
<1>1. <<e>> \in Seq(S) /\ Len(<<e>>) = 1 /\ <<e>>[1] = e /\ Len(s) \in Nat
  OBVIOUS
<1> DEFINE t == <<e>> \o s
<1>2. /\ t \in Seq(S) /\ Len(t) = 1 + Len(s)
      /\ \A i \in 1 .. 1 + Len(s) : t[i] = IF i <= 1 THEN <<e>>[i] ELSE s[i - 1]
  BY <1>1, ConcatProperties
<1> HIDE DEF t
<1>3. \A i \in 1 .. Len(s) : i + 1 \in 1 .. 1 + Len(s) /\ ~(i + 1 <= 1) /\ (i + 1) - 1 = i
  BY <1>1
<1> QED
  BY <1>1, <1>2, <1>3 DEF t

(* A sequence without one of its members, which it had once.               *)
Skips(t, s, n) == \A i \in 1 .. Len(t) : t[i] = IF i < n THEN s[i] ELSE s[i + 1]

LEMMA Pulled ==
    ASSUME NEW S, NEW s \in Seq(S), Distinct(s), NEW e, \E i \in 1 .. Len(s) : s[i] = e
    PROVE  LET t == RemoveFirst(s, e) IN
           /\ t \in Seq(S \ {e}) /\ Len(t) = Len(s) - 1
           /\ \E n \in 1 .. Len(s) : s[n] = e /\ Skips(t, s, n)
<1> DEFINE I == {i \in 1 .. Len(s) : s[i] = e}
           n == Min(I)
           left == SubSeq(s, 1, n - 1)
           right == SubSeq(s, n + 1, Len(s))
           t == left \o right
<1>1. n \in I /\ Len(s) \in Nat
  <2>1. I \in SUBSET Nat /\ I # {}
    OBVIOUS
  <2> HIDE DEF I
  <2> QED
    BY <2>1, LeastMember
<1>2. RemoveFirst(s, e) = t
  <2>1. SelectInSeq(s, LAMBDA v : v = e) = n
    BY <1>1 DEF SelectInSeq
  <2> HIDE DEF n, I
  <2> QED
    BY <2>1 DEF RemoveFirst, RemoveAt
<1> HIDE DEF n
<1>3. n \in 1 .. Len(s) /\ s[n] = e /\ n - 1 \in Nat /\ n + 1 \in Nat
  BY <1>1
<1>4. \A i \in 1 .. Len(s) : i # n => s[i] \in S \ {e}
  BY <1>3, ElementOfSeq DEF Distinct
<1> HIDE DEF I
<1>5. /\ left \in Seq(S \ {e}) /\ Len(left) = n - 1
      /\ \A i \in 1 .. n - 1 : left[i] = s[i]
  <2>1. \A i \in 1 .. n - 1 : s[i] \in S \ {e}
    BY <1>1, <1>3, <1>4
  <2> QED
    BY <1>3, <2>1, SubSeqProperties
<1>6. /\ right \in Seq(S \ {e}) /\ Len(right) = Len(s) - n
      /\ \A i \in 1 .. Len(s) - n : right[i] = s[n + i]
  <2>1. \A i \in n + 1 .. Len(s) : s[i] \in S \ {e}
    BY <1>1, <1>3, <1>4
  <2>2. /\ right \in Seq(S \ {e})
        /\ Len(right) = (IF n + 1 <= Len(s) THEN Len(s) - (n + 1) + 1 ELSE 0)
        /\ \A i \in 1 .. Len(s) - (n + 1) + 1 : right[i] = s[(n + 1) + i - 1]
    BY <1>1, <1>3, <2>1, SubSeqProperties
  <2> HIDE DEF right
  <2>3. \A i \in Nat : (n + 1) + i - 1 = n + i
    BY <1>3
  <2> QED
    BY <1>1, <1>3, <2>2, <2>3
<1> HIDE DEF left, right
<1>7. /\ t \in Seq(S \ {e}) /\ Len(t) = Len(left) + Len(right)
      /\ \A i \in 1 .. Len(left) + Len(right) :
           t[i] = IF i <= Len(left) THEN left[i] ELSE right[i - Len(left)]
  BY <1>5, <1>6, ConcatProperties
<1> HIDE DEF t
<1>8. Len(t) = Len(s) - 1
  BY <1>1, <1>3, <1>5, <1>6, <1>7
<1>9. ASSUME NEW i \in 1 .. Len(t) PROVE t[i] = IF i < n THEN s[i] ELSE s[i + 1]
  <2>1. CASE i < n
    BY <1>1, <1>3, <1>5, <1>6, <1>7, <1>8, <2>1
  <2>2. CASE i >= n
    <3>1. i - Len(left) \in 1 .. Len(s) - n /\ n + (i - Len(left)) = i + 1 /\ ~(i <= Len(left))
      BY <1>1, <1>3, <1>5, <1>8, <2>2
    <3>2. t[i] = right[i - Len(left)]
      BY <1>7, <1>8, <3>1
    <3>3. right[i - Len(left)] = s[n + (i - Len(left))]
      BY <1>6, <3>1
    <3> QED
      BY <1>3, <2>2, <3>1, <3>2, <3>3, SMTT(20)
  <2> QED
    BY <1>3, <2>1, <2>2
<1> QED
  BY <1>2, <1>3, <1>7, <1>8, <1>9 DEF Skips

(* Every member of F is in its own list once, and nothing else is.         *)
Lists(lists, B, F, bin) ==
    /\ lists \in [B -> Seq(F)]
    /\ \A b \in B : \A i \in 1 .. Len(lists[b]) : bin[lists[b][i]] = b
    /\ \A b \in B : Distinct(lists[b])
    /\ \A f \in F : bin[f] \in B /\ \E i \in 1 .. Len(lists[bin[f]]) : lists[bin[f]][i] = f

(* Lists with one more member in one of them, and with one less.           *)
PushTo(lists, b, f) == [lists EXCEPT ![b] = <<f>> \o @]
PullFrom(lists, b, f) == [lists EXCEPT ![b] = RemoveFirst(@, f)]

(* Only the list b is another, and it is empty just when that is so.       *)
OnlyChanges(changed, lists, B, b, isEmpty) ==
    /\ \A c \in B \ {b} : changed[c] = lists[c]
    /\ changed[b] = <<>> <=> isEmpty

LEMMA ListsPush ==
    ASSUME NEW lists, NEW B, NEW F, NEW bin, Lists(lists, B, F, bin),
           NEW f, f \notin F, bin[f] \in B
    PROVE  LET changed == PushTo(lists, bin[f], f) IN
           /\ Lists(changed, B, F \cup {f}, bin)
           /\ OnlyChanges(changed, lists, B, bin[f], FALSE)
<1> DEFINE b == bin[f]
           s == lists[b]
           t == <<f>> \o s
           changed == [lists EXCEPT ![b] = t]
           G == F \cup {f}
<1>1. /\ lists \in [B -> Seq(F)] /\ s \in Seq(F)
      /\ \A c \in B : lists[c] \in Seq(F) /\ lists[c] \in Seq(G)
  BY DEF Lists
<1>2. /\ t \in Seq(G) /\ Len(t) = Len(s) + 1 /\ t[1] = f
      /\ \A i \in 1 .. Len(s) : t[i + 1] = s[i]
      /\ \A i \in 2 .. Len(t) : t[i] = s[i - 1]
  <2>1. s \in Seq(G) /\ f \in G
    BY <1>1
  <2> HIDE DEF G, s
  <2> QED
    BY <2>1, Pushed
<1>3. Len(s) \in Nat /\ \A i \in 1 .. Len(s) : s[i] \in F /\ bin[s[i]] = b /\ s[i] # f
  BY <1>1, ElementOfSeq DEF Lists
<1>4. \A i, j \in 1 .. Len(s) : i # j => s[i] # s[j]
  BY DEF Lists, Distinct
<1> HIDE DEF t, s
<1>5. changed[b] = t /\ (\A c \in B \ {b} : changed[c] = lists[c]) /\ DOMAIN changed = B
  BY <1>1
<1>6. changed \in [B -> Seq(G)]
  BY <1>1, <1>2
<1> HIDE DEF changed, b
<1>7. t # <<>>
  BY <1>2, <1>3, EmptySeq
<1>8. Distinct(t)
  <2> SUFFICES ASSUME NEW i \in 1 .. Len(t), NEW j \in 1 .. Len(t), i < j PROVE t[i] # t[j]
    BY <1>2, <1>3 DEF Distinct
  <2>1. j \in 2 .. Len(t) /\ j - 1 \in 1 .. Len(s) /\ t[j] = s[j - 1]
    BY <1>2, <1>3
  <2>2. CASE i = 1
    BY <1>2, <1>3, <2>1, <2>2
  <2>3. CASE i # 1
    <3>1. i \in 2 .. Len(t) /\ i - 1 \in 1 .. Len(s) /\ t[i] = s[i - 1] /\ i - 1 # j - 1
      BY <1>2, <1>3, <2>3
    <3> QED
      BY <1>4, <2>1, <3>1
  <2> QED
    BY <2>2, <2>3
<1>9. ASSUME NEW c \in B
      PROVE  Distinct(changed[c]) /\ \A i \in 1 .. Len(changed[c]) : bin[changed[c][i]] = c
  <2>1. CASE c = b
    <3>1. ASSUME NEW i \in 1 .. Len(t) PROVE bin[t[i]] = b
      <4>1. CASE i = 1
        BY <1>2, <4>1 DEF b
      <4>2. CASE i # 1
        <5>1. i \in 2 .. Len(t) /\ i - 1 \in 1 .. Len(s)
          BY <1>2, <1>3, <4>2
        <5>2. t[i] = s[i - 1]
          BY <1>2, <5>1
        <5>3. bin[s[i - 1]] = b
          BY <1>3, <5>1
        <5> QED
          BY <5>2, <5>3
      <4> QED
        BY <4>1, <4>2
    <3> QED
      BY <1>5, <1>8, <2>1, <3>1
  <2>2. CASE c # b
    BY <1>5, <2>2 DEF Lists
  <2> QED
    BY <2>1, <2>2
<1>10. ASSUME NEW g \in G
       PROVE  bin[g] \in B /\ \E i \in 1 .. Len(changed[bin[g]]) : changed[bin[g]][i] = g
  <2>1. CASE g = f
    <3>1. 1 \in 1 .. Len(t)
      BY <1>2, <1>3
    <3> QED
      BY <1>2, <1>5, <2>1, <3>1 DEF b
  <2>2. CASE g # f
    <3>1. bin[g] \in B /\ \E i \in 1 .. Len(lists[bin[g]]) : lists[bin[g]][i] = g
      BY <2>2 DEF Lists
    <3>2. CASE bin[g] # b
      BY <1>5, <3>1, <3>2
    <3>3. CASE bin[g] = b
      <4>1. PICK i \in 1 .. Len(s) : s[i] = g
        BY <3>1, <3>3 DEF s
      <4>2. i + 1 \in 1 .. Len(t) /\ t[i + 1] = g
        BY <1>2, <1>3, <4>1
      <4> QED
        BY <1>5, <3>1, <3>3, <4>2
    <3> QED
      BY <3>2, <3>3
  <2> QED
    BY <2>1, <2>2
<1>11. Lists(changed, B, G, bin)
  BY <1>6, <1>9, <1>10 DEF Lists
<1>13. OnlyChanges(changed, lists, B, b, FALSE)
  BY <1>5, <1>7 DEF OnlyChanges
<1>12. PushTo(lists, bin[f], f) = changed
  BY DEF PushTo, changed, b, s, t
<1> QED
  BY <1>11, <1>12, <1>13 DEF b

LEMMA ListsPull ==
    ASSUME NEW lists, NEW B, NEW F, NEW bin, Lists(lists, B, F, bin), NEW f \in F
    PROVE  LET changed == PullFrom(lists, bin[f], f) IN
           /\ Lists(changed, B, F \ {f}, bin)
           /\ OnlyChanges(changed, lists, B, bin[f], lists[bin[f]] = <<f>>)
<1> DEFINE b == bin[f]
           s == lists[b]
           t == RemoveFirst(s, f)
           changed == [lists EXCEPT ![b] = t]
           G == F \ {f}
<1>1. /\ b \in B /\ lists \in [B -> Seq(F)] /\ s \in Seq(F)
      /\ \A c \in B : lists[c] \in Seq(F) /\ Len(lists[c]) \in Nat
  BY DEF Lists
<1>2. \A c \in B : \A i \in 1 .. Len(lists[c]) : lists[c][i] \in F /\ bin[lists[c][i]] = c
  BY <1>1, ElementOfSeq DEF Lists
<1>3. Distinct(s) /\ \E i \in 1 .. Len(s) : s[i] = f
  BY DEF Lists
<1>4. /\ t \in Seq(G) /\ Len(t) = Len(s) - 1
      /\ \E n \in 1 .. Len(s) : s[n] = f /\ Skips(t, s, n)
  <2> HIDE DEF s, b
  <2> QED
    BY <1>1, <1>3, Pulled, Zenon
<1> HIDE DEF t
<1>5. PICK n \in 1 .. Len(s) :
        /\ s[n] = f
        /\ \A i \in 1 .. Len(t) : t[i] = IF i < n THEN s[i] ELSE s[i + 1]
  BY <1>4 DEF Skips
<1>6. Len(s) \in Nat /\ \A i, j \in 1 .. Len(s) : i # j => s[i] # s[j]
  BY <1>1, <1>3 DEF Distinct
<1>7. ASSUME NEW c \in B \ {b} PROVE lists[c] \in Seq(G)
  <2>1. \A i \in 1 .. Len(lists[c]) : lists[c][i] \in G
    BY <1>2
  <2>2. lists[c] \in Seq(F)
    BY <1>1
  <2> DEFINE l == lists[c]
  <2> HIDE DEF l
  <2>3. l = [i \in 1 .. Len(l) |-> l[i]] /\ Len(l) \in Nat
    BY <2>2, LenProperties DEF l
  <2>4. \A i \in 1 .. Len(l) : l[i] \in G
    BY <2>1 DEF l
  <2> QED
    BY <2>3, <2>4, IsASeq DEF l
<1> HIDE DEF t, s, b
<1>8. changed[b] = t /\ (\A c \in B \ {b} : changed[c] = lists[c]) /\ DOMAIN changed = B
  BY <1>1
<1>9. changed \in [B -> Seq(G)]
  BY <1>1, <1>4, <1>7
<1> HIDE DEF changed, G
<1>10. ASSUME NEW i \in 1 .. Len(t)
       PROVE  \E k \in 1 .. Len(s) : k # n /\ t[i] = s[k] /\ k = IF i < n THEN i ELSE i + 1
  BY <1>4, <1>5, <1>6
<1>11. Distinct(t)
  <2> SUFFICES ASSUME NEW i \in 1 .. Len(t), NEW j \in 1 .. Len(t), i # j PROVE t[i] # t[j]
    BY DEF Distinct
  <2>1. PICK k \in 1 .. Len(s) : t[i] = s[k] /\ k = IF i < n THEN i ELSE i + 1
    BY <1>10
  <2>2. PICK m \in 1 .. Len(s) : t[j] = s[m] /\ m = IF j < n THEN j ELSE j + 1
    BY <1>10
  <2>3. k # m
    BY <1>4, <1>5, <1>6, <2>1, <2>2
  <2> QED
    BY <1>6, <2>1, <2>2, <2>3
<1>12. ASSUME NEW c \in B
       PROVE  Distinct(changed[c]) /\ \A i \in 1 .. Len(changed[c]) : bin[changed[c][i]] = c
  <2>1. CASE c = b
    <3>1. \A i \in 1 .. Len(t) : bin[t[i]] = b
      BY <1>1, <1>2, <1>10 DEF s
    <3> QED
      BY <1>8, <1>11, <2>1, <3>1
  <2>2. CASE c # b
    BY <1>8, <2>2 DEF Lists
  <2> QED
    BY <2>1, <2>2
<1>13. ASSUME NEW g \in G
       PROVE  bin[g] \in B /\ \E i \in 1 .. Len(changed[bin[g]]) : changed[bin[g]][i] = g
  <2>1. g \in F /\ g # f /\ bin[g] \in B /\ \E i \in 1 .. Len(lists[bin[g]]) : lists[bin[g]][i] = g
    BY DEF Lists, G
  <2>2. CASE bin[g] # b
    BY <1>8, <2>1, <2>2
  <2>3. CASE bin[g] = b
    <3>1. PICK i \in 1 .. Len(s) : s[i] = g
      BY <2>1, <2>3 DEF s
    <3>2. i # n
      BY <1>5, <2>1, <3>1
    <3>3. CASE i < n
      <4>1. i \in 1 .. Len(t) /\ t[i] = g
        BY <1>4, <1>5, <1>6, <3>1, <3>3
      <4> QED
        BY <1>8, <2>1, <2>3, <4>1
    <3>4. CASE i > n
      <4>1. i - 1 \in 1 .. Len(t) /\ ~(i - 1 < n) /\ (i - 1) + 1 = i
        BY <1>4, <1>5, <1>6, <3>4
      <4>2. t[i - 1] = g
        BY <1>5, <3>1, <4>1
      <4> QED
        BY <1>8, <2>1, <2>3, <4>1, <4>2
    <3> QED
      BY <3>2, <3>3, <3>4
  <2> QED
    BY <2>2, <2>3
<1>14. t = <<>> <=> s = <<f>>
  <2>1. ASSUME t = <<>> PROVE s = <<f>>
    <3>1. Len(t) = 0
      BY <2>1
    <3>3. 0 = Len(s) - 1
      BY <1>4, <3>1, Zenon
    <3>4. Len(s) = 1 /\ n = 1
      <4>1. Len(s) \in Nat
        BY <1>6
      <4> QED
        BY <3>3, <4>1, SMTT(20)
    <3>2. Len(s) = 1 /\ s[1] = f
      BY <1>5, <3>4
    <3>5. s \in Seq(F)
      BY <1>1 DEF s
    <3> QED
      BY <3>2, <3>5
  <2>2. ASSUME s = <<f>> PROVE t = <<>>
    <3>1. Len(s) = 1
      BY <2>2
    <3>2. Len(t) = 0
      BY <1>4, <3>1
    <3> QED
      BY <1>4, <3>2, EmptySeq
  <2> QED
    BY <2>1, <2>2
<1>15. Lists(changed, B, G, bin)
  BY <1>9, <1>12, <1>13 DEF Lists
<1>17. OnlyChanges(changed, lists, B, b, s = <<f>>)
  BY <1>8, <1>14 DEF OnlyChanges
<1>16. PullFrom(lists, bin[f], f) = changed
  BY DEF PullFrom, changed, b, s, t
<1> QED
  BY <1>15, <1>16, <1>17 DEF b, s, G

-----------------------------------------------------------------------------
(* A heap is a record whose fragments have headers.                        *)
Headers(h) == [size : Nat, used : BOOLEAN,
               prev : Places(h) \cup {None}, next : Places(h) \cup {None}]

IsHeap(h) ==
    /\ DOMAIN h = {"capacity", "allocated", "fragments", "bins", "nonempty"}
    /\ h.capacity \in Nat \ {0}
    /\ h.fragments \in [Places(h) -> Headers(h)]

USE DEF Places

(* The bin of every fragment; and a heap whose bins hold the fragments F,  *)
(* each once and in the bin of its size, and whose mask has the bins that  *)
(* hold any.                                                               *)
BinOf(h) == [f \in Places(h) |-> log2Floor(h.fragments[f].size)]

Binned(h, F) ==
    /\ F \subseteq Fragments(h)
    /\ Lists(h.bins, Bins(h), F, BinOf(h))
    /\ h.nonempty = {b \in Bins(h) : h.bins[b] # <<>>}

(* There is a bin for every size that a fragment can have.                 *)
LEMMA BinExists ==
    ASSUME NEW capacity \in Nat, NEW size \in 1 .. capacity
    PROVE  log2Floor(size) \in 0 .. log2Ceil(capacity)
<1> DEFINE a == log2Floor(size)
           b == log2Ceil(capacity)
<1>1. a \in Nat /\ pow2[a] <= size
  BY Log2Floor
<1>2. b \in Nat /\ pow2[b] >= capacity
  BY Log2Ceil
<1> HIDE DEF a, b
<1>3. b < a => 2 * pow2[b] <= pow2[a]
  BY <1>1, <1>2, Pow2Grows
<1>4. pow2[a] \in Nat /\ pow2[b] \in Nat
  BY <1>1, <1>2, Pow2Grows
<1>5. a <= b
  BY <1>1, <1>2, <1>3, <1>4
<1> QED
  BY <1>1, <1>2, <1>5 DEF a, b

(* What changes no bin and no size of a fragment that is in one.           *)
LEMMA SameBins ==
    ASSUME NEW h, NEW k, NEW F, IsHeap(h), Binned(h, F),
           k.capacity = h.capacity, k.bins = h.bins, k.nonempty = h.nonempty,
           \A g \in F : k.fragments[g].size = h.fragments[g].size
    PROVE  Binned(k, F)
<1>1. F \subseteq Fragments(h) /\ F \subseteq Places(h) /\ Bins(k) = Bins(h)
  BY DEF Binned, Fragments, Bins
<1>2. F \subseteq Fragments(k)
  BY <1>1 DEF Fragments
<1>3. \A g \in F : BinOf(k)[g] = BinOf(h)[g]
  BY <1>1 DEF BinOf
<1>4. Lists(h.bins, Bins(h), F, BinOf(h))
  BY DEF Binned
<1> DEFINE lists == h.bins
           B == Bins(h)
           before == BinOf(h)
           after == BinOf(k)
<1>5. Lists(lists, B, F, after)
  <2>1. Lists(lists, B, F, before) /\ \A g \in F : after[g] = before[g]
    BY <1>3, <1>4
  <2> HIDE DEF lists, B, before, after
  <2>2. \A b \in B : lists[b] \in Seq(F)
    BY <2>1 DEF Lists
  <2>3. \A b \in B : \A i \in 1 .. Len(lists[b]) : lists[b][i] \in F
    BY <2>2, ElementOfSeq
  <2> QED
    BY <2>1, <2>3 DEF Lists
<1>6. h.nonempty = {b \in Bins(h) : h.bins[b] # <<>>}
  BY DEF Binned
<1> QED
  BY <1>1, <1>2, <1>5, <1>6 DEF Binned

(* Inserting a fragment into its bin, and taking it out.                   *)
LEMMA RebinAdds ==
    ASSUME NEW h, NEW F, IsHeap(h), Binned(h, F),
           NEW f \in Fragments(h) \ F, h.fragments[f].size <= h.capacity
    PROVE  Binned(rebin(h, f), F \cup {f})
<1> DEFINE k == rebin(h, f)
           b == BinOf(h)[f]
<1>1. /\ f \in Places(h) /\ h.capacity \in Nat
      /\ h.fragments[f].size \in 1 .. h.capacity
  BY DEF IsHeap, Fragments, Headers
<1>2. b = log2Floor(h.fragments[f].size) /\ b \in Bins(h)
  BY <1>1, BinExists DEF BinOf, Bins
<1>3. /\ k.capacity = h.capacity /\ k.fragments = h.fragments
      /\ k.bins = PushTo(h.bins, b, f)
      /\ k.nonempty = h.nonempty \cup {b}
  BY <1>2 DEF rebin, IsHeap, PushTo
<1>4. /\ F \subseteq Fragments(h) /\ Lists(h.bins, Bins(h), F, BinOf(h))
      /\ h.nonempty = {c \in Bins(h) : h.bins[c] # <<>>}
  BY DEF Binned
<1> HIDE DEF k
<1>5. Fragments(k) = Fragments(h) /\ Bins(k) = Bins(h) /\ BinOf(k) = BinOf(h)
  BY <1>3 DEF Fragments, Bins, BinOf
<1>6. /\ Lists(k.bins, Bins(h), F \cup {f}, BinOf(h))
      /\ k.bins[b] # <<>>
      /\ \A c \in Bins(h) \ {b} : k.bins[c] = h.bins[c]
  <2> DEFINE lists == h.bins
             B == Bins(h)
             bin == BinOf(h)
             changed == PushTo(lists, bin[f], f)
  <2>1. Lists(lists, B, F, bin) /\ f \notin F /\ bin[f] \in B /\ k.bins = changed
    BY <1>2, <1>3, <1>4
  <2> HIDE DEF lists, B, bin
  <2>2. Lists(changed, B, F \cup {f}, bin) /\ OnlyChanges(changed, lists, B, bin[f], FALSE)
    BY <2>1, ListsPush, Zenon
  <2> QED
    BY <2>1, <2>2 DEF OnlyChanges, lists, B, bin
<1>7. k.nonempty = {c \in Bins(h) : k.bins[c] # <<>>}
  BY <1>2, <1>3, <1>4, <1>6
<1> QED
  BY <1>4, <1>5, <1>6, <1>7 DEF Binned, k

LEMMA UnbinRemoves ==
    ASSUME NEW h, NEW F, IsHeap(h), Binned(h, F), NEW f \in F
    PROVE  Binned(unbin(h, f), F \ {f})
<1> DEFINE k == unbin(h, f)
           b == BinOf(h)[f]
<1>1. /\ F \subseteq Fragments(h) /\ Lists(h.bins, Bins(h), F, BinOf(h))
      /\ h.nonempty = {c \in Bins(h) : h.bins[c] # <<>>}
  BY DEF Binned
<1>2. f \in Places(h) /\ b = log2Floor(h.fragments[f].size) /\ b \in Bins(h)
  BY <1>1 DEF BinOf, Fragments, Lists
<1>3. /\ k.capacity = h.capacity /\ k.fragments = h.fragments
      /\ k.bins = PullFrom(h.bins, b, f)
      /\ k.nonempty = IF h.bins[b] = <<f>> THEN h.nonempty \ {b} ELSE h.nonempty
  BY <1>2 DEF unbin, IsHeap, PullFrom
<1> HIDE DEF k
<1>4. Fragments(k) = Fragments(h) /\ Bins(k) = Bins(h) /\ BinOf(k) = BinOf(h)
  BY <1>3 DEF Fragments, Bins, BinOf
<1>5. /\ Lists(k.bins, Bins(h), F \ {f}, BinOf(h))
      /\ k.bins[b] = <<>> <=> h.bins[b] = <<f>>
      /\ \A c \in Bins(h) \ {b} : k.bins[c] = h.bins[c]
  <2> DEFINE lists == h.bins
             B == Bins(h)
             bin == BinOf(h)
             changed == PullFrom(lists, bin[f], f)
  <2>1. Lists(lists, B, F, bin) /\ k.bins = changed
    BY <1>1, <1>3
  <2> HIDE DEF lists, B, bin
  <2>2. /\ Lists(changed, B, F \ {f}, bin)
        /\ OnlyChanges(changed, lists, B, bin[f], lists[bin[f]] = <<f>>)
    BY <2>1, ListsPull, Zenon
  <2> QED
    BY <2>1, <2>2 DEF OnlyChanges, lists, B, bin
<1>6. h.bins[b] # <<>>
  BY <1>1, <1>2, EmptySeq, SMTT(20) DEF Lists
<1>7. k.nonempty = {c \in Bins(h) : k.bins[c] # <<>>}
  BY <1>1, <1>2, <1>3, <1>5, <1>6
<1> QED
  BY <1>1, <1>4, <1>5, <1>7 DEF Binned, k

(* What writes headers only leaves the bins alone.                         *)
SameLists(k, h) ==
    DOMAIN k = DOMAIN h /\ k.capacity = h.capacity /\ k.bins = h.bins /\ k.nonempty = h.nonempty

LEMMA HeadersAreApart ==
    ASSUME NEW h, IsHeap(h), NEW f, NEW g, NEW size
    PROVE  /\ SameLists(interlink(h, f, g), h)
           /\ SameLists(Taken(h, f, size), h)
           /\ SameLists([h EXCEPT !.fragments[f] = Unlinked(size)], h)
           /\ SameLists(Unused(h, f), h)
           /\ SameLists(Joined(h, f, g), h)
<1>1. ASSUME NEW x, NEW y, NEW z PROVE SameLists(interlink(x, y, z), x) \/ ~IsHeap(x)
  BY DEF SameLists, interlink, IsHeap
<1>2. /\ SameLists(interlink(h, f, g), h)
      /\ SameLists(Taken(h, f, size), h)
      /\ SameLists([h EXCEPT !.fragments[f] = Unlinked(size)], h)
      /\ SameLists(Unused(h, f), h)
  BY <1>1 DEF SameLists, Taken, Unused, IsHeap
<1>3. SameLists(Joined(h, f, g), h)
  <2> DEFINE i == interlink(h, f, h.fragments[g].next)
             s == h.fragments[f].size + h.fragments[g].size
  <2>1. SameLists(i, h)
    BY <1>1
  <2>2. Joined(h, f, g) = [i EXCEPT !.fragments[f] = [@ EXCEPT !.size = s],
                                    !.fragments[g] = Dropped]
    BY DEF Joined
  <2> HIDE DEF i, s
  <2> QED
    BY <2>1, <2>2 DEF SameLists, IsHeap
<1> QED
  BY <1>2, <1>3

(* No fragment reaches beyond the heap.                                    *)
LEMMA FragmentsEnd ==
    ASSUME NEW h, IsHeap(h), Chained(h), NEW f \in Fragments(h)
    PROVE  /\ f \in Nat /\ h.fragments[f].size \in Nat \ {0}
           /\ f + h.fragments[f].size <= h.capacity
           /\ h.fragments[f].size <= h.capacity
<1>1. f \in Places(h) /\ h.capacity \in Nat /\ h.fragments[f].size \in Nat \ {0}
  BY DEF Fragments, IsHeap, Headers
<1> DEFINE end == f + h.fragments[f].size
<1>2. end = h.capacity \/ end \in Fragments(h)
  BY DEF Chained
<1>3. end \in Fragments(h) => end <= h.capacity
  BY <1>1 DEF Fragments
<1> QED
  BY <1>1, <1>2, <1>3

(* Where the bins hold the free fragments, an allocation finds one that is *)
(* large enough if there is any, and takes such a one.                     *)
THEOREM BinsFindWhatFits ==
    ASSUME NEW h, IsHeap(h), Binned(h, FreeFragments(h)), NEW amount \in Nat \ {0},
           \A f \in FreeFragments(h) : h.fragments[f].size <= h.capacity
    PROVE  LET fits == {f \in FreeFragments(h) : h.fragments[f].size >= FragmentSize(amount)} IN
           IF Allocates(h, amount) THEN Chosen(h, amount) \in fits ELSE fits = {}
<1> DEFINE F == FreeFragments(h)
           size == FragmentSize(amount)
           bin == BinOf(h)
           bins == h.bins
           least == log2Ceil(size)
           suitable == SuitableBins(h, amount)
<1>1. /\ size \in Nat \ {0} /\ size = pow2[least] /\ least \in Nat
      /\ FRAGMENT_SIZE_MIN * size >= amount + O1HEAP_ALIGNMENT
  BY FragmentSizeFits, Log2Ceil
<1>2. /\ F \subseteq Fragments(h) /\ Lists(bins, Bins(h), F, bin)
      /\ h.nonempty = {b \in Bins(h) : bins[b] # <<>>}
      /\ h.capacity \in Nat
  BY DEF Binned, IsHeap
<1>3. ASSUME NEW f \in F
      PROVE  /\ h.fragments[f].size \in Nat \ {0} /\ bin[f] = log2Floor(h.fragments[f].size)
             /\ bin[f] \in Nat
             /\ bin[f] >= least <=> h.fragments[f].size >= size
  <2>1. f \in Places(h) /\ h.fragments[f].size \in Nat \ {0}
    BY <1>2 DEF Fragments, IsHeap, Headers
  <2>2. bin[f] = log2Floor(h.fragments[f].size)
    BY <2>1 DEF BinOf
  <2>3. bin[f] \in Nat /\ (least <= bin[f] <=> pow2[least] <= h.fragments[f].size)
    BY <1>1, <2>1, <2>2, Log2Floor
  <2> QED
    BY <1>1, <2>1, <2>2, <2>3
<1>4. suitable = {b \in h.nonempty : /\ amount <= FRAGMENT_SIZE_MIN * h.capacity - O1HEAP_ALIGNMENT
                                     /\ b >= least}
  BY DEF SuitableBins
<1> HIDE DEF F, size, bin, least, bins, suitable
<1>5. ASSUME suitable # {}
      PROVE  Chosen(h, amount) \in F /\ h.fragments[Chosen(h, amount)].size >= size
  <2> DEFINE b == Min(suitable)
  <2>1. b \in suitable
    <3>1. suitable \in SUBSET Nat
      BY <1>2, <1>4, Log2Ceil DEF Bins
    <3> QED
      BY <1>5, <3>1, LeastMember
  <2> HIDE DEF b
  <2>2. b \in Bins(h) /\ bins[b] # <<>> /\ b >= least
    BY <1>2, <1>4, <2>1
  <2>3. bins[b] \in Seq(F) /\ \A i \in 1 .. Len(bins[b]) : bin[bins[b][i]] = b
    BY <1>2, <2>2 DEF Lists
  <2>4. 1 \in 1 .. Len(bins[b]) /\ Head(bins[b]) = bins[b][1]
    BY <2>2, <2>3, EmptySeq
  <2>5. Head(bins[b]) \in F /\ bin[Head(bins[b])] = b
    BY <2>3, <2>4, ElementOfSeq
  <2>6. Chosen(h, amount) = Head(bins[b])
    BY DEF Chosen, b, bins, suitable
  <2> QED
    BY <1>3, <2>2, <2>5, <2>6
<1>6. ASSUME NEW f \in F, h.fragments[f].size >= size
      PROVE  suitable # {}
  <2>1. bin[f] >= least /\ bin[f] \in Bins(h)
    BY <1>2, <1>3, <1>6 DEF Lists
  <2>2. bins[bin[f]] # <<>>
    BY <1>2, EmptySeq DEF Lists
  <2>3. h.fragments[f].size <= h.capacity
    BY DEF F
  <2>4. amount <= FRAGMENT_SIZE_MIN * h.capacity - O1HEAP_ALIGNMENT
    BY <1>1, <1>2, <1>3, <1>6, <2>3 DEF FRAGMENT_SIZE_MIN, O1HEAP_ALIGNMENT
  <2> QED
    BY <1>2, <1>4, <2>1, <2>2, <2>4
<1>7. Allocates(h, amount) <=> suitable # {}
  BY DEF Allocates, suitable
<1> QED
  BY <1>5, <1>6, <1>7 DEF F, size

(* Bins are apart from the fragments.                                      *)
LEMMA Rebin ==
    ASSUME NEW h, NEW f, IsHeap(h)
    PROVE  /\ IsHeap(rebin(h, f)) /\ IsHeap(unbin(h, f))
           /\ rebin(h, f).capacity = h.capacity /\ unbin(h, f).capacity = h.capacity
           /\ rebin(h, f).fragments = h.fragments /\ unbin(h, f).fragments = h.fragments
<1>1. /\ rebin(h, f).capacity = h.capacity /\ rebin(h, f).fragments = h.fragments
      /\ DOMAIN rebin(h, f) = DOMAIN h
  BY DEF rebin, IsHeap
<1>2. /\ unbin(h, f).capacity = h.capacity /\ unbin(h, f).fragments = h.fragments
      /\ DOMAIN unbin(h, f) = DOMAIN h
  BY SMTT(20) DEF unbin, IsHeap
<1> QED
  BY <1>1, <1>2 DEF IsHeap, Headers

(* What interlink writes.                                                  *)
LEMMA Interlink ==
    ASSUME NEW h, IsHeap(h),
           NEW left \in Places(h) \cup {None}, NEW right \in Places(h) \cup {None}
    PROVE  LET i == interlink(h, left, right) IN
           /\ IsHeap(i) /\ i.capacity = h.capacity
           /\ \A g \in Places(h) :
                /\ i.fragments[g].size = h.fragments[g].size
                /\ i.fragments[g].used = h.fragments[g].used
                /\ i.fragments[g].next = IF g = left THEN right ELSE h.fragments[g].next
                /\ i.fragments[g].prev = IF g = right THEN left ELSE h.fragments[g].prev
<1> DEFINE i == interlink(h, left, right)
           next(g) == IF g = left THEN right ELSE h.fragments[g].next
           prev(g) == IF g = right THEN left ELSE h.fragments[g].prev
<1>1. /\ i.capacity = h.capacity
      /\ i.fragments = [f \in Places(h) |->
            [h.fragments[f] EXCEPT !.next = next(f), !.prev = prev(f)]]
      /\ DOMAIN i = DOMAIN h
  BY DEF interlink, IsHeap
<1>2. ASSUME NEW g \in Places(h)
      PROVE  /\ i.fragments[g] \in Headers(h)
             /\ i.fragments[g].size = h.fragments[g].size
             /\ i.fragments[g].used = h.fragments[g].used
             /\ i.fragments[g].next = next(g)
             /\ i.fragments[g].prev = prev(g)
  <2>1. i.fragments[g] = [h.fragments[g] EXCEPT !.next = next(g), !.prev = prev(g)]
    BY <1>1, Zenon
  <2>2. h.fragments[g] \in Headers(h)
    BY DEF IsHeap
  <2>3. next(g) \in Places(h) \cup {None} /\ prev(g) \in Places(h) \cup {None}
    BY <2>2 DEF Headers
  <2> DEFINE e == h.fragments[g]
             x == i.fragments[g]
             n == next(g)
             p == prev(g)
  <2>4. /\ e \in Headers(h) /\ x = [e EXCEPT !.next = n, !.prev = p]
        /\ n \in Places(h) \cup {None} /\ p \in Places(h) \cup {None}
    BY <2>1, <2>2, <2>3
  <2> HIDE DEF e, x, n, p
  <2>5. x.used = e.used /\ e.used \in BOOLEAN
    BY <2>4, SMT DEF Headers
  <2>6. x.size = e.size /\ x.next = n /\ x.prev = p
    BY <2>4 DEF Headers
  <2>7. x = [size |-> x.size, used |-> x.used, prev |-> x.prev, next |-> x.next]
    BY <2>4 DEF Headers
  <2>8. x \in Headers(h)
    BY <2>4, <2>5, <2>6, <2>7 DEF Headers
  <2> QED
    BY <2>5, <2>6, <2>8, Zenon DEF e, x, n, p
<1>3. IsHeap(i)
  <2>1. i.capacity = h.capacity /\ DOMAIN i = DOMAIN h /\ DOMAIN i.fragments = Places(h)
    BY <1>1
  <2>2. i.fragments = [g \in Places(h) |-> i.fragments[g]]
    BY <1>1
  <2> HIDE DEF i
  <2> QED
    BY <1>2, <2>1, <2>2 DEF IsHeap, Headers
<1> QED
  BY <1>1, <1>2, <1>3

(* Only one header is written when a fragment is taken.                    *)
LEMMA Take ==
    ASSUME NEW h, IsHeap(h), NEW f \in Places(h), NEW size \in Nat
    PROVE  LET k == Taken(h, f, size) IN
           /\ IsHeap(k) /\ k.capacity = h.capacity
           /\ \A g \in Places(h) : g # f => k.fragments[g] = h.fragments[g]
           /\ k.fragments[f].size = size /\ k.fragments[f].used
           /\ k.fragments[f].next = h.fragments[f].next
           /\ k.fragments[f].prev = h.fragments[f].prev
<1> DEFINE k == Taken(h, f, size)
           e == h.fragments[f]
           x == k.fragments[f]
<1>1. /\ k.capacity = h.capacity /\ DOMAIN k = DOMAIN h
      /\ DOMAIN k.fragments = Places(h)
      /\ k.fragments = [g \in Places(h) |-> k.fragments[g]]
      /\ \A g \in Places(h) : g # f => k.fragments[g] = h.fragments[g]
      /\ x = [e EXCEPT !.size = size, !.used = TRUE]
  BY DEF Taken, IsHeap
<1>2. e \in Headers(h)
  BY DEF IsHeap
<1> HIDE DEF x, e
<1>3. x.used = TRUE
  BY <1>1, <1>2, SMT DEF Headers
<1>4. x.size = size /\ x.next = e.next /\ x.prev = e.prev
  BY <1>1, <1>2 DEF Headers
<1>5. x = [size |-> x.size, used |-> x.used, prev |-> x.prev, next |-> x.next]
  BY <1>1, <1>2 DEF Headers
<1>6. x \in Headers(h)
  BY <1>2, <1>3, <1>4, <1>5 DEF Headers
<1>7. IsHeap(k)
  <2> USE DEF x
  <2> HIDE DEF k
  <2> QED
    BY <1>1, <1>6 DEF IsHeap, Headers
<1> QED
  BY <1>1, <1>3, <1>4, <1>7 DEF x, e

(* The header of a leftover.                                               *)
LEMMA Split ==
    ASSUME NEW h, IsHeap(h), NEW f \in Places(h), NEW size \in Nat
    PROVE  LET k == [h EXCEPT !.fragments[f] = Unlinked(size)] IN
           /\ IsHeap(k) /\ k.capacity = h.capacity
           /\ \A g \in Places(h) : g # f => k.fragments[g] = h.fragments[g]
           /\ k.fragments[f].size = size /\ ~k.fragments[f].used
           /\ k.fragments[f].next = None /\ k.fragments[f].prev = None
<1> DEFINE x == Unlinked(size)
           k == [h EXCEPT !.fragments[f] = Unlinked(size)]
<1>1. x \in Headers(h)
  BY DEF Headers, Unlinked
<1>2. x.size = size /\ x.next = None /\ x.prev = None
  BY DEF Unlinked
<1>3. ~x.used
  BY DEF Unlinked
<1>4. /\ k.capacity = h.capacity /\ DOMAIN k = DOMAIN h
      /\ k.fragments = [h.fragments EXCEPT ![f] = x]
  BY DEF IsHeap
<1> HIDE DEF k, x
<1>5. /\ \A g \in Places(h) : g # f => k.fragments[g] = h.fragments[g]
      /\ k.fragments[f] = x
      /\ k.fragments \in [Places(h) -> Headers(h)]
  BY <1>1, <1>4 DEF IsHeap
<1>6. IsHeap(k)
  BY <1>4, <1>5 DEF IsHeap, Headers
<1> QED
  BY <1>2, <1>3, <1>4, <1>5, <1>6 DEF k

(* Only one header is written when a fragment is no longer used.           *)
LEMMA Unuse ==
    ASSUME NEW h, IsHeap(h), NEW f \in Places(h)
    PROVE  LET k == Unused(h, f) IN
           /\ IsHeap(k) /\ k.capacity = h.capacity
           /\ \A g \in Places(h) : g # f => k.fragments[g] = h.fragments[g]
           /\ k.fragments[f].size = h.fragments[f].size /\ ~k.fragments[f].used
           /\ k.fragments[f].next = h.fragments[f].next
           /\ k.fragments[f].prev = h.fragments[f].prev
<1> DEFINE k == Unused(h, f)
           e == h.fragments[f]
           x == k.fragments[f]
<1>1. /\ k.capacity = h.capacity /\ DOMAIN k = DOMAIN h
      /\ DOMAIN k.fragments = Places(h)
      /\ k.fragments = [g \in Places(h) |-> k.fragments[g]]
      /\ \A g \in Places(h) : g # f => k.fragments[g] = h.fragments[g]
      /\ x = [e EXCEPT !.used = FALSE]
  BY DEF Unused, IsHeap
<1>2. e \in Headers(h)
  BY DEF IsHeap
<1> HIDE DEF x, e
<1>3. x.used = FALSE
  BY <1>1, <1>2, SMT DEF Headers
<1>4. x.size = e.size /\ x.next = e.next /\ x.prev = e.prev
  BY <1>1, <1>2 DEF Headers
<1>5. x = [size |-> x.size, used |-> x.used, prev |-> x.prev, next |-> x.next]
  BY <1>1, <1>2 DEF Headers
<1>6. x \in Headers(h)
  BY <1>2, <1>3, <1>4, <1>5 DEF Headers
<1>7. IsHeap(k)
  <2> USE DEF x
  <2> HIDE DEF k
  <2> QED
    BY <1>1, <1>6 DEF IsHeap, Headers
<1> QED
  BY <1>1, <1>3, <1>4, <1>7 DEF x, e

-----------------------------------------------------------------------------
(* The chain is made of headers only.                                      *)
LEMMA SameHeaders ==
    ASSUME NEW h, NEW k, k.capacity = h.capacity,
           \A g \in Places(h) : /\ k.fragments[g].size = h.fragments[g].size
                                /\ k.fragments[g].next = h.fragments[g].next
                                /\ k.fragments[g].prev = h.fragments[g].prev
    PROVE  Fragments(k) = Fragments(h) /\ (Chained(h) => Chained(k))
<1>1. Fragments(k) = Fragments(h)
  BY DEF Fragments
<1>2. Chained(h) => Chained(k)
  BY <1>1, SMTT(20) DEF Chained, Fragments
<1> QED
  BY <1>1, <1>2

(* Allocating from a free fragment that is large enough takes as much of   *)
(* it as is needed, leaves every other fragment as it was, and keeps the   *)
(* chain linked.                                                           *)
THEOREM AllocationKeepsTheChain ==
    ASSUME NEW h, IsHeap(h), Chained(h), NEW amount,
           Chosen(h, amount) \in FreeFragments(h),
           FragmentSize(amount) \in 1 .. h.fragments[Chosen(h, amount)].size
    PROVE  LET k == o1heapAllocate(h, amount)
               f == Chosen(h, amount)
               rest == f + FragmentSize(amount)
           IN /\ IsHeap(k) /\ k.capacity = h.capacity /\ Chained(k)
              /\ k.fragments[f].used /\ k.fragments[f].size = FragmentSize(amount)
              /\ \A g \in Fragments(h) \ {f} :
                   /\ k.fragments[g].size = h.fragments[g].size
                   /\ k.fragments[g].used = h.fragments[g].used
              /\ Fragments(k) = IF FragmentSize(amount) = h.fragments[f].size
                                THEN Fragments(h) ELSE Fragments(h) \cup {rest}
              /\ FragmentSize(amount) # h.fragments[f].size =>
                   rest \notin Fragments(h) /\ ~k.fragments[rest].used
<1> DEFINE k == o1heapAllocate(h, amount)
           f == Chosen(h, amount)
           size == FragmentSize(amount)
           leftover == h.fragments[f].size - size
           rest == f + size
           next == h.fragments[f].next
           taken == Taken(unbin(h, f), f, size)
           split == [taken EXCEPT !.fragments[rest] = Unlinked(leftover)]
           half == interlink(split, rest, next)
           whole == interlink(half, f, rest)
           Goal == /\ IsHeap(k) /\ k.capacity = h.capacity /\ Chained(k)
                   /\ k.fragments[f].used /\ k.fragments[f].size = size
                   /\ \A g \in Fragments(h) \ {f} :
                        /\ k.fragments[g].size = h.fragments[g].size
                        /\ k.fragments[g].used = h.fragments[g].used
                   /\ Fragments(k) = IF leftover = 0 THEN Fragments(h)
                                     ELSE Fragments(h) \cup {rest}
                   /\ leftover # 0 => rest \notin Fragments(h) /\ ~k.fragments[rest].used
<1>1. /\ f \in Places(h) /\ h.fragments[f].size \in Nat /\ h.fragments[f].size > 0
      /\ next \in Places(h) \cup {None}
      /\ size \in Nat \ {0} /\ leftover \in Nat
      /\ f \in Fragments(h)
  BY DEF FreeFragments, Fragments, IsHeap, Headers
<1>2. IF leftover = 0 THEN k = taken ELSE k = rebin(whole, rest)
  BY DEF o1heapAllocate
<1>3. /\ IsHeap(taken) /\ taken.capacity = h.capacity
      /\ \A g \in Places(h) : g # f => taken.fragments[g] = h.fragments[g]
      /\ taken.fragments[f].size = size
      /\ taken.fragments[f].next = next
      /\ taken.fragments[f].prev = h.fragments[f].prev
      /\ taken.fragments[f].used
  <2>1. IsHeap(unbin(h, f)) /\ unbin(h, f).capacity = h.capacity
        /\ unbin(h, f).fragments = h.fragments
    BY Rebin
  <2> DEFINE u == unbin(h, f)
  <2> HIDE DEF u
  <2>2. IsHeap(u) /\ f \in Places(u) /\ size \in Nat
    BY <1>1, <2>1 DEF u
  <2> QED
    BY <2>1, <2>2, Take DEF u
<1> HIDE DEF taken, split, half, whole, k, f, size, next
<1>4. ASSUME leftover = 0 PROVE Goal
  <2>1. k = taken
    BY <1>2, <1>4
  <2>2. \A g \in Places(h) : /\ taken.fragments[g].size = h.fragments[g].size
                              /\ taken.fragments[g].next = h.fragments[g].next
                              /\ taken.fragments[g].prev = h.fragments[g].prev
    BY <1>1, <1>3, <1>4 DEF next
  <2>3. taken.capacity = h.capacity
    BY <1>3
  <2>5. Chained(taken) /\ Fragments(taken) = Fragments(h)
    BY <2>2, <2>3, SameHeaders
  <2>6. \A g \in Fragments(h) \ {f} : taken.fragments[g] = h.fragments[g]
    BY <1>3 DEF Fragments
  <2>7. \A g \in Fragments(h) \ {f} : /\ taken.fragments[g].size = h.fragments[g].size
                                      /\ taken.fragments[g].used = h.fragments[g].used
    BY <2>6, Zenon
  <2> QED
    BY <1>3, <1>4, <2>1, <2>5, <2>7, Zenon
<1>5. ASSUME leftover > 0 PROVE Goal
  <2> DEFINE end == f + h.fragments[f].size
  <2>1. /\ end \in Nat /\ end <= h.capacity
        /\ next = IF end = h.capacity THEN None ELSE end
        /\ \A g \in Fragments(h) : g > f => g >= end
        /\ end # h.capacity => end \in Fragments(h) /\ h.fragments[end].prev = f
    <3>1. /\ \A g \in Fragments(h) : g > f => g >= end
          /\ IF end = h.capacity THEN h.fragments[f].next = None
             ELSE /\ end \in Fragments(h)
                  /\ h.fragments[f].next = end /\ h.fragments[end].prev = f
      BY <1>1 DEF Chained
    <3>2. h.capacity \in Nat /\ end \in Nat
      BY <1>1 DEF IsHeap
    <3>3. end # h.capacity => end <= h.capacity
      BY <3>1, <3>2 DEF Fragments
    <3> QED
      BY <3>1, <3>2, <3>3 DEF next
  <2>2. /\ rest \in Places(h) /\ rest # f /\ rest + leftover = end
        /\ rest \notin Fragments(h) /\ rest # None /\ f # None /\ rest # next /\ f # next
    <3>1. rest \in Nat /\ rest > f /\ rest < end /\ rest + leftover = end /\ f \in Nat
      BY <1>1, <1>5, <2>1
    <3>2. h.capacity \in Nat
      BY DEF IsHeap
    <3>3. rest \in Places(h) /\ rest \notin Fragments(h)
      BY <2>1, <3>1, <3>2
    <3> QED
      BY <2>1, <3>1, <3>3, NoneAssumption
  <2> HIDE DEF rest, leftover
  <2>3. /\ IsHeap(split) /\ split.capacity = h.capacity
        /\ \A g \in Places(h) : g # rest => split.fragments[g] = taken.fragments[g]
        /\ split.fragments[rest].size = leftover
        /\ split.fragments[rest].next = None /\ split.fragments[rest].prev = None
        /\ ~split.fragments[rest].used
    <3>1. IsHeap(taken) /\ rest \in Places(taken) /\ leftover \in Nat
      BY <1>1, <1>3, <2>2
    <3> QED
      BY <1>3, <3>1, Split DEF split
  <2>4. /\ IsHeap(half) /\ half.capacity = h.capacity
        /\ \A g \in Places(h) :
             /\ half.fragments[g].size = split.fragments[g].size
             /\ half.fragments[g].used = split.fragments[g].used
             /\ half.fragments[g].next = IF g = rest THEN next ELSE split.fragments[g].next
             /\ half.fragments[g].prev = IF g = next THEN rest ELSE split.fragments[g].prev
    <3>1. IsHeap(split) /\ rest \in Places(split) \cup {None} /\ next \in Places(split) \cup {None}
      BY <1>1, <2>2, <2>3
    <3> QED
      BY <2>3, <3>1, Interlink DEF half
  <2>5. /\ IsHeap(whole) /\ whole.capacity = h.capacity
        /\ \A g \in Places(h) :
             /\ whole.fragments[g].size = half.fragments[g].size
             /\ whole.fragments[g].used = half.fragments[g].used
             /\ whole.fragments[g].next = IF g = f THEN rest ELSE half.fragments[g].next
             /\ whole.fragments[g].prev = IF g = rest THEN f ELSE half.fragments[g].prev
    <3>1. IsHeap(half) /\ rest \in Places(half) \cup {None} /\ f \in Places(half) \cup {None}
      BY <1>1, <2>2, <2>4
    <3> QED
      BY <2>4, <3>1, Interlink DEF whole
  <2>6. IsHeap(k) /\ k.capacity = h.capacity /\ k.fragments = whole.fragments
    <3>1. k = rebin(whole, rest)
      BY <1>1, <1>2, <1>5
    <3> QED
      BY <2>5, <3>1, Rebin
  <2>7. \A g \in Places(h) :
          /\ k.fragments[g].size = IF g = f THEN size ELSE
                                   IF g = rest THEN leftover ELSE h.fragments[g].size
          /\ k.fragments[g].next = IF g = f THEN rest ELSE
                                   IF g = rest THEN next ELSE h.fragments[g].next
          /\ k.fragments[g].prev = IF g = rest THEN f ELSE
                                   IF g = next THEN rest ELSE h.fragments[g].prev
    <3>1. \A g \in Places(h) \ {f, rest} : split.fragments[g] = h.fragments[g]
      BY <1>3, <2>3
    <3>2. split.fragments[f].size = size
      BY <1>1, <1>3, <2>2, <2>3
    <3>3. split.fragments[f].prev = h.fragments[f].prev
      BY <1>1, <1>3, <2>2, <2>3
    <3> QED
      BY <1>1, <2>2, <2>3, <2>4, <2>5, <2>6, <3>1, <3>2, <3>3
  <2>8. Fragments(k) = Fragments(h) \cup {rest}
    BY <1>1, <1>5, <2>2, <2>6, <2>7 DEF Fragments
  <2>9. ASSUME NEW g \in Fragments(h) \ {f}
        PROVE  k.fragments[g].size = h.fragments[g].size /\ k.fragments[g].used = h.fragments[g].used
    <3>1. g \in Places(h) /\ g # f /\ g # rest
      BY <2>2 DEF Fragments
    <3>2. split.fragments[g] = h.fragments[g]
      BY <1>3, <2>3, <3>1
    <3>3. half.fragments[g].used = split.fragments[g].used
      BY <2>4, <3>1, Zenon
    <3>4. half.fragments[g].size = split.fragments[g].size
      BY <2>4, <3>1
    <3> QED
      BY <2>5, <2>6, <3>1, <3>2, <3>3, <3>4, Zenon
  <2>10. k.fragments[f].used
    <3>1. split.fragments[f] = taken.fragments[f]
      BY <1>1, <2>2, <2>3
    <3>2. half.fragments[f].used = split.fragments[f].used
      BY <1>1, <2>4, Zenon
    <3>3. whole.fragments[f].used = half.fragments[f].used
      BY <1>1, <2>5, Zenon
    <3> QED
      BY <1>3, <2>6, <3>1, <3>2, <3>3, Zenon
  <2>11. 0 \in Fragments(k)
    BY <2>8 DEF Chained
  <2>14. ASSUME NEW g \in Fragments(k)
         PROVE  LET p == k.fragments[g].prev IN
                IF g = 0 THEN p = None ELSE p \in Fragments(k) /\ k.fragments[p].next = g
    <3>1. next # 0 /\ rest # 0 /\ rest # f /\ next # f
      BY <1>1, <1>5, <2>1, <2>2, NoneAssumption
    <3>2. CASE g = rest
      BY <1>1, <2>2, <2>7, <2>8, <3>1, <3>2, SMTT(20)
    <3>3. CASE g = next
      BY <1>1, <2>1, <2>2, <2>7, <2>8, <3>1, <3>3, NoneAssumption
    <3>4. CASE g \notin {rest, next}
      <4> DEFINE p == h.fragments[g].prev
      <4>1. g \in Fragments(h) /\ k.fragments[g].prev = p
        BY <2>2, <2>7, <2>8, <3>4 DEF Fragments
      <4>2. IF g = 0 THEN p = None ELSE p \in Fragments(h) /\ h.fragments[p].next = g
        BY <4>1 DEF Chained
      <4>3. g # 0 => p \in Places(h) /\ p # f /\ p # rest
        BY <2>2, <3>4, <4>2 DEF Fragments, next
      <4> HIDE DEF p
      <4> QED
        BY <2>7, <2>8, <4>1, <4>2, <4>3
    <3> QED
      BY <3>2, <3>3, <3>4
  <2>12. ASSUME NEW g \in Fragments(k)
         PROVE  LET e == g + k.fragments[g].size IN
                /\ \A i \in Fragments(k) : i > g => i >= e
                /\ IF e = h.capacity
                   THEN k.fragments[g].next = None
                   ELSE /\ e \in Fragments(k)
                        /\ k.fragments[g].next = e /\ k.fragments[e].prev = g
    <3> DEFINE e == g + k.fragments[g].size
    <3>1. CASE g = f
      <4>1. e = rest /\ k.fragments[g].next = rest /\ k.fragments[rest].prev = f
        BY <1>1, <2>2, <2>7, <3>1 DEF rest
      <4>2. e # h.capacity
        BY <2>2, <4>1
      <4>3. \A i \in Fragments(k) : i > g => i >= e
        BY <1>1, <1>5, <2>1, <2>2, <2>8, <3>1, <4>1 DEF Fragments, leftover
      <4> QED
        BY <2>8, <3>1, <4>1, <4>2, <4>3
    <3>2. CASE g = rest
      <4>1. e = end /\ k.fragments[g].next = next
        BY <2>2, <2>7, <3>2
      <4>2. \A i \in Fragments(k) : i > g => i >= e
        BY <1>1, <2>1, <2>2, <2>8, <3>2, <4>1 DEF Fragments, rest
      <4>3. end # h.capacity => end \in Fragments(k) /\ k.fragments[end].prev = rest
        BY <2>1, <2>2, <2>7, <2>8 DEF Fragments
      <4> QED
        BY <2>1, <3>2, <4>1, <4>2, <4>3
    <3>3. CASE g \in Fragments(h) \ {f}
      <4> DEFINE d == g + h.fragments[g].size
      <4>1. /\ \A i \in Fragments(h) : i > g => i >= d
            /\ IF d = h.capacity
               THEN h.fragments[g].next = None
               ELSE d \in Fragments(h) /\ h.fragments[g].next = d /\ h.fragments[d].prev = g
        BY <3>3 DEF Chained
      <4>2. e = d /\ k.fragments[g].next = h.fragments[g].next
        BY <2>2, <2>7, <3>3 DEF Fragments
      <4>3. f \in Nat /\ g \in Nat /\ d \in Nat /\ rest \in Nat
        BY <1>1, <2>2, <3>3, SMTT(20) DEF Fragments, IsHeap, Headers
      <4>4. rest > g => rest >= d
        BY <1>1, <1>5, <2>1, <2>2, <3>3, <4>1, <4>3 DEF rest, leftover
      <4>5. d \in Fragments(h) => d # next /\ d # rest
        <5>1. d \in Fragments(h) => d # None /\ d # h.capacity
          BY <4>3, NoneAssumption DEF Fragments, IsHeap
        <5> QED
          BY <2>1, <2>2, <3>3, <4>1, <5>1
      <4> QED
        BY <2>7, <2>8, <4>1, <4>2, <4>4, <4>5 DEF Fragments
    <3> QED
      BY <2>8, <3>1, <3>2, <3>3
  <2>13. Chained(k)
    BY <2>6, <2>11, <2>12, <2>14 DEF Chained
  <2>15. ~k.fragments[rest].used
    <3>1. half.fragments[rest].used = split.fragments[rest].used
      BY <2>2, <2>4, Zenon
    <3>2. whole.fragments[rest].used = half.fragments[rest].used
      BY <2>2, <2>5, Zenon
    <3> QED
      BY <2>3, <2>6, <3>1, <3>2, Zenon
  <2>16. leftover # 0
    BY <1>1, <1>5
  <2> QED
    BY <1>1, <2>2, <2>6, <2>7, <2>8, <2>9, <2>10, <2>13, <2>15, <2>16

<1>6. leftover = 0 <=> size = h.fragments[f].size
  BY <1>1
<1>7. Goal
  BY <1>1, <1>4, <1>5
<1> QED
  BY <1>6, <1>7 DEF k, f, size, rest

-----------------------------------------------------------------------------
(* What is written when two fragments are joined.                          *)
LEMMA JoinWrites ==
    ASSUME NEW h, IsHeap(h), NEW left \in Places(h), NEW right \in Places(h), left # right
    PROVE  LET k == Joined(h, left, right)
               next == h.fragments[right].next
           IN /\ IsHeap(k) /\ k.capacity = h.capacity
              /\ k.fragments[right].size = 0
              /\ k.fragments[left].size = h.fragments[left].size + h.fragments[right].size
              /\ k.fragments[left].used = h.fragments[left].used
              /\ k.fragments[left].next = next
              /\ k.fragments[left].prev = IF left = next THEN left ELSE h.fragments[left].prev
              /\ \A g \in Places(h) \ {left, right} :
                   /\ k.fragments[g].size = h.fragments[g].size
                   /\ k.fragments[g].used = h.fragments[g].used
                   /\ k.fragments[g].next = h.fragments[g].next
                   /\ k.fragments[g].prev = IF g = next THEN left ELSE h.fragments[g].prev
<1> DEFINE next == h.fragments[right].next
           size == h.fragments[left].size + h.fragments[right].size
           i == interlink(h, left, next)
           k == Joined(h, left, right)
           e == i.fragments[left]
           x == [e EXCEPT !.size = size]
<1>1. next \in Places(h) \cup {None} /\ size \in Nat /\ left \in Places(h) \cup {None}
  BY DEF IsHeap, Headers
<1>2. /\ IsHeap(i) /\ i.capacity = h.capacity
      /\ \A g \in Places(h) :
           /\ i.fragments[g].size = h.fragments[g].size
           /\ i.fragments[g].used = h.fragments[g].used
           /\ i.fragments[g].next = IF g = left THEN next ELSE h.fragments[g].next
           /\ i.fragments[g].prev = IF g = next THEN left ELSE h.fragments[g].prev
  <2> HIDE DEF next
  <2> QED
    BY <1>1, Interlink
<1>3. k = [i EXCEPT !.fragments[left] = x, !.fragments[right] = Dropped]
  BY DEF Joined
<1> HIDE DEF i, k, next, size
<1>4. e \in Headers(h)
  BY <1>2 DEF IsHeap, Headers
<1> HIDE DEF e
<1>5. x.used = e.used
  BY <1>4, SMT DEF Headers
<1>6. x.size = size /\ x.next = e.next /\ x.prev = e.prev
  BY <1>4 DEF Headers
<1>7. x = [size |-> x.size, used |-> x.used, prev |-> x.prev, next |-> x.next]
  BY <1>4 DEF Headers
<1>8. x \in Headers(h)
  BY <1>1, <1>4, <1>5, <1>6, <1>7 DEF Headers
<1>9. Dropped \in Headers(h) /\ Dropped.size = 0
  BY DEF Headers, Dropped, Unlinked
<1> HIDE DEF x
<1>10. /\ k.capacity = h.capacity /\ DOMAIN k = DOMAIN i
       /\ k.fragments = [[i.fragments EXCEPT ![left] = x] EXCEPT ![right] = Dropped]
  BY <1>2, <1>3 DEF IsHeap
<1>11. /\ k.fragments \in [Places(h) -> Headers(h)]
       /\ k.fragments[left] = x /\ k.fragments[right] = Dropped
       /\ \A g \in Places(h) \ {left, right} : k.fragments[g] = i.fragments[g]
  <2> DEFINE s == i.fragments
             m == [s EXCEPT ![left] = x]
  <2>1. s \in [Places(h) -> Headers(h)]
    BY <1>2 DEF IsHeap, Headers
  <2>2. k.fragments = [m EXCEPT ![right] = Dropped]
    BY <1>10
  <2> HIDE DEF s
  <2>3. /\ m \in [Places(h) -> Headers(h)] /\ m[left] = x
        /\ \A g \in Places(h) \ {left} : m[g] = s[g]
    BY <1>8, <2>1
  <2> HIDE DEF m
  <2>4. /\ k.fragments \in [Places(h) -> Headers(h)]
        /\ k.fragments[right] = Dropped
        /\ \A g \in Places(h) \ {right} : k.fragments[g] = m[g]
    BY <1>9, <2>2, <2>3
  <2> QED
    BY <2>3, <2>4 DEF s
<1>12. IsHeap(k)
  BY <1>2, <1>10, <1>11 DEF IsHeap, Headers
<1>13. k.fragments[left].used = h.fragments[left].used
  <2>1. e.used = h.fragments[left].used
    BY <1>2, Zenon DEF e
  <2> QED
    BY <1>5, <1>11, <2>1, Zenon
<1>14. ASSUME NEW g \in Places(h) \ {left, right}
       PROVE  k.fragments[g].used = h.fragments[g].used
  BY <1>2, <1>11, Zenon
<1>15. /\ k.fragments[right].size = 0
       /\ k.fragments[left].size = size /\ k.fragments[left].next = next
       /\ k.fragments[left].prev = IF left = next THEN left ELSE h.fragments[left].prev
       /\ \A g \in Places(h) \ {left, right} :
            /\ k.fragments[g].size = h.fragments[g].size
            /\ k.fragments[g].next = h.fragments[g].next
            /\ k.fragments[g].prev = IF g = next THEN left ELSE h.fragments[g].prev
  BY <1>2, <1>6, <1>9, <1>11, SMTT(20) DEF e
<1> QED
  BY <1>10, <1>12, <1>13, <1>14, <1>15, Zenon DEF k, next, size

(* Joining a fragment with its right neighbour keeps the chain linked.     *)
LEMMA Join ==
    ASSUME NEW h, IsHeap(h), Chained(h), NEW left \in Fragments(h), NEW right \in Fragments(h),
           h.fragments[left].next = right
    PROVE  LET k == Joined(h, left, right) IN
           /\ IsHeap(k) /\ k.capacity = h.capacity /\ Chained(k)
           /\ Fragments(k) = Fragments(h) \ {right}
           /\ right = left + h.fragments[left].size
           /\ k.fragments[left].size = h.fragments[left].size + h.fragments[right].size
           /\ k.fragments[left].prev = h.fragments[left].prev
           /\ \A g \in Fragments(k) : k.fragments[g].used = h.fragments[g].used
           /\ \A g \in Fragments(k) \ {left} : k.fragments[g].size = h.fragments[g].size
<1> DEFINE k == Joined(h, left, right)
           end == right + h.fragments[right].size
           next == h.fragments[right].next
<1>1. /\ left \in Places(h) /\ right \in Places(h) /\ h.capacity \in Nat
      /\ \A g \in Places(h) : h.fragments[g].size \in Nat
      /\ h.fragments[left].size > 0 /\ h.fragments[right].size > 0
  BY DEF Fragments, IsHeap, Headers
<1>2. /\ right = left + h.fragments[left].size
      /\ \A g \in Fragments(h) : g > left => g >= right
  <2> DEFINE e == left + h.fragments[left].size
  <2>1. /\ \A g \in Fragments(h) : g > left => g >= e
        /\ IF e = h.capacity THEN h.fragments[left].next = None
           ELSE h.fragments[left].next = e
    BY DEF Chained
  <2>2. right # None
    BY <1>1, NoneAssumption
  <2> HIDE DEF e
  <2>3. e = right
    BY <2>1, <2>2
  <2> QED
    BY <2>1, <2>3 DEF e
<1>3. /\ \A g \in Fragments(h) : g > right => g >= end
      /\ IF end = h.capacity THEN next = None
         ELSE end \in Fragments(h) /\ next = end /\ h.fragments[end].prev = right
  BY DEF Chained
<1>4. left # right /\ left # next /\ right # next /\ left < right /\ right < end /\ end \in Nat
  BY <1>1, <1>2, <1>3, NoneAssumption
<1>5. /\ IsHeap(k) /\ k.capacity = h.capacity
      /\ k.fragments[right].size = 0
      /\ k.fragments[left].size = h.fragments[left].size + h.fragments[right].size
      /\ k.fragments[left].used = h.fragments[left].used
      /\ k.fragments[left].next = next
      /\ k.fragments[left].prev = h.fragments[left].prev
      /\ \A g \in Places(h) \ {left, right} :
           /\ k.fragments[g].size = h.fragments[g].size
           /\ k.fragments[g].used = h.fragments[g].used
           /\ k.fragments[g].next = h.fragments[g].next
           /\ k.fragments[g].prev = IF g = next THEN left ELSE h.fragments[g].prev
  BY <1>1, <1>4, JoinWrites
<1> HIDE DEF k, end, next
<1>6. Fragments(k) = Fragments(h) \ {right}
  BY <1>1, <1>4, <1>5 DEF Fragments
<1>7. ASSUME NEW g \in Fragments(k) PROVE k.fragments[g].used = h.fragments[g].used
  BY <1>5, <1>6, Zenon DEF Fragments
<1>8. \A g \in Fragments(k) \ {left} : k.fragments[g].size = h.fragments[g].size
  BY <1>5, <1>6 DEF Fragments
<1>9. 0 \in Fragments(k)
  BY <1>1, <1>4, <1>6 DEF Chained, Fragments
<1>12. ASSUME NEW g \in Fragments(k)
       PROVE  LET p == k.fragments[g].prev IN
              IF g = 0 THEN p = None ELSE p \in Fragments(k) /\ k.fragments[p].next = g
  <2> DEFINE p == h.fragments[g].prev
  <2>1. g \in Fragments(h) /\ g # right
    BY <1>6
  <2>2. IF g = 0 THEN p = None ELSE p \in Fragments(h) /\ h.fragments[p].next = g
    BY <2>1 DEF Chained
  <2>3. CASE g = next
    <3>1. k.fragments[g].prev = left /\ g # 0
      BY <1>1, <1>3, <1>4, <1>5, <2>1, <2>3, NoneAssumption DEF Fragments
    <3> QED
      BY <1>4, <1>5, <1>6, <2>3, <3>1
  <2>4. CASE g # next
    <3>1. k.fragments[g].prev = p
      BY <1>1, <1>5, <2>1, <2>4 DEF Fragments
    <3>2. g # 0 => p # right /\ p # left
      BY <2>1, <2>2, <2>4 DEF next
    <3>3. g # 0 => k.fragments[p].next = g
      BY <1>5, <2>2, <3>2 DEF Fragments
    <3> QED
      BY <1>6, <2>2, <3>1, <3>2, <3>3
  <2> QED
    BY <2>3, <2>4
<1>10. ASSUME NEW g \in Fragments(k)
       PROVE  LET e == g + k.fragments[g].size IN
              /\ \A i \in Fragments(k) : i > g => i >= e
              /\ IF e = h.capacity
                 THEN k.fragments[g].next = None
                 ELSE /\ e \in Fragments(k)
                      /\ k.fragments[g].next = e /\ k.fragments[e].prev = g
  <2> DEFINE e == g + k.fragments[g].size
  <2>1. CASE g = left
    <3>1. e = end
      BY <1>1, <1>2, <1>5, <2>1 DEF end
    <3>2. \A i \in Fragments(k) : i > left => i >= end
      BY <1>1, <1>2, <1>3, <1>4, <1>6 DEF Fragments
    <3>3. end # h.capacity => end \in Fragments(k) /\ k.fragments[end].prev = left
      BY <1>1, <1>3, <1>4, <1>5, <1>6 DEF Fragments
    <3> QED
      BY <1>3, <1>5, <2>1, <3>1, <3>2, <3>3
  <2>2. CASE g # left
    <3> DEFINE d == g + h.fragments[g].size
    <3>1. /\ \A i \in Fragments(h) : i > g => i >= d
          /\ IF d = h.capacity THEN h.fragments[g].next = None
             ELSE d \in Fragments(h) /\ h.fragments[g].next = d /\ h.fragments[d].prev = g
      BY <1>6 DEF Chained
    <3>2. e = d /\ k.fragments[g].next = h.fragments[g].next
      BY <1>5, <1>6, <2>2 DEF Fragments
    <3>3. d # h.capacity => d # right /\ d # next
      <4>1. g \in Nat /\ d \in Nat /\ g # right
        BY <1>1, <1>6 DEF Fragments
      <4>2. d = right /\ d # h.capacity => g = left
        <5>1. h.fragments[right].prev = left
          BY <1>1, <1>2 DEF Chained, Fragments
        <5> QED
          BY <3>1, <5>1
      <4> QED
        BY <1>3, <2>2, <3>1, <4>1, <4>2, NoneAssumption
    <3>4. d # h.capacity => d \in Fragments(k) /\ k.fragments[d].prev = g
      <4> HIDE DEF d
      <4> QED
        BY <1>5, <1>6, <2>2, <3>1, <3>3 DEF Fragments
    <3> QED
      BY <1>6, <3>1, <3>2, <3>4
  <2> QED
    BY <2>1, <2>2
<1>11. Chained(k)
  BY <1>5, <1>9, <1>10, <1>12, SMTT(20) DEF Chained
<1> QED
  BY <1>2, <1>5, <1>6, <1>7, <1>8, <1>11 DEF k

(* Freeing a fragment joins it with the neighbours that are free, leaves   *)
(* every other fragment as it was, and keeps the chain linked and without  *)
(* two free neighbours.                                                    *)
THEOREM FreeKeepsTheChain ==
    ASSUME NEW h, IsHeap(h), Chained(h), Coalesced(h), NEW f \in Fragments(h), h.fragments[f].used
    PROVE  LET k == o1heapFree(h, f) IN
           /\ IsHeap(k) /\ k.capacity = h.capacity /\ Chained(k) /\ Coalesced(k)
           /\ \A g \in Fragments(h) \ {f} : h.fragments[g].used =>
                /\ g \in Fragments(k) /\ k.fragments[g].used
                /\ k.fragments[g].size = h.fragments[g].size
           /\ \A g \in Fragments(k) : k.fragments[g].used =>
                g \in Fragments(h) \ {f} /\ h.fragments[g].used
           /\ Binned(h, FreeFragments(h)) => Binned(k, FreeFragments(k))
<1> DEFINE prev == h.fragments[f].prev
           next == h.fragments[f].next
           joinLeft == prev # None /\ ~h.fragments[prev].used
           joinRight == next # None /\ ~h.fragments[next].used
           unused == Unused(h, f)
           left == IF joinLeft THEN unbin(unused, prev) ELSE unused
           right == IF joinRight THEN Joined(unbin(left, next), f, next) ELSE left
           k == o1heapFree(h, f)
           end == f + h.fragments[f].size
<1>1. /\ f \in Places(h) /\ h.capacity \in Nat
      /\ prev \in Places(h) \cup {None} /\ next \in Places(h) \cup {None}
      /\ \A g \in Places(h) : h.fragments[g].size \in Nat
  BY DEF Fragments, IsHeap, Headers
<1>2. /\ prev # None => prev \in Fragments(h) /\ prev + h.fragments[prev].size = f
                        /\ h.fragments[prev].next = f
      /\ next # None => next \in Fragments(h) /\ next = end /\ end # h.capacity
      /\ next = None => end = h.capacity
  <2>1. IF f = 0 THEN prev = None ELSE prev \in Fragments(h) /\ h.fragments[prev].next = f
    BY DEF Chained
  <2>2. IF end = h.capacity THEN next = None ELSE end \in Fragments(h) /\ next = end
    BY DEF Chained
  <2>3. prev # None => prev + h.fragments[prev].size = f
    <3> DEFINE e == prev + h.fragments[prev].size
    <3>1. ASSUME prev # None
          PROVE  IF e = h.capacity THEN f = None ELSE f = e
      BY <2>1, <3>1 DEF Chained
    <3> QED
      BY <1>1, <3>1, NoneAssumption
  <2>4. next = None <=> end = h.capacity
    BY <1>1, <2>2, NoneAssumption DEF Fragments
  <2> HIDE DEF end, prev, next
  <2> QED
    BY <2>1, <2>2, <2>3, <2>4, NoneAssumption
<1>3. /\ IsHeap(unused) /\ unused.capacity = h.capacity /\ Chained(unused)
      /\ Fragments(unused) = Fragments(h)
      /\ \A g \in Places(h) : unused.fragments[g].size = h.fragments[g].size
      /\ unused.fragments[f].next = next /\ unused.fragments[f].prev = prev
      /\ ~unused.fragments[f].used
      /\ \A g \in Places(h) \ {f} : unused.fragments[g].used = h.fragments[g].used
  <2>1. /\ IsHeap(unused) /\ unused.capacity = h.capacity
        /\ \A g \in Places(h) : g # f => unused.fragments[g] = h.fragments[g]
        /\ unused.fragments[f].size = h.fragments[f].size /\ ~unused.fragments[f].used
        /\ unused.fragments[f].next = next /\ unused.fragments[f].prev = prev
    BY <1>1, Unuse
  <2> HIDE DEF unused
  <2>2. \A g \in Places(h) : /\ unused.fragments[g].size = h.fragments[g].size
                              /\ unused.fragments[g].next = h.fragments[g].next
                              /\ unused.fragments[g].prev = h.fragments[g].prev
    BY <2>1
  <2>3. Chained(unused) /\ Fragments(unused) = Fragments(h)
    BY <2>1, <2>2, SameHeaders
  <2>4. \A g \in Places(h) \ {f} : unused.fragments[g].used = h.fragments[g].used
    BY <2>1, Zenon
  <2> QED
    BY <2>1, <2>2, <2>3, <2>4
<1> HIDE DEF unused
<1>4. /\ IsHeap(left) /\ left.capacity = h.capacity /\ Chained(left)
      /\ Fragments(left) = Fragments(h) /\ left.fragments = unused.fragments
  <2> DEFINE u == unbin(unused, prev)
  <2>1. /\ IsHeap(u) /\ u.capacity = unused.capacity /\ u.fragments = unused.fragments
    BY <1>3, Rebin
  <2> HIDE DEF u
  <2>2. Chained(u) /\ Fragments(u) = Fragments(unused)
    BY <1>3, <2>1, SameHeaders
  <2>3. left = u \/ left = unused
    BY SMTT(20) DEF u
  <2> HIDE DEF left
  <2> QED
    BY <1>3, <2>1, <2>2, <2>3
<1> HIDE DEF left
<1>5. /\ IsHeap(right) /\ right.capacity = h.capacity /\ Chained(right)
      /\ Fragments(right) = Fragments(h) \ (IF joinRight THEN {next} ELSE {})
      /\ right.fragments[f].size = h.fragments[f].size
                                   + (IF joinRight THEN h.fragments[next].size ELSE 0)
      /\ right.fragments[f].prev = prev
      /\ ~right.fragments[f].used
      /\ \A g \in Fragments(right) \ {f} : right.fragments[g].size = h.fragments[g].size
      /\ \A g \in Fragments(right) \ {f} : right.fragments[g].used = h.fragments[g].used
  <2>1. ASSUME ~joinRight PROVE right = left
    BY <2>1
  <2>2. CASE ~joinRight
    <3>1. \A g \in Fragments(right) \ {f} : right.fragments[g].used = h.fragments[g].used
      BY <1>3, <1>4, <2>1, <2>2 DEF Fragments
    <3> HIDE DEF right, joinRight, prev, next
    <3> QED
      BY <1>1, <1>3, <1>4, <2>1, <2>2, <3>1, SMTT(20) DEF Fragments
  <2>3. CASE joinRight
    <3> DEFINE u == unbin(left, next)
               j == Joined(u, f, next)
    <3>1. /\ IsHeap(u) /\ u.capacity = left.capacity /\ u.fragments = left.fragments
      BY <1>4, Rebin
    <3>2. right = j
      BY <2>3
    <3> HIDE DEF u
    <3>3. Chained(u) /\ Fragments(u) = Fragments(left)
      BY <1>4, <3>1, SameHeaders
    <3>4. next \in Fragments(u) /\ f \in Fragments(u) /\ u.fragments[f].next = next
      BY <1>2, <1>3, <1>4, <2>3, <3>1, <3>3
    <3> HIDE DEF right, next, prev
    <3>5. /\ IsHeap(j) /\ j.capacity = u.capacity /\ Chained(j)
          /\ Fragments(j) = Fragments(u) \ {next}
          /\ next = f + u.fragments[f].size
          /\ j.fragments[f].size = u.fragments[f].size + u.fragments[next].size
          /\ j.fragments[f].prev = u.fragments[f].prev
          /\ \A g \in Fragments(j) : j.fragments[g].used = u.fragments[g].used
          /\ \A g \in Fragments(j) \ {f} : j.fragments[g].size = u.fragments[g].size
      BY <3>1, <3>3, <3>4, Join, SMTT(20)
    <3> HIDE DEF j, joinRight
    <3>6. f # next
      BY <1>1, <1>3, <1>4, <3>1, <3>5 DEF Fragments
    <3>7. \A g \in Fragments(right) \ {f} : right.fragments[g].used = h.fragments[g].used
      <4> TAKE g \in Fragments(right) \ {f}
      <4>1. j.fragments[g].used = u.fragments[g].used
        BY <3>2, <3>5
      <4>2. g \in Places(h) \ {f}
        BY <1>4, <3>2, <3>3, <3>5 DEF Fragments
      <4> QED
        BY <1>3, <1>4, <3>1, <3>2, <4>1, <4>2, Zenon
    <3>8. ~right.fragments[f].used
      BY <1>3, <1>4, <3>1, <3>2, <3>4, <3>5, <3>6
    <3> QED
      BY <1>1, <1>2, <1>3, <1>4, <2>3, <3>1, <3>2, <3>3, <3>4, <3>5, <3>7, <3>8 DEF Fragments
  <2> QED
    BY <2>2, <2>3
<1> HIDE DEF right
<1>6. /\ prev # None => prev \in Fragments(right) /\ prev < f /\ prev # f
      /\ prev # None => right.fragments[prev].next = f
  <2>1. prev # None => prev < f /\ prev # next
    BY <1>1, <1>2, NoneAssumption DEF Fragments, end
  <2>2. f \in Fragments(right)
    BY <1>1, <1>2, <1>5 DEF Fragments, end
  <2>3. prev # None => right.fragments[prev].next = f
    <3>1. LET p == right.fragments[f].prev IN
          IF f = 0 THEN p = None ELSE p \in Fragments(right) /\ right.fragments[p].next = f
      BY <1>5, <2>2, ZenonT(20) DEF Chained
    <3> HIDE DEF prev
    <3> QED
      BY <1>5, <3>1, SMTT(20)
  <2> HIDE DEF prev, next, joinRight
  <2> QED
    BY <1>1, <1>2, <1>5, <2>1, <2>3 DEF Fragments
<1> DEFINE lo == IF joinLeft THEN prev ELSE f
           more == IF joinRight THEN h.fragments[next].size ELSE 0
<1>7. /\ IsHeap(k) /\ k.capacity = h.capacity /\ Chained(k)
      /\ Fragments(k) = Fragments(right) \ (IF joinLeft THEN {f} ELSE {})
      /\ lo \in Fragments(k) /\ ~k.fragments[lo].used
      /\ lo + k.fragments[lo].size = end + more
      /\ \A g \in Fragments(k) \ {lo} : k.fragments[g].size = h.fragments[g].size
      /\ \A g \in Fragments(k) \ {lo} : k.fragments[g].used = h.fragments[g].used
  <2>1. k = IF joinLeft THEN rebin(Joined(right, prev, f), prev) ELSE rebin(right, f)
    BY DEF o1heapFree, right, left, unused
  <2>2. f \in Fragments(right)
    BY <1>1, <1>2, <1>5 DEF Fragments, end
  <2> HIDE DEF k
  <2>3. CASE ~joinLeft
    <3>1. IsHeap(k) /\ k.capacity = right.capacity /\ k.fragments = right.fragments
      BY <1>5, <2>1, <2>3, Rebin
    <3>2. Chained(k) /\ Fragments(k) = Fragments(right)
      BY <1>5, <3>1, SameHeaders
    <3>3. lo = f
      BY <2>3
    <3> HIDE DEF joinLeft, lo, prev, next, joinRight
    <3>4. \A g \in Fragments(k) \ {lo} : k.fragments[g].used = h.fragments[g].used
      BY <1>5, <3>1, <3>2, <3>3, Zenon
    <3>5. ~k.fragments[lo].used
      BY <1>5, <3>1, <3>3, Zenon
    <3>6. lo + k.fragments[lo].size = end + more
      <4>1. k.fragments[f].size = h.fragments[f].size + more
        BY <1>5, <3>1 DEF more
      <4>2. h.fragments[f].size \in Nat /\ more \in Nat /\ f \in Nat
        BY <1>1, <1>2 DEF more, Fragments, joinRight
      <4> HIDE DEF more
      <4> QED
        BY <3>3, <4>1, <4>2 DEF end
    <3>7. lo \in Fragments(k)
      BY <2>2, <3>2, <3>3
    <3>8. \A g \in Fragments(k) \ {lo} : k.fragments[g].size = h.fragments[g].size
      BY <1>5, <3>1, <3>2, <3>3
    <3>9. IsHeap(k) /\ k.capacity = h.capacity /\ Chained(k)
          /\ Fragments(k) = Fragments(right) \ (IF joinLeft THEN {f} ELSE {})
      BY <1>5, <2>3, <3>1, <3>2, SMTT(20)
    <3> QED
      BY <3>4, <3>5, <3>6, <3>7, <3>8, <3>9
  <2>4. CASE joinLeft
    <3> DEFINE j == Joined(right, prev, f)
    <3> HIDE DEF prev
    <3>1. prev # None /\ lo = prev /\ ~h.fragments[prev].used
      BY <2>4, SMTT(20) DEF prev
    <3>2. /\ IsHeap(j) /\ j.capacity = right.capacity /\ Chained(j)
          /\ Fragments(j) = Fragments(right) \ {f}
          /\ f = prev + right.fragments[prev].size
          /\ j.fragments[prev].size = right.fragments[prev].size + right.fragments[f].size
          /\ \A g \in Fragments(j) : j.fragments[g].used = right.fragments[g].used
          /\ \A g \in Fragments(j) \ {prev} : j.fragments[g].size = right.fragments[g].size
      BY <1>5, <1>6, <2>2, <3>1, Join, SMTT(20)
    <3> HIDE DEF j
    <3>3. k = rebin(j, prev)
      BY <2>1, <2>4 DEF j, prev
    <3>4. IsHeap(k) /\ k.capacity = j.capacity /\ k.fragments = j.fragments
      BY <3>2, <3>3, Rebin
    <3>5. Chained(k) /\ Fragments(k) = Fragments(j)
      BY <3>2, <3>4, SameHeaders
    <3> HIDE DEF joinLeft, lo, next, joinRight
    <3>6. ASSUME NEW g \in Fragments(k) PROVE k.fragments[g].used = h.fragments[g].used
      <4>1. g \in Fragments(j) /\ g \in Fragments(right) \ {f}
        BY <3>2, <3>5
      <4>2. k.fragments[g].used = right.fragments[g].used
        BY <3>2, <3>4, <4>1, Zenon
      <4> QED
        BY <1>5, <4>1, <4>2, Zenon
    <3>7. prev \in Fragments(k)
      BY <1>6, <3>1, <3>2, <3>5
    <3>8. ~k.fragments[lo].used
      BY <3>1, <3>6, <3>7
    <3>9. prev + k.fragments[prev].size = end + more
      <4>1. prev \in Nat /\ right.fragments[prev].size \in Nat /\ h.fragments[f].size \in Nat
        BY <1>1, <1>5, <1>6, <3>1 DEF Fragments
      <4>2. more \in Nat /\ right.fragments[f].size = h.fragments[f].size + more
        BY <1>1, <1>2, <1>5 DEF more, Fragments, joinRight
      <4>3. k.fragments[prev].size = right.fragments[prev].size + right.fragments[f].size
        BY <3>2, <3>4
      <4> HIDE DEF more
      <4> QED
        BY <3>2, <4>1, <4>2, <4>3 DEF end
    <3>10. \A g \in Fragments(k) \ {lo} : k.fragments[g].size = h.fragments[g].size
      BY <1>5, <3>1, <3>2, <3>4, <3>5
    <3> QED
      BY <1>5, <2>4, <3>1, <3>2, <3>4, <3>5, <3>6, <3>7, <3>8, <3>9, <3>10
  <2> QED
    BY <2>3, <2>4
<1> HIDE DEF k
<1>8. Coalesced(k)
  <2> SUFFICES ASSUME NEW a \in FreeFragments(k), NEW b \in FreeFragments(k),
                      b = a + k.fragments[a].size
               PROVE  FALSE
    BY SMTT(20) DEF Coalesced
  <2>1. /\ a \in Fragments(k) /\ b \in Fragments(k) /\ ~k.fragments[a].used /\ ~k.fragments[b].used
        /\ a \in Fragments(h) /\ b \in Fragments(h)
    BY <1>5, <1>7 DEF FreeFragments
  <2>2. \A c, d \in Fragments(h) : ~h.fragments[c].used /\ ~h.fragments[d].used
                                     => d # c + h.fragments[c].size
    BY DEF Coalesced, FreeFragments
  <2>3. /\ a \in Places(h) /\ b \in Places(h) /\ k.fragments[a].size > 0
        /\ k.fragments[a].size \in Nat /\ b > a
    <3>1. a \in Places(k) /\ b \in Places(k) /\ k.fragments[a].size > 0
      BY <2>1 DEF Fragments
    <3>2. IsHeap(k)
      BY <1>7
    <3>3. k.fragments[a].size \in Nat
      BY <3>1, <3>2 DEF IsHeap, Headers
    <3>4. a \in Places(h) /\ b \in Places(h)
      BY <2>1 DEF Fragments
    <3> QED
      BY <1>1, <3>1, <3>3, <3>4
  <2>4. CASE a = lo
    <3>1. b = end + more /\ b # lo
      <4> HIDE DEF lo, end, more
      <4> QED
        BY <1>1, <1>7, <2>3, <2>4
    <3>2. ~h.fragments[b].used
      BY <1>7, <2>1, <3>1, Zenon
    <3>3. CASE joinRight
      BY <1>2, <2>1, <2>2, <3>1, <3>2, <3>3
    <3>4. CASE ~joinRight
      <4>1. b = end
        <5>1. more = 0
          BY <3>4
        <5>2. f \in Nat /\ h.fragments[f].size \in Nat
          BY <1>1, <1>2 DEF Fragments
        <5> HIDE DEF more, joinRight
        <5> QED
          BY <3>1, <5>1, <5>2
      <4>2. next = b /\ next # None
        BY <1>1, <1>2, <2>3, <4>1, NoneAssumption
      <4> QED
        BY <3>2, <3>4, <4>2
    <3> QED
      BY <3>3, <3>4
  <2>5. CASE a # lo
    <3>1. ~h.fragments[a].used /\ b = a + h.fragments[a].size
      <4>1. k.fragments[a].used = h.fragments[a].used
        BY <1>7, <2>1, <2>5, ZenonT(20)
      <4>2. k.fragments[a].size = h.fragments[a].size
        BY <1>7, <2>1, <2>5
      <4> QED
        BY <2>1, <4>1, <4>2, SMTT(20)
    <3>2. CASE b # lo
      <4>1. ~h.fragments[b].used
        BY <1>7, <2>1, <3>2, Zenon
      <4> QED
        BY <2>1, <2>2, <3>1, <4>1
    <3>3. CASE b = lo /\ joinLeft
      BY <1>2, <2>1, <2>2, <3>1, <3>3
    <3>4. CASE b = lo /\ ~joinLeft
      <4>1. f # h.capacity /\ f = a + h.fragments[a].size
        BY <1>1, <3>1, <3>4
      <4>2. h.fragments[f].prev = a
        BY <2>1, <4>1 DEF Chained
      <4>3. a # None
        BY <2>3, NoneAssumption
      <4> QED
        BY <3>1, <3>4, <4>2, <4>3
    <3> QED
      BY <3>2, <3>3, <3>4
  <2> QED
    BY <2>4, <2>5
<1>9. ASSUME NEW g \in Fragments(h) \ {f}, h.fragments[g].used
      PROVE  /\ g \in Fragments(k) /\ k.fragments[g].used
             /\ k.fragments[g].size = h.fragments[g].size
  <2>1. g # lo /\ (joinRight => g # next)
    BY <1>9
  <2> HIDE DEF lo, joinRight, joinLeft
  <2>2. g \in Fragments(k) \ {lo}
    BY <1>5, <1>7, <2>1
  <2>3. k.fragments[g].used = h.fragments[g].used
    BY <1>7, <2>2
  <2> QED
    BY <1>7, <1>9, <2>2, <2>3
<1>11. ASSUME NEW g \in Fragments(k), k.fragments[g].used
       PROVE  g \in Fragments(h) \ {f} /\ h.fragments[g].used
  <2>1. g # lo /\ (~joinLeft => lo = f)
    BY <1>7, <1>11
  <2> HIDE DEF lo, joinRight, joinLeft
  <2>2. k.fragments[g].used = h.fragments[g].used
    BY <1>7, <2>1
  <2>3. g \in Fragments(h) \ {f}
    BY <1>5, <1>7, <2>1
  <2> QED
    BY <1>11, <2>2, <2>3, SMTT(20)
<1> DEFINE F == FreeFragments(h)
           FLeft == IF joinLeft THEN F \ {prev} ELSE F
           FRight == IF joinRight THEN FLeft \ {next} ELSE FLeft
<1>10. ASSUME Binned(h, F)
       PROVE  Binned(k, FreeFragments(k))
  <2>1. /\ F \subseteq Fragments(h) /\ F \subseteq Places(h)
        /\ f \notin F /\ f \in Fragments(right) /\ FRight \subseteq Fragments(right) \ {f}
        /\ joinLeft => prev \in F /\ prev \in Fragments(right) \ {f}
        /\ joinRight => next \in FLeft /\ next \in Fragments(h)
    <3>1. F \subseteq Fragments(h) /\ F \subseteq Places(h) /\ f \notin F
      BY DEF FreeFragments, Fragments
    <3>2. (joinLeft => prev \in F) /\ (joinRight => next \in F)
      BY <1>2 DEF FreeFragments
    <3>3. next # None => next # f
      BY <1>1, <1>2 DEF Fragments
    <3>4. prev # None /\ next # None => next # prev
      BY <1>1, <1>2, <1>6 DEF Fragments
    <3> HIDE DEF F, prev, next
    <3>5. f \in Fragments(right)
      BY <1>5, <3>3
    <3>6. FRight \subseteq Fragments(right) \ {f}
      BY <1>5, <3>1, Zenon
    <3>7. joinLeft => prev \in Fragments(right) \ {f}
      BY <1>6
    <3>8. joinRight => next \in FLeft
      BY <3>2, <3>4
    <3> QED
      BY <1>2, <3>1, <3>2, <3>5, <3>6, <3>7, <3>8
  <2>2. FreeFragments(k) = FRight \cup {lo} /\ lo \notin FRight /\ lo \in Fragments(k)
    <3>1. lo \notin FRight
      BY <2>1
    <3>2. ASSUME NEW g \in FRight PROVE g \in FreeFragments(k)
      <4>1. g \in Fragments(right) \ {f} /\ g # lo /\ g \in F
        BY <2>1, <3>1, SMTT(20)
      <4>2. g \in Fragments(k) \ {lo}
        BY <1>7, <4>1
      <4>3. k.fragments[g].used = h.fragments[g].used
        BY <1>7, <4>2, Zenon
      <4> QED
        BY <4>1, <4>2, <4>3, SMTT(20) DEF FreeFragments
    <3>3. ASSUME NEW g \in FreeFragments(k), g # lo PROVE g \in FRight
      <4>1. g \in Fragments(k) \ {lo} /\ ~k.fragments[g].used
        BY <3>3 DEF FreeFragments
      <4>2. k.fragments[g].used = h.fragments[g].used
        BY <1>7, <4>1, ZenonT(20)
      <4>3. g \in Fragments(right) /\ g \in Fragments(h) /\ (joinRight => g # next)
        BY <1>5, <1>7, <4>1
      <4>4. g \in F
        BY <4>1, <4>2, <4>3, SMTT(20) DEF FreeFragments
      <4> QED
        BY <3>3, <4>3, <4>4
    <3>4. lo \in FreeFragments(k)
      BY <1>7 DEF FreeFragments
    <3> HIDE DEF FRight, lo
    <3> QED
      BY <1>7, <3>1, <3>2, <3>3, <3>4
  <2>3. Binned(unused, F)
    <3>1. SameLists(unused, h)
      BY HeadersAreApart, Zenon DEF unused
    <3>2. \A g \in F : unused.fragments[g].size = h.fragments[g].size
      BY <1>3, <2>1
    <3> HIDE DEF F
    <3> QED
      BY <1>10, <3>1, <3>2, SameBins DEF SameLists
  <2>4. Binned(left, FLeft)
    <3>1. ASSUME joinLeft PROVE Binned(unbin(unused, prev), F \ {prev})
      <4> HIDE DEF F, prev
      <4> QED
        BY <1>3, <2>1, <2>3, <3>1, UnbinRemoves
    <3> QED
      BY <2>3, <3>1 DEF left
  <2>5. Binned(right, FRight)
    <3>1. CASE joinRight
      <4> DEFINE v == unbin(left, next)
      <4> HIDE DEF FLeft, next
      <4>1. Binned(v, FLeft \ {next})
        BY <1>4, <2>1, <2>4, <3>1, UnbinRemoves, Zenon DEF next
      <4>2. IsHeap(v) /\ v.capacity = left.capacity /\ v.fragments = left.fragments
        BY <1>4, Rebin
      <4> HIDE DEF v
      <4>3. SameLists(right, v)
        <5>1. right = Joined(v, f, next)
          BY <3>1 DEF right, v, next
        <5> QED
          BY <4>2, <5>1, HeadersAreApart, Zenon
      <4>4. FRight = FLeft \ {next}
        BY <3>1 DEF next
      <4> HIDE DEF FRight
      <4>5. \A g \in FRight : right.fragments[g].size = v.fragments[g].size
        <5>1. \A g \in FRight : right.fragments[g].size = h.fragments[g].size
          BY <1>5, <2>1
        <5>2. \A g \in FRight : v.fragments[g].size = h.fragments[g].size
          BY <1>3, <1>4, <1>5, <2>1, <4>2 DEF Fragments
        <5> QED
          BY <5>1, <5>2
      <4> QED
        BY <4>1, <4>2, <4>3, <4>4, <4>5, SameBins DEF SameLists
    <3>2. CASE ~joinRight
      BY <2>4, <3>2 DEF right
    <3> QED
      BY <3>1, <3>2
  <2> HIDE DEF F, FLeft, FRight
  <2>6. CASE joinLeft
    <3> DEFINE j == Joined(right, prev, f)
    <3>1. k = rebin(j, prev) /\ lo = prev
      BY <2>6 DEF k, o1heapFree, right, left, unused
    <3>2. SameLists(j, right)
      BY <1>5, HeadersAreApart, ZenonT(20)
    <3>3. IsHeap(j) /\ j.capacity = h.capacity
      <4> HIDE DEF prev
      <4>1. prev # None
        BY <2>6 DEF prev
      <4> QED
        BY <1>5, <1>6, <2>1, <4>1, Join
    <3> HIDE DEF j, prev
    <3>4. k.fragments = j.fragments /\ Fragments(k) = Fragments(j)
      BY <1>7, <3>1, <3>3, Rebin DEF Fragments
    <3>5. \A g \in FRight : j.fragments[g].size = right.fragments[g].size
      <4>1. \A g \in FRight : g \in Fragments(k) \ {lo}
        <5> HIDE DEF lo
        <5> QED
          BY <2>2 DEF FreeFragments
      <4>2. \A g \in FRight : k.fragments[g].size = h.fragments[g].size
        BY <1>7, <4>1, SMTT(20)
      <4>3. \A g \in FRight : right.fragments[g].size = h.fragments[g].size
        BY <1>5, <2>1
      <4> QED
        BY <3>4, <4>2, <4>3
    <3>6. Binned(j, FRight)
      BY <1>5, <2>5, <3>2, <3>3, <3>5, SameBins DEF SameLists
    <3>7. j.fragments[lo].size <= j.capacity /\ lo \in Fragments(j) \ FRight
      BY <1>7, <2>2, <3>3, <3>4, FragmentsEnd, SMTT(20)
    <3> HIDE DEF lo
    <3> QED
      BY <2>2, <3>1, <3>3, <3>6, <3>7, RebinAdds
  <2>7. CASE ~joinLeft
    <3>1. k = rebin(right, f) /\ lo = f
      BY <2>7, SMTT(20) DEF k, o1heapFree, right, left, unused
    <3> HIDE DEF lo
    <3>2. k.fragments = right.fragments /\ Fragments(k) = Fragments(right)
      BY <1>5, <1>7, <3>1, Rebin, SMTT(20) DEF Fragments
    <3>3. right.fragments[f].size <= right.capacity /\ f \in Fragments(right) \ FRight
      BY <1>5, <1>7, <2>1, <2>2, <3>1, <3>2, FragmentsEnd
    <3> QED
      BY <1>5, <2>2, <2>5, <3>1, <3>3, RebinAdds
  <2> QED
    BY <2>6, <2>7
<1> QED
  BY <1>7, <1>8, <1>9, <1>10, <1>11 DEF k

(* Only the bins decide which fragment is chosen, so an allocation that    *)
(* finds one leaves the free fragments in their bins, the leftover too.    *)
THEOREM AllocationKeepsTheBins ==
    ASSUME NEW h, IsHeap(h), Chained(h), Coalesced(h), Binned(h, FreeFragments(h)), NEW amount,
           Chosen(h, amount) \in FreeFragments(h),
           FragmentSize(amount) \in 1 .. h.fragments[Chosen(h, amount)].size
    PROVE  LET k == o1heapAllocate(h, amount) IN
           Coalesced(k) /\ Binned(k, FreeFragments(k))
<1> DEFINE k == o1heapAllocate(h, amount)
           f == Chosen(h, amount)
           size == FragmentSize(amount)
           leftover == h.fragments[f].size - size
           rest == f + size
           next == h.fragments[f].next
           u == unbin(h, f)
           taken == Taken(u, f, size)
           split == [taken EXCEPT !.fragments[rest] = Unlinked(leftover)]
           half == interlink(split, rest, next)
           whole == interlink(half, f, rest)
           F == FreeFragments(h)
<1>1. /\ f \in F /\ f \in Fragments(h) /\ f \in Places(h) /\ ~h.fragments[f].used
      /\ h.fragments[f].size \in Nat /\ next \in Places(h) \cup {None}
      /\ size \in Nat \ {0} /\ size <= h.fragments[f].size /\ leftover \in Nat
      /\ F \subseteq Fragments(h) /\ h.capacity \in Nat \ {0}
  BY DEF FreeFragments, Fragments, IsHeap, Headers
<1>2. IF leftover = 0 THEN k = taken ELSE k = rebin(whole, rest)
  BY DEF o1heapAllocate
<1>3. /\ IsHeap(k) /\ k.capacity = h.capacity /\ Chained(k)
      /\ k.fragments[f].used /\ k.fragments[f].size = size
      /\ \A g \in Fragments(h) \ {f} :
           /\ k.fragments[g].size = h.fragments[g].size
           /\ k.fragments[g].used = h.fragments[g].used
      /\ Fragments(k) = IF size = h.fragments[f].size THEN Fragments(h) ELSE Fragments(h) \cup {rest}
      /\ size # h.fragments[f].size => rest \notin Fragments(h) /\ ~k.fragments[rest].used
  <2> HIDE DEF k, f, size
  <2> QED
    BY AllocationKeepsTheChain, Zenon DEF k, f, size
<1>4. IsHeap(u) /\ u.capacity = h.capacity /\ u.fragments = h.fragments
  BY Rebin
<1>5. Binned(u, F \ {f})
  BY <1>1, UnbinRemoves, Zenon
<1> HIDE DEF k, f, size, u, F, next
<1>6. IsHeap(taken) /\ taken.capacity = h.capacity /\ SameLists(taken, u)
  <2>1. SameLists(taken, u)
    BY <1>4, HeadersAreApart, Zenon
  <2>2. f \in Places(u) /\ size \in Nat
    BY <1>1, <1>4
  <2> QED
    BY <1>4, <2>1, <2>2, Take
<1> HIDE DEF taken
<1>7. CASE size = h.fragments[f].size
  <2>1. k = taken /\ FreeFragments(k) = F \ {f}
    <3>1. k = taken
      BY <1>1, <1>2, <1>7
    <3>2. \A g \in Fragments(h) \ {f} : k.fragments[g].used = h.fragments[g].used
      BY <1>3, Zenon
    <3>3. Fragments(k) = Fragments(h) /\ k.fragments[f].used
      BY <1>3, <1>7
    <3> QED
      BY <3>1, <3>2, <3>3, Zenon DEF FreeFragments, F
  <2>2. \A g \in F \ {f} : k.fragments[g].size = u.fragments[g].size
    BY <1>1, <1>3, <1>4
  <2>3. Binned(k, F \ {f})
    BY <1>4, <1>5, <1>6, <2>1, <2>2, SameBins DEF SameLists
  <2>4. Coalesced(k)
    <3>1. \A g \in F \ {f} : k.fragments[g].size = h.fragments[g].size
      BY <1>1, <1>3
    <3> QED
      BY <2>1, <3>1 DEF Coalesced, F
  <2> QED
    BY <2>1, <2>3, <2>4 DEF k
<1>8. CASE size # h.fragments[f].size
  <2> DEFINE end == f + h.fragments[f].size
  <2>1. k = rebin(whole, rest)
    BY <1>1, <1>2, <1>8
  <2>2. /\ rest \in Fragments(k) /\ rest \notin Fragments(h)
        /\ FreeFragments(k) = (F \ {f}) \cup {rest}
    <3>1. \A g \in Fragments(h) \ {f} : k.fragments[g].used = h.fragments[g].used
      BY <1>3, Zenon
    <3>2. Fragments(k) = Fragments(h) \cup {rest} /\ k.fragments[f].used
      BY <1>3, <1>8
    <3>3. rest \notin Fragments(h) /\ ~k.fragments[rest].used
      BY <1>3, <1>8
    <3> HIDE DEF rest
    <3> QED
      BY <1>1, <3>1, <3>2, <3>3, Zenon DEF FreeFragments, F
  <2>3. rest \in Places(h)
    BY <1>3, <2>2 DEF Fragments
  <2>4. IsHeap(split) /\ split.capacity = h.capacity /\ SameLists(split, taken)
    <3>1. SameLists(split, taken)
      BY <1>6, HeadersAreApart, Zenon
    <3>2. rest \in Places(taken) /\ leftover \in Nat
      BY <1>1, <1>6, <2>3
    <3> QED
      BY <1>6, <3>1, <3>2, Split
  <2> HIDE DEF split, rest, leftover
  <2>5. IsHeap(half) /\ half.capacity = h.capacity /\ SameLists(half, split)
    <3>1. SameLists(half, split)
      BY <2>4, HeadersAreApart, Zenon
    <3>2. rest \in Places(split) \cup {None} /\ next \in Places(split) \cup {None}
      BY <1>1, <2>4, <2>3
    <3> QED
      BY <2>4, <3>1, <3>2, Interlink
  <2> HIDE DEF half
  <2>6. IsHeap(whole) /\ whole.capacity = h.capacity /\ SameLists(whole, half)
    <3>1. SameLists(whole, half)
      BY <2>5, HeadersAreApart, Zenon
    <3>2. f \in Places(half) \cup {None} /\ rest \in Places(half) \cup {None}
      BY <1>1, <2>5, <2>3
    <3> QED
      BY <2>5, <3>1, <3>2, Interlink
  <2> HIDE DEF whole
  <2>7. k.fragments = whole.fragments /\ Fragments(k) = Fragments(whole)
    BY <1>3, <2>1, <2>6, Rebin DEF Fragments
  <2>8. Binned(whole, F \ {f})
    <3>1. \A g \in F \ {f} : whole.fragments[g].size = u.fragments[g].size
      BY <1>1, <1>3, <1>4, <2>7
    <3>2. whole.capacity = u.capacity /\ whole.bins = u.bins /\ whole.nonempty = u.nonempty
      BY <1>6, <2>4, <2>5, <2>6 DEF SameLists
    <3> QED
      BY <1>4, <1>5, <3>1, <3>2, SameBins
  <2>9. whole.fragments[rest].size <= whole.capacity
    BY <1>3, <2>2, <2>6, <2>7, FragmentsEnd
  <2>10. Binned(k, FreeFragments(k))
    <3>1. rest \in Fragments(whole) \ (F \ {f})
      BY <1>1, <2>2, <2>7
    <3> QED
      BY <2>1, <2>2, <2>6, <2>8, <2>9, <3>1, RebinAdds
  <2>11. ASSUME NEW a \in FreeFragments(k), NEW b \in FreeFragments(k),
                b = a + k.fragments[a].size
         PROVE  FALSE
    <3>1. /\ a \in Fragments(k) /\ b \in Fragments(k) /\ ~k.fragments[a].used /\ ~k.fragments[b].used
          /\ a \in (F \ {f}) \cup {rest} /\ b \in (F \ {f}) \cup {rest} /\ a # f
      BY <1>3, <2>2, <2>11 DEF FreeFragments
    <3>2. a \in Nat /\ b \in Nat /\ k.fragments[a].size \in Nat \ {0} /\ b # None /\ b # k.capacity
      BY <1>3, <3>1, FragmentsEnd, NoneAssumption DEF Fragments
    <3>3. k.fragments[b].prev = a /\ k.fragments[a].next = b
      BY <1>3, <2>11, <3>1, <3>2 DEF Chained
    <3>4. CASE b = rest
      <4>1. k.fragments[f].next = rest /\ f \in Fragments(k)
        <5>1. f \in Fragments(k) /\ rest # k.capacity /\ rest = f + k.fragments[f].size
          BY <1>1, <1>3, <1>8, <2>2, <3>2, <3>4 DEF rest
        <5> QED
          BY <1>3, <5>1 DEF Chained
      <4>2. k.fragments[rest].prev = f
        <5>1. rest = f + k.fragments[f].size /\ rest # k.capacity
          BY <1>3, <3>2, <3>4 DEF rest
        <5> QED
          BY <1>3, <4>1, <5>1 DEF Chained
      <4> QED
        BY <3>1, <3>3, <3>4, <4>2
    <3>5. CASE b # rest /\ a # rest
      <4>1. a \in F /\ b \in F /\ k.fragments[a].size = h.fragments[a].size
        BY <1>1, <1>3, <3>1, <3>5
      <4> QED
        BY <2>11, <4>1 DEF Coalesced, F
    <3>6. CASE b # rest /\ a = rest
      <4>1. b \in F /\ b \in Fragments(h) /\ b # f
        BY <1>1, <3>1, <3>6
      <4>2. b > rest /\ rest > f /\ rest < end /\ f \in Nat /\ end \in Nat /\ rest \in Nat
        BY <1>1, <1>8, <2>11, <3>2, <3>6 DEF rest
      <4>3. b >= end /\ (end # h.capacity => end \in Fragments(h))
        BY <1>1, <3>2, <4>1, <4>2 DEF Chained
      <4>4. b < h.capacity
        BY <1>1, <4>1 DEF Fragments
      <4>5. end \in Fragments(k)
        BY <1>1, <1>3, <1>8, <3>2, <4>2, <4>3, <4>4
      <4>6. end >= b
        BY <1>3, <2>11, <3>1, <3>6, <4>2, <4>5 DEF Chained
      <4>7. b = f + h.fragments[f].size
        BY <3>2, <4>2, <4>3, <4>6
      <4> QED
        BY <1>1, <4>1, <4>7 DEF Coalesced, F
    <3> QED
      BY <3>4, <3>5, <3>6
  <2> QED
    BY <2>10, <2>11 DEF Coalesced, k
<1> QED
  BY <1>7, <1>8

-----------------------------------------------------------------------------
(* The sizes of the fragments T, added up from the first place on.         *)
Weight(h, T, n) == IF n \in T THEN h.fragments[n].size ELSE 0

Sums(g, h, T) ==
    /\ g \in [Nat -> Nat] /\ g[0] = 0
    /\ \A n \in Nat : g[n + 1] = g[n] + Weight(h, T, n)

Running(h, T) == CHOOSE g : Sums(g, h, T)
Total(h, T) == Running(h, T)[h.capacity]

LEMMA RunningSums ==
    ASSUME NEW h, IsHeap(h), NEW T \in SUBSET Places(h)
    PROVE  Sums(Running(h, T), h, T) /\ \A n \in Nat : Weight(h, T, n) \in Nat
<1> DEFINE step == [n \in Nat |-> [x \in Nat |-> x + Weight(h, T, n)]]
<1>1. \A n \in Nat : Weight(h, T, n) \in Nat
  <2>1. \A n \in T : h.fragments[n].size \in Nat
    BY DEF IsHeap, Headers
  <2> QED
    BY <2>1 DEF Weight
<1>2. step \in [Nat -> [Nat -> Nat]] /\ \A n, x \in Nat : step[n][x] = x + Weight(h, T, n)
  BY <1>1
<1>3. PICK g \in [Nat -> Nat] : g[0] = 0 /\ \A n \in Nat : g[n + 1] = step[n][g[n]]
  <2> DEFINE base == 0
  <2>1. base \in Nat
    OBVIOUS
  <2> HIDE DEF step, base
  <2>2. \E g \in [Nat -> Nat] : g[0] = base /\ \A n \in Nat : g[n + 1] = step[n][g[n]]
    BY <1>2, <2>1, Recursion
  <2> QED
    BY <2>2 DEF base
<1> HIDE DEF step
<1>4. Sums(g, h, T)
  <2>1. \A n \in Nat : g[n] \in Nat
    OBVIOUS
  <2> QED
    BY <1>2, <1>3, <2>1 DEF Sums
<1> QED
  BY <1>1, <1>4, Zenon DEF Running

(* A fragment counts once, at its place.                                   *)
LEMMA TotalWithout ==
    ASSUME NEW h, IsHeap(h), NEW T \in SUBSET Places(h), NEW f \in T
    PROVE  /\ Total(h, T \ {f}) \in Nat /\ Total(h, T) \in Nat
           /\ Total(h, T) = Total(h, T \ {f}) + h.fragments[f].size
<1> DEFINE g == Running(h, T)
           l == Running(h, T \ {f})
           size == h.fragments[f].size
           S == {n \in Nat : g[n] = l[n] + (IF f < n THEN size ELSE 0)}
<1>1. f \in Nat /\ h.capacity \in Nat /\ f < h.capacity /\ size \in Nat
  <2>1. f \in Places(h) /\ h.capacity \in Nat
    BY DEF IsHeap
  <2>2. size \in Nat
    BY <2>1 DEF IsHeap, Headers
  <2> QED
    BY <2>1, <2>2
<1>2. /\ Sums(g, h, T) /\ \A n \in Nat : Weight(h, T, n) \in Nat
      /\ Sums(l, h, T \ {f}) /\ \A n \in Nat : Weight(h, T \ {f}, n) \in Nat
  BY RunningSums
<1>3. /\ Weight(h, T, f) = size /\ Weight(h, T \ {f}, f) = 0
      /\ \A n \in Nat : n # f => Weight(h, T \ {f}, n) = Weight(h, T, n)
  BY DEF Weight
<1> HIDE DEF g, l, size
<1>4. /\ \A n \in Nat : g[n] \in Nat /\ l[n] \in Nat
      /\ \A n \in Nat : g[n + 1] = g[n] + Weight(h, T, n)
      /\ \A n \in Nat : l[n + 1] = l[n] + Weight(h, T \ {f}, n)
      /\ g[0] = 0 /\ l[0] = 0
  BY <1>2 DEF Sums
<1>5. 0 \in S
  BY <1>1, <1>4
<1>6. ASSUME NEW n \in S PROVE n + 1 \in S
  <2> DEFINE w == Weight(h, T, n)
             v == Weight(h, T \ {f}, n)
             gn == g[n]
             ln == l[n]
  <2>1. /\ n \in Nat /\ gn \in Nat /\ ln \in Nat /\ w \in Nat /\ v \in Nat
        /\ g[n + 1] = gn + w /\ l[n + 1] = ln + v
        /\ gn = ln + (IF f < n THEN size ELSE 0)
        /\ IF n = f THEN w = size /\ v = 0 ELSE v = w
    BY <1>2, <1>3, <1>4
  <2> HIDE DEF w, v, gn, ln
  <2>2. g[n + 1] = l[n + 1] + (IF f < n + 1 THEN size ELSE 0)
    BY <1>1, <2>1
  <2> QED
    BY <2>1, <2>2
<1>7. S = Nat
  <2>1. S \in SUBSET Nat
    OBVIOUS
  <2> HIDE DEF S
  <2> QED
    BY <1>5, <1>6, <2>1, SetInduction
<1>8. g[h.capacity] = l[h.capacity] + size
  BY <1>1, <1>7
<1> QED
  BY <1>1, <1>4, <1>8 DEF Total, g, l, size

LEMMA TotalOfNone ==
    ASSUME NEW h, IsHeap(h)
    PROVE  Total(h, {}) = 0
<1> DEFINE g == Running(h, {})
           S == {n \in Nat : g[n] = 0}
<1>1. Sums(g, h, {}) /\ h.capacity \in Nat
  BY RunningSums DEF IsHeap
<1> HIDE DEF g
<1>2. 0 \in S /\ \A n \in S : n + 1 \in S
  BY <1>1 DEF Sums, Weight
<1>3. S = Nat
  <2>1. S \in SUBSET Nat
    OBVIOUS
  <2> HIDE DEF S
  <2> QED
    BY <1>2, <2>1, SetInduction
<1> QED
  BY <1>1, <1>3 DEF Total, g

(* The same sizes have the same total.                                     *)
LEMMA TotalOfSame ==
    ASSUME NEW h, NEW k, IsHeap(h), IsHeap(k), k.capacity = h.capacity,
           NEW T \in SUBSET Places(h), \A f \in T : k.fragments[f].size = h.fragments[f].size
    PROVE  Total(k, T) = Total(h, T)
<1> DEFINE g == Running(h, T)
           l == Running(k, T)
           S == {n \in Nat : l[n] = g[n]}
<1>1. /\ Sums(g, h, T) /\ Sums(l, k, T) /\ h.capacity \in Nat
      /\ \A n \in Nat : Weight(k, T, n) = Weight(h, T, n)
  <2>1. T \in SUBSET Places(k)
    OBVIOUS
  <2>2. Sums(g, h, T) /\ Sums(l, k, T)
    BY <2>1, RunningSums
  <2> QED
    BY <2>2 DEF IsHeap, Weight
<1> HIDE DEF g, l
<1>2. 0 \in S /\ \A n \in S : n + 1 \in S
  BY <1>1 DEF Sums
<1>3. S = Nat
  <2>1. S \in SUBSET Nat
    OBVIOUS
  <2> HIDE DEF S
  <2> QED
    BY <1>2, <2>1, SetInduction
<1> QED
  BY <1>1, <1>3 DEF Total, g, l

(* Fragments that do not overlap fit: those before n take no more room     *)
(* than there is before the places m that they end at.                     *)
LEMMA TotalFits ==
    ASSUME NEW h, IsHeap(h), Chained(h), NEW T \in SUBSET Fragments(h)
    PROVE  Total(h, T) \in 0 .. h.capacity
<1> DEFINE g == Running(h, T)
           Ends(n, m) == \A f \in T : f < n => f + h.fragments[f].size <= m
           S == {n \in Nat : \A m \in Nat : m >= n /\ Ends(n, m) => g[n] <= m}
<1>1. /\ T \in SUBSET Places(h) /\ h.capacity \in Nat
      /\ \A f \in T : f \in Nat /\ h.fragments[f].size \in Nat /\ f + h.fragments[f].size <= h.capacity
      /\ \A e, f \in T : e > f => e >= f + h.fragments[f].size
  <2>1. \A f \in T : f \in Nat /\ h.fragments[f].size \in Nat /\ f + h.fragments[f].size <= h.capacity
    BY FragmentsEnd
  <2>2. \A e, f \in T : e > f => e >= f + h.fragments[f].size
    BY DEF Chained
  <2> QED
    BY <2>1, <2>2 DEF Fragments, IsHeap
<1>2. Sums(g, h, T)
  BY <1>1, RunningSums
<1> HIDE DEF g
<1>3. /\ \A n \in Nat : g[n] \in Nat
      /\ \A n \in Nat : g[n + 1] = g[n] + Weight(h, T, n)
      /\ g[0] = 0
  BY <1>2 DEF Sums
<1>4. 0 \in S
  BY <1>3
<1>5. ASSUME NEW n \in S PROVE n + 1 \in S
  <2> SUFFICES ASSUME NEW m \in Nat, m >= n + 1, Ends(n + 1, m)
               PROVE  g[n + 1] <= m
    OBVIOUS
  <2>1. CASE n \in T
    <3> DEFINE size == h.fragments[n].size
    <3>1. size \in Nat /\ n \in Nat /\ n + size <= m /\ g[n + 1] = g[n] + size /\ g[n] \in Nat
      BY <1>1, <1>3, <2>1 DEF Weight
    <3>2. Ends(n, m - size)
      <4> SUFFICES ASSUME NEW f \in T, f < n PROVE f + h.fragments[f].size <= m - size
        OBVIOUS
      <4>1. n >= f + h.fragments[f].size /\ f \in Nat /\ h.fragments[f].size \in Nat
        BY <1>1, <2>1
      <4> HIDE DEF size
      <4> QED
        BY <3>1, <4>1
    <3> HIDE DEF size, Ends
    <3>3. m - size \in Nat /\ m - size >= n
      BY <3>1
    <3>4. g[n] <= m - size
      BY <3>2, <3>3
    <3> QED
      BY <3>1, <3>4
  <2>2. CASE n \notin T
    <3>1. g[n + 1] = g[n] /\ n \in Nat
      BY <1>3, <2>2 DEF Weight
    <3>2. m >= n /\ Ends(n, m)
      BY <1>1, <3>1
    <3> HIDE DEF Ends
    <3> QED
      BY <3>1, <3>2
  <2> QED
    BY <2>1, <2>2
<1>6. S = Nat
  <2>1. S \in SUBSET Nat
    OBVIOUS
  <2> HIDE DEF S
  <2> QED
    BY <1>4, <1>5, <2>1, SetInduction
<1>7. Ends(h.capacity, h.capacity) /\ h.capacity >= h.capacity
  BY <1>1
<1> HIDE DEF Ends
<1>8. g[h.capacity] <= h.capacity
  BY <1>1, <1>6, <1>7
<1> QED
  BY <1>1, <1>3, <1>8 DEF Total, g

(* What the fold of the module computes.                                   *)
Iterates(it, h, S) ==
    it = [T \in SUBSET S |-> IF T = {} THEN 0
                             ELSE h.fragments[CHOOSE x \in T : TRUE].size + it[T \ {CHOOSE x \in T : TRUE}]]

LEMMA SumIsTotal ==
    ASSUME NEW h, IsHeap(h), NEW F \in SUBSET Places(h)
    PROVE  MapThenSumSet(LAMBDA f : h.fragments[f].size, F) = Total(h, F)
<1> DEFINE sum == CHOOSE it : Iterates(it, h, F)
           all == [T \in SUBSET F |-> Total(h, T)]
           pick(T) == CHOOSE x \in T : TRUE
<1>1. MapThenSumSet(LAMBDA f : h.fragments[f].size, F) = sum[F]
  BY Zenon DEF MapThenSumSet, MapThenFoldSet, Iterates
<1>2. ASSUME NEW T \in SUBSET F, T # {}
      PROVE  /\ pick(T) \in T /\ T \ {pick(T)} \in SUBSET F
             /\ Total(h, T) = h.fragments[pick(T)].size + Total(h, T \ {pick(T)})
  <2>1. pick(T) \in T
    BY <1>2
  <2> HIDE DEF pick
  <2>2. /\ Total(h, T) = Total(h, T \ {pick(T)}) + h.fragments[pick(T)].size
        /\ Total(h, T \ {pick(T)}) \in Nat /\ T \in SUBSET Places(h)
    BY <2>1, TotalWithout
  <2>3. h.fragments[pick(T)].size \in Nat
    BY <2>1 DEF IsHeap, Headers
  <2>4. Total(h, T) = h.fragments[pick(T)].size + Total(h, T \ {pick(T)})
    BY <2>2, <2>3
  <2> QED
    BY <2>1, <2>2, <2>4
<1>3. Iterates(all, h, F)
  <2>1. \A T \in SUBSET F : Total(h, T) = IF T = {} THEN 0 ELSE h.fragments[pick(T)].size + all[T \ {pick(T)}]
    BY <1>2, TotalOfNone
  <2> QED
    BY <2>1, Zenon DEF Iterates
<1>4. Iterates(sum, h, F)
  BY <1>3, Zenon
<1> HIDE DEF sum, all
<1>5. \A T \in SUBSET F : sum[T] = IF T = {} THEN 0 ELSE h.fragments[pick(T)].size + sum[T \ {pick(T)}]
  BY <1>4, Zenon DEF Iterates
<1> HIDE DEF pick
<1> DEFINE S == {n \in Nat : \A T \in SUBSET F : Cardinality(T) = n => sum[T] = Total(h, T)}
<1>6. \A T \in SUBSET F : IsFiniteSet(T) /\ Cardinality(T) \in Nat
  <2>1. IsFiniteSet(Places(h))
    BY FS_Interval DEF IsHeap
  <2>2. \A T \in SUBSET F : T \in SUBSET Places(h)
    OBVIOUS
  <2>3. \A T \in SUBSET F : IsFiniteSet(T)
    BY <2>1, <2>2, FS_Subset
  <2> QED
    BY <2>3, FS_CardinalityType
<1>7. 0 \in S
  <2>1. ASSUME NEW T \in SUBSET F, Cardinality(T) = 0 PROVE sum[T] = Total(h, T)
    <3>1. T = {}
      BY <1>6, <2>1, FS_EmptySet
    <3> QED
      BY <1>5, <3>1, TotalOfNone
  <2> QED
    BY <2>1
<1>8. ASSUME NEW n \in S PROVE n + 1 \in S
  <2>1. ASSUME NEW T \in SUBSET F, Cardinality(T) = n + 1 PROVE sum[T] = Total(h, T)
    <3>1. T # {}
      <4>1. Cardinality(T) # 0
        BY <2>1
      <4> QED
        BY <4>1, FS_EmptySet
    <3>2. /\ pick(T) \in T /\ T \ {pick(T)} \in SUBSET F
          /\ Total(h, T) = h.fragments[pick(T)].size + Total(h, T \ {pick(T)})
      BY <1>2, <3>1
    <3>3. Cardinality(T \ {pick(T)}) = n
      <4>1. Cardinality(T \ {pick(T)}) = Cardinality(T) - 1
        BY <1>6, <3>2, FS_RemoveElement
      <4> QED
        BY <2>1, <4>1
    <3>4. sum[T \ {pick(T)}] = Total(h, T \ {pick(T)})
      BY <3>2, <3>3
    <3> QED
      BY <1>5, <3>1, <3>2, <3>4
  <2>2. n + 1 \in Nat
    OBVIOUS
  <2> QED
    BY <2>1, <2>2
<1>9. S = Nat
  <2>1. S \in SUBSET Nat
    OBVIOUS
  <2> HIDE DEF S
  <2> QED
    BY <1>7, <1>8, <2>1, SetInduction
<1>10. sum[F] = Total(h, F)
  BY <1>6, <1>9
<1> QED
  BY <1>1, <1>10

-----------------------------------------------------------------------------
(* What is written to the list of a bin or to a header leaves the account  *)
(* of what is allocated as it is, but for a header that is taken or freed. *)
SameAllocated(k, h, change) ==
    k.allocated = h.allocated + change /\ DOMAIN k = DOMAIN h

LEMMA AllocatedStays ==
    ASSUME NEW h, "allocated" \in DOMAIN h, h.allocated \in Int, NEW e, NEW f, NEW x
    PROVE  /\ SameAllocated(rebin(h, f), h, 0) /\ SameAllocated(unbin(h, f), h, 0)
           /\ SameAllocated(interlink(h, e, f), h, 0) /\ SameAllocated(Joined(h, e, f), h, 0)
           /\ SameAllocated([h EXCEPT !.fragments[f] = x], h, 0)
<1>1. SameAllocated(rebin(h, f), h, 0)
  BY DEF SameAllocated, rebin
<1>2. SameAllocated(unbin(h, f), h, 0)
  BY DEF SameAllocated, unbin
<1>3. SameAllocated([h EXCEPT !.fragments[f] = x], h, 0)
  BY DEF SameAllocated
<1>4. \A g : SameAllocated(interlink(h, e, g), h, 0)
  BY DEF SameAllocated, interlink
<1>5. SameAllocated(Joined(h, e, f), h, 0)
  <2> DEFINE k == interlink(h, e, h.fragments[f].next)
  <2>1. SameAllocated(k, h, 0)
    BY <1>4
  <2> HIDE DEF k
  <2> QED
    BY <2>1 DEF SameAllocated, Joined, k
<1> QED
  BY <1>1, <1>2, <1>3, <1>4, <1>5

LEMMA AllocatedGrows ==
    ASSUME NEW h, IsHeap(h), h.allocated \in Int, NEW amount, FragmentSize(amount) \in Nat
    PROVE  o1heapAllocate(h, amount).allocated = h.allocated + FragmentSize(amount)
<1> DEFINE k == o1heapAllocate(h, amount)
           f == Chosen(h, amount)
           size == FragmentSize(amount)
           leftover == h.fragments[f].size - size
           rest == f + size
           next == h.fragments[f].next
           u == unbin(h, f)
           taken == Taken(u, f, size)
           split == [taken EXCEPT !.fragments[rest] = Unlinked(leftover)]
           half == interlink(split, rest, next)
           whole == interlink(half, f, rest)
<1>1. IF leftover = 0 THEN k = taken ELSE k = rebin(whole, rest)
  BY DEF o1heapAllocate
<1>2. SameAllocated(u, h, 0) /\ "allocated" \in DOMAIN h
  BY AllocatedStays DEF IsHeap
<1> HIDE DEF k, f, u, next, size
<1>3. SameAllocated(taken, h, size)
  BY <1>2 DEF SameAllocated, Taken
<1> HIDE DEF taken
<1>4. taken.allocated \in Int /\ "allocated" \in DOMAIN taken
  BY <1>2, <1>3 DEF SameAllocated, size
<1> HIDE DEF leftover
<1>5. SameAllocated(split, taken, 0)
  BY <1>4, AllocatedStays
<1> HIDE DEF split
<1>6. SameAllocated(half, split, 0)
  BY <1>4, <1>5, AllocatedStays DEF SameAllocated
<1> HIDE DEF half
<1>7. SameAllocated(whole, half, 0)
  BY <1>4, <1>5, <1>6, AllocatedStays DEF SameAllocated
<1> HIDE DEF whole
<1>8. SameAllocated(rebin(whole, rest), whole, 0)
  BY <1>4, <1>5, <1>6, <1>7, AllocatedStays DEF SameAllocated
<1>9. k = taken \/ k = rebin(whole, rest)
  BY <1>1
<1> DEFINE r == rebin(whole, rest)
<1> HIDE DEF r
<1>10. k.allocated = taken.allocated
  BY <1>4, <1>5, <1>6, <1>7, <1>8, <1>9 DEF SameAllocated
<1> QED
  BY <1>3, <1>10 DEF SameAllocated, k, size

LEMMA AllocatedShrinks ==
    ASSUME NEW h, IsHeap(h), h.allocated \in Int, NEW f, h.fragments[f].size \in Nat
    PROVE  o1heapFree(h, f).allocated = h.allocated - h.fragments[f].size
<1> DEFINE prev == h.fragments[f].prev
           next == h.fragments[f].next
           size == h.fragments[f].size
           joinLeft == prev # None /\ ~h.fragments[prev].used
           joinRight == next # None /\ ~h.fragments[next].used
           unused == Unused(h, f)
           pulled == unbin(unused, prev)
           left == IF joinLeft THEN pulled ELSE unused
           u == unbin(left, next)
           right == IF joinRight THEN Joined(u, f, next) ELSE left
           j == Joined(right, prev, f)
           k == o1heapFree(h, f)
           Same(a) == SameAllocated(a, unused, 0)
<1>1. k = rebin(j, prev) \/ k = rebin(right, f)
  BY DEF o1heapFree
<1>2. unused.allocated = h.allocated - size /\ unused.allocated \in Int
      /\ "allocated" \in DOMAIN unused
  BY DEF Unused, IsHeap
<1> HIDE DEF k, unused, prev, next, size, joinLeft, joinRight
<1>3. \A a, e, g : Same(a) => Same(rebin(a, g)) /\ Same(unbin(a, g)) /\ Same(Joined(a, e, g))
  <2> SUFFICES ASSUME NEW a, NEW e, NEW g, Same(a)
               PROVE  Same(rebin(a, g)) /\ Same(unbin(a, g)) /\ Same(Joined(a, e, g))
    OBVIOUS
  <2>1. "allocated" \in DOMAIN a /\ a.allocated \in Int
    BY <1>2 DEF SameAllocated
  <2>2. /\ SameAllocated(rebin(a, g), a, 0) /\ SameAllocated(unbin(a, g), a, 0)
        /\ SameAllocated(Joined(a, e, g), a, 0)
    BY <2>1, AllocatedStays
  <2> QED
    BY <1>2, <2>1, <2>2 DEF SameAllocated
<1>4. Same(unused)
  BY <1>2 DEF SameAllocated
<1> HIDE DEF Same
<1>5. Same(left)
  BY <1>3, <1>4, Zenon
<1> HIDE DEF left
<1>6. Same(right)
  BY <1>3, <1>5, Zenon
<1> HIDE DEF right
<1>7. Same(k)
  BY <1>1, <1>3, <1>6, Zenon
<1> QED
  BY <1>2, <1>7 DEF Same, SameAllocated, k, size

-----------------------------------------------------------------------------
(* What every heap is between two calls.                                   *)
InUse(h) == {f \in Fragments(h) : h.fragments[f].used}

Sound(h, capacity) ==
    /\ IsHeap(h) /\ h.capacity = capacity
    /\ Chained(h) /\ Coalesced(h)
    /\ Binned(h, FreeFragments(h))
    /\ h.allocated = Total(h, InUse(h))

(* The fragments in use are the same, with one more or one less.           *)
Keeps(k, h, kept) ==
    /\ kept \subseteq InUse(k)
    /\ \A g \in kept : k.fragments[g].size = h.fragments[g].size

LEMMA Unbinned ==
    ASSUME NEW h, IsHeap(h), h.bins = [b \in Bins(h) |-> <<>>], h.nonempty = {}
    PROVE  Binned(h, {})
<1>1. Lists(h.bins, Bins(h), {}, BinOf(h))
  <2> DEFINE lists == h.bins
             B == Bins(h)
             bin == BinOf(h)
  <2>1. lists = [b \in B |-> <<>>]
    OBVIOUS
  <2> HIDE DEF lists, B, bin
  <2>2. \A b \in B : lists[b] = <<>>
    BY <2>1
  <2>3. \A b \in B : lists[b] \in Seq({}) /\ Len(lists[b]) = 0
    BY <2>2, EmptySeq
  <2>4. lists \in [B -> Seq({})]
    BY <2>1, <2>3
  <2>5. \A b \in B : Distinct(lists[b])
    BY <2>3 DEF Distinct
  <2>6. \A b \in B : \A i \in 1 .. Len(lists[b]) : bin[lists[b][i]] = b
    BY <2>3
  <2>7. Lists(lists, B, {}, bin)
    BY <2>4, <2>5, <2>6 DEF Lists
  <2> QED
    BY <2>7 DEF lists, B, bin
<1>2. \A b \in Bins(h) : h.bins[b] = <<>>
  OBVIOUS
<1> QED
  BY <1>1, <1>2 DEF Binned

(* A new heap is one free fragment.                                        *)
THEOREM InitIsSound ==
    ASSUME NEW capacity \in Nat \ {0}
    PROVE  Sound(o1heapInit(capacity), capacity)
<1> DEFINE fragments == [f \in 0 .. capacity - 1 |->
                            IF f = 0 THEN Unlinked(capacity) ELSE Dropped]
           h == [capacity |-> capacity, allocated |-> 0, fragments |-> fragments,
                 bins |-> [b \in 0 .. log2Ceil(capacity) |-> <<>>], nonempty |-> {}]
           k == rebin(h, 0)
<1>1. k = o1heapInit(capacity)
  BY DEF o1heapInit
<1>2. /\ h.capacity = capacity /\ h.fragments = fragments /\ h.nonempty = {}
      /\ h.bins = [b \in Bins(h) |-> <<>>]
      /\ DOMAIN h = {"capacity", "allocated", "fragments", "bins", "nonempty"}
  BY DEF Bins
<1> HIDE DEF h
<1>3. /\ Unlinked(capacity) \in Headers(h) /\ Dropped \in Headers(h)
      /\ Dropped.size = 0
      /\ Unlinked(capacity).size = capacity
      /\ Unlinked(capacity).prev = None /\ Unlinked(capacity).next = None
  BY DEF Unlinked, Dropped, Headers
<1>4. ~Unlinked(capacity).used
  BY DEF Unlinked
<1>5. 0 \in Places(h) /\ Places(h) = 0 .. capacity - 1
  BY <1>2
<1>6. /\ IsHeap(h)
      /\ h.fragments[0] = Unlinked(capacity)
      /\ \A f \in Places(h) \ {0} : h.fragments[f] = Dropped
  <2> DEFINE whole == Unlinked(capacity)
  <2>1. fragments = [f \in Places(h) |-> IF f = 0 THEN whole ELSE Dropped]
    BY <1>2
  <2> HIDE DEF whole, fragments
  <2>2. fragments \in [Places(h) -> Headers(h)]
    BY <1>3, <2>1 DEF whole
  <2> QED
    BY <1>2, <1>5, <2>1, <2>2 DEF IsHeap, whole
<1>7. Fragments(h) = {0}
  BY <1>3, <1>5, <1>6 DEF Fragments
<1> HIDE DEF fragments
<1>8. Chained(h)
  BY <1>2, <1>3, <1>6, <1>7 DEF Chained
<1>9. IsHeap(k) /\ k.capacity = capacity /\ k.fragments = h.fragments
  <2> HIDE DEF k
  <2> QED
    BY <1>2, <1>6, Rebin DEF k
<1>10. Binned(k, {0})
  <2>1. Binned(h, {})
    BY <1>2, <1>6, Unbinned
  <2>2. h.fragments[0].size <= h.capacity /\ 0 \in Fragments(h) \ {}
    BY <1>2, <1>3, <1>6, <1>7
  <2>3. Binned(k, {} \cup {0})
    BY <1>6, <2>1, <2>2, RebinAdds, Zenon
  <2> QED
    BY <2>3
<1> HIDE DEF k
<1>11. Chained(k) /\ Fragments(k) = {0}
  BY <1>2, <1>7, <1>8, <1>9, SameHeaders
<1>12. FreeFragments(k) = {0}
  BY <1>4, <1>6, <1>9, <1>11, Zenon DEF FreeFragments
<1>13. Coalesced(k)
  BY <1>3, <1>6, <1>9, <1>12 DEF Coalesced
<1>14. k.allocated = Total(k, InUse(k))
  <2>1. InUse(k) = {}
    BY <1>4, <1>6, <1>9, <1>11, Zenon DEF InUse
  <2>2. k.allocated = 0
    BY <1>1 DEF o1heapInit, rebin
  <2> QED
    BY <1>9, <2>1, <2>2, TotalOfNone
<1> QED
  BY <1>1, <1>9, <1>10, <1>11, <1>12, <1>13, <1>14 DEF Sound

(* An allocation that succeeds takes a free fragment, makes it large       *)
(* enough, and leaves those in use as they are.                            *)
THEOREM AllocationIsSound ==
    ASSUME NEW h, NEW capacity, Sound(h, capacity), NEW amount \in Nat \ {0},
           Allocates(h, amount)
    PROVE  LET k == o1heapAllocate(h, amount)
               f == Chosen(h, amount)
           IN /\ Sound(k, capacity) /\ Keeps(k, h, InUse(h))
              /\ f \in InUse(k) \ InUse(h)
              /\ FRAGMENT_SIZE_MIN * k.fragments[f].size >= amount + O1HEAP_ALIGNMENT
<1> DEFINE k == o1heapAllocate(h, amount)
           f == Chosen(h, amount)
           size == FragmentSize(amount)
<1>1. /\ IsHeap(h) /\ Chained(h) /\ Coalesced(h) /\ Binned(h, FreeFragments(h))
      /\ h.capacity = capacity
  BY DEF Sound
<1>2. /\ size \in Nat \ {0} /\ FRAGMENT_SIZE_MIN * size >= amount + O1HEAP_ALIGNMENT
  BY FragmentSizeFits
<1>3. f \in FreeFragments(h) /\ h.fragments[f].size >= size
  <2>1. \A g \in FreeFragments(h) : h.fragments[g].size <= h.capacity
    BY <1>1, FragmentsEnd DEF FreeFragments
  <2> HIDE DEF f, size
  <2> QED
    BY <1>1, <2>1, BinsFindWhatFits DEF f, size
<1>4. f \in Fragments(h) /\ ~h.fragments[f].used /\ size \in 1 .. h.fragments[f].size
  BY <1>1, <1>2, <1>3, FragmentsEnd DEF FreeFragments
<1>5. /\ IsHeap(k) /\ k.capacity = h.capacity /\ Chained(k)
      /\ k.fragments[f].used /\ k.fragments[f].size = size
      /\ \A g \in Fragments(h) \ {f} :
           /\ k.fragments[g].size = h.fragments[g].size
           /\ k.fragments[g].used = h.fragments[g].used
      /\ Fragments(h) \subseteq Fragments(k)
      /\ \A g \in Fragments(k) \ Fragments(h) : ~k.fragments[g].used
  <2> DEFINE rest == f + size
             same == size = h.fragments[f].size
  <2> HIDE DEF k, f, size, rest, same
  <2>1. /\ IsHeap(k) /\ k.capacity = h.capacity /\ Chained(k)
        /\ k.fragments[f].used /\ k.fragments[f].size = size
        /\ \A g \in Fragments(h) \ {f} :
             /\ k.fragments[g].size = h.fragments[g].size
             /\ k.fragments[g].used = h.fragments[g].used
        /\ Fragments(k) = IF same THEN Fragments(h) ELSE Fragments(h) \cup {rest}
        /\ ~same => ~k.fragments[rest].used
    BY <1>1, <1>3, <1>4, AllocationKeepsTheChain, ZenonT(20) DEF k, f, size, rest, same
  <2>2. /\ Fragments(h) \subseteq Fragments(k)
        /\ \A g \in Fragments(k) \ Fragments(h) : ~same /\ g = rest
    BY <2>1
  <2> QED
    BY <2>1, <2>2, Zenon
<1>6. Coalesced(k) /\ Binned(k, FreeFragments(k))
  <2> HIDE DEF k, f, size
  <2> QED
    BY <1>1, <1>3, <1>4, AllocationKeepsTheBins, Zenon DEF k, f, size
<1> HIDE DEF k, f, size
<1>7. f \in InUse(k) \ InUse(h)
  BY <1>4, <1>5 DEF InUse
<1>8. Keeps(k, h, InUse(h))
  <2>1. InUse(h) \subseteq Fragments(h) \ {f}
    BY <1>7 DEF InUse
  <2>2. \A g \in InUse(h) : k.fragments[g].size = h.fragments[g].size
    BY <1>5, <2>1
  <2>3. ASSUME NEW g \in InUse(h) PROVE g \in InUse(k)
    <3>1. g \in Fragments(h) \ {f} /\ h.fragments[g].used
      BY <2>1 DEF InUse
    <3>2. k.fragments[g].used = h.fragments[g].used
      BY <1>5, <3>1, Zenon
    <3> QED
      BY <1>5, <3>1, <3>2 DEF InUse
  <2> QED
    BY <2>2, <2>3 DEF Keeps
<1>9. InUse(k) \ {f} = InUse(h)
  <2>1. ASSUME NEW g \in InUse(k) \ {f} PROVE g \in InUse(h)
    <3>1. g \in Fragments(h) \ {f} /\ k.fragments[g].used
      BY <1>5, <2>1 DEF InUse
    <3>2. k.fragments[g].used = h.fragments[g].used
      BY <1>5, <3>1, Zenon
    <3> QED
      BY <3>1, <3>2 DEF InUse
  <2> QED
    BY <1>7, <1>8, <2>1 DEF Keeps
<1>10. k.allocated = Total(k, InUse(k))
  <2>1. /\ InUse(k) \in SUBSET Places(k) /\ InUse(h) \in SUBSET Places(h)
        /\ InUse(h) \in SUBSET Fragments(h)
    BY DEF InUse, Fragments
  <2>2. Total(k, InUse(h)) = Total(h, InUse(h))
    BY <1>1, <1>5, <1>8, <2>1, TotalOfSame DEF Keeps
  <2>3. Total(h, InUse(h)) \in Nat /\ h.allocated = Total(h, InUse(h))
    BY <1>1, <2>1, TotalFits DEF Sound
  <2>4. Total(k, InUse(k)) = Total(k, InUse(h)) + size
    BY <1>5, <1>7, <1>9, <2>1, TotalWithout
  <2>5. k.allocated = h.allocated + size
    BY <1>1, <1>2, <2>3, AllocatedGrows DEF k, size
  <2> QED
    BY <2>2, <2>3, <2>4, <2>5
<1>11. Sound(k, capacity)
  BY <1>1, <1>5, <1>6, <1>10 DEF Sound
<1> QED
  BY <1>2, <1>5, <1>7, <1>8, <1>11 DEF k, f

(* Freeing a fragment in use leaves the others as they are.                *)
THEOREM FreeIsSound ==
    ASSUME NEW h, NEW capacity, Sound(h, capacity), NEW f \in InUse(h)
    PROVE  LET k == o1heapFree(h, f) IN
           Sound(k, capacity) /\ Keeps(k, h, InUse(h) \ {f})
<1> DEFINE k == o1heapFree(h, f)
<1>1. /\ IsHeap(h) /\ Chained(h) /\ Coalesced(h) /\ Binned(h, FreeFragments(h))
      /\ h.capacity = capacity /\ f \in Fragments(h) /\ h.fragments[f].used
  BY DEF Sound, InUse
<1>2. /\ IsHeap(k) /\ k.capacity = h.capacity /\ Chained(k) /\ Coalesced(k)
      /\ \A g \in Fragments(h) \ {f} : h.fragments[g].used =>
           /\ g \in Fragments(k) /\ k.fragments[g].used
           /\ k.fragments[g].size = h.fragments[g].size
      /\ \A g \in Fragments(k) : k.fragments[g].used =>
           g \in Fragments(h) \ {f} /\ h.fragments[g].used
      /\ Binned(k, FreeFragments(k))
  <2> HIDE DEF k
  <2> QED
    BY <1>1, FreeKeepsTheChain, ZenonT(20) DEF k
<1> HIDE DEF k
<1>3. Keeps(k, h, InUse(h) \ {f})
  BY <1>2, Zenon DEF Keeps, InUse
<1>4. InUse(k) = InUse(h) \ {f}
  <2>1. InUse(k) \subseteq InUse(h) \ {f}
    BY <1>2, Zenon DEF InUse
  <2> QED
    BY <1>3, <2>1 DEF Keeps
<1>5. k.allocated = Total(k, InUse(k))
  <2> DEFINE size == h.fragments[f].size
  <2>1. /\ InUse(h) \in SUBSET Places(h) /\ InUse(k) \in SUBSET Places(h)
        /\ InUse(h) \in SUBSET Fragments(h)
    BY <1>4 DEF InUse, Fragments
  <2>2. Total(k, InUse(k)) = Total(h, InUse(k))
    BY <1>1, <1>2, <1>3, <1>4, <2>1, TotalOfSame DEF Keeps
  <2>3. Total(h, InUse(h)) = Total(h, InUse(k)) + size /\ Total(h, InUse(k)) \in Nat
    BY <1>1, <1>4, <2>1, TotalWithout
  <2>4. Total(h, InUse(h)) \in Nat /\ h.allocated = Total(h, InUse(h))
    BY <1>1, <2>1, TotalFits DEF Sound
  <2>5. size \in Nat
    BY <1>1, FragmentsEnd
  <2>6. k.allocated = h.allocated - size
    BY <1>1, <2>4, <2>5, AllocatedShrinks DEF k
  <2> HIDE DEF size
  <2> QED
    BY <2>2, <2>3, <2>4, <2>5, <2>6
<1> QED
  BY <1>1, <1>2, <1>3, <1>5 DEF Sound, k

(* The memory of a fragment in use, and that it is apart from that of any  *)
(* other and from the ends of the heap.                                    *)
Room(h, f) == FRAGMENT_SIZE_MIN * h.fragments[f].size - O1HEAP_ALIGNMENT

LEMMA FragmentsAreApart ==
    ASSUME NEW h, NEW capacity, Sound(h, capacity), NEW f \in InUse(h)
    PROVE  /\ f \in Nat /\ Pointer(f) \in Nat /\ FragmentAt(Pointer(f)) = f
           /\ Room(h, f) \in Nat \ {0}
           /\ Room(h, f) = Pointer(f + h.fragments[f].size) - O1HEAP_ALIGNMENT - Pointer(f)
           /\ capacity \in Nat /\ Pointer(f) + Room(h, f) < Pointer(capacity)
           /\ \A g \in InUse(h) : g = f \/ Pointer(f) + Room(h, f) + 1 < Pointer(g)
                                        \/ Pointer(g) + Room(h, g) + 1 < Pointer(f)
<1>1. /\ IsHeap(h) /\ Chained(h) /\ h.capacity = capacity
      /\ f \in Fragments(h)
  BY DEF Sound, InUse
<1>2. /\ f \in Nat /\ h.fragments[f].size \in Nat \ {0} /\ capacity \in Nat
      /\ f + h.fragments[f].size <= capacity
  BY <1>1, FragmentsEnd DEF IsHeap
<1>3. ASSUME NEW g \in InUse(h), g # f
      PROVE  Pointer(f) + Room(h, f) + 1 < Pointer(g) \/ Pointer(g) + Room(h, g) + 1 < Pointer(f)
  <2>1. g \in Fragments(h) /\ g \in Nat /\ h.fragments[g].size \in Nat
    BY <1>1, FragmentsEnd DEF InUse
  <2>2. g > f => g >= f + h.fragments[f].size
    BY <1>1, <2>1 DEF Chained
  <2>3. f > g => f >= g + h.fragments[g].size
    BY <1>1, <2>1 DEF Chained
  <2> QED
    BY <1>2, <1>3, <2>1, <2>2, <2>3
    DEF Pointer, Room, FRAGMENT_SIZE_MIN, O1HEAP_ALIGNMENT, INSTANCE_SIZE_PADDED
<1>4. Pointer(f) \in Nat /\ FragmentAt(Pointer(f)) = f
  BY <1>2 DEF Pointer, FragmentAt, FRAGMENT_SIZE_MIN, O1HEAP_ALIGNMENT, INSTANCE_SIZE_PADDED
<1>5. /\ Room(h, f) \in Nat \ {0}
      /\ Room(h, f) = Pointer(f + h.fragments[f].size) - O1HEAP_ALIGNMENT - Pointer(f)
      /\ Pointer(f) + Room(h, f) < Pointer(capacity)
  BY <1>2 DEF Pointer, Room, FRAGMENT_SIZE_MIN, O1HEAP_ALIGNMENT, INSTANCE_SIZE_PADDED
<1> QED
  BY <1>2, <1>3, <1>4, <1>5

-----------------------------------------------------------------------------
(* The memory at p is that of a fragment in use, and has room for length.  *)
Holds(h, p, length) ==
    /\ p = Pointer(FragmentAt(p))
    /\ FragmentAt(p) \in InUse(h)
    /\ length <= Room(h, FragmentAt(p))

UserBlocks == [at : Nat, size : Sizes, owner : Threads, filled : Nat]

(* The user heap and its blocks, of which a fragment holds one at most.    *)
BlocksOK(h, blocks) ==
    /\ Sound(h, UserCapacity)
    /\ blocks \subseteq UserBlocks
    /\ \A b \in blocks : /\ b.filled <= b.size
                         /\ Holds(h, b.at, b.size)
                         /\ \A c \in blocks : c.at = b.at => c = b

(* The inductive invariant: the blocks of the user heap; those of the      *)
(* reallocations under way, which are of no two threads; what the blocks   *)
(* hold; and the physical heap, whose blocks lie in the memory that the    *)
(* words before them point to.                                             *)
Busy(t) == pc[t] # "guest"

CallsOK ==
    /\ pc \in [Threads -> {"guest", "copy", "free"}]
    /\ old = [t \in Threads |-> old[t]] /\ new = [t \in Threads |-> new[t]]
    /\ \A t \in Threads : Busy(t) => /\ old[t] \in userBlocks /\ new[t] \in userBlocks
                                     /\ old[t] # new[t] /\ new[t].owner = old[t].owner
    /\ \A s, t \in Threads : s # t /\ Busy(s) /\ Busy(t) =>
         old[s] \notin {old[t], new[t]} /\ new[s] \notin {old[t], new[t]}

MemoryOK ==
    /\ memory \in [Words -> Threads \cup {None}]
    /\ ContentsAreKept

(* The block lies in the memory that the word in front of it points to.    *)
LiesIn(h, b, word) ==
    /\ Holds(h, word.ptr, 1)
    /\ word.size = AtLeastOne(b.size) + O1HEAP_ALIGNMENT
    /\ b.at > word.ptr
    /\ b.at + AtLeastOne(b.size) <= word.ptr + Room(h, FragmentAt(word.ptr))

PhysicalBlocks == [at : Nat, size : Sizes]

PhysicalBlocksOK(h, words, blocks) ==
    /\ Sound(h, PhysicalCapacity)
    /\ blocks \subseteq PhysicalBlocks
    /\ words = [p \in {b.at : b \in blocks} |-> words[p]]
    /\ \A b \in blocks : /\ LiesIn(h, b, words[b.at])
                         /\ \A c \in blocks : words[c.at].ptr = words[b.at].ptr => c = b

HeapInv ==
    /\ BlocksOK(user, userBlocks) /\ CallsOK /\ MemoryOK
    /\ PhysicalBlocksOK(physical, prefix, physicalBlocks)

-----------------------------------------------------------------------------
LEMMA HoldsStill ==
    ASSUME NEW h, NEW k, NEW kept, Keeps(k, h, kept), NEW p, NEW length,
           Holds(h, p, length), FragmentAt(p) \in kept
    PROVE  Holds(k, p, length) /\ Room(k, FragmentAt(p)) = Room(h, FragmentAt(p))
  BY DEF Keeps, Holds, Room

LEMMA BlockAdded ==
    ASSUME NEW h, NEW blocks, BlocksOK(h, blocks),
           NEW k, Sound(k, UserCapacity), Keeps(k, h, InUse(h)),
           NEW b \in UserBlocks, b.filled <= b.size, Holds(k, b.at, b.size),
           FragmentAt(b.at) \notin InUse(h)
    PROVE  BlocksOK(k, blocks \cup {b}) /\ b \notin blocks
<1>1. ASSUME NEW c \in blocks
      PROVE  c.filled <= c.size /\ Holds(h, c.at, c.size) /\ Holds(k, c.at, c.size) /\ c.at # b.at
  <2>1. c.filled <= c.size /\ Holds(h, c.at, c.size)
    BY DEF BlocksOK
  <2>2. FragmentAt(c.at) \in InUse(h)
    BY <2>1 DEF Holds
  <2> QED
    BY <2>1, <2>2, HoldsStill, Zenon
<1>2. blocks \subseteq UserBlocks /\ \A c, d \in blocks : d.at = c.at => d = c
  BY DEF BlocksOK
<1> QED
  BY <1>1, <1>2, Zenon DEF BlocksOK

LEMMA BlockRemoved ==
    ASSUME NEW h, NEW blocks, BlocksOK(h, blocks), NEW b \in blocks,
           NEW k, Sound(k, UserCapacity), Keeps(k, h, InUse(h) \ {FragmentAt(b.at)})
    PROVE  BlocksOK(k, blocks \ {b})
<1>1. ASSUME NEW c \in blocks \ {b}
      PROVE  c.filled <= c.size /\ Holds(k, c.at, c.size)
  <2>1. c.filled <= c.size /\ Holds(h, c.at, c.size) /\ Holds(h, b.at, b.size) /\ c.at # b.at
    BY DEF BlocksOK
  <2>2. FragmentAt(c.at) \in InUse(h) \ {FragmentAt(b.at)}
    BY <2>1, Zenon DEF Holds
  <2> QED
    BY <2>1, <2>2, HoldsStill, Zenon
<1>2. blocks \subseteq UserBlocks /\ \A c, d \in blocks : d.at = c.at => d = c
  BY DEF BlocksOK
<1> QED
  BY <1>1, <1>2, Zenon DEF BlocksOK

LEMMA BlockChanged ==
    ASSUME NEW h, NEW blocks, BlocksOK(h, blocks), NEW b \in blocks,
           NEW c \in UserBlocks, c.filled <= c.size, c.at = b.at, c.size = b.size
    PROVE  BlocksOK(h, (blocks \ {b}) \cup {c})
<1>1. Sound(h, UserCapacity) /\ blocks \subseteq UserBlocks
  BY DEF BlocksOK
<1>2. \A d \in blocks : d.filled <= d.size /\ Holds(h, d.at, d.size)
  BY DEF BlocksOK
<1>3. \A d, e \in blocks : e.at = d.at => e = d
  BY DEF BlocksOK
<1>4. Holds(h, c.at, c.size)
  BY <1>2
<1> QED
  BY <1>1, <1>2, <1>3, <1>4, Zenon DEF BlocksOK

(* A block lies in the memory of its fragment, apart from the others.      *)
LEMMA BlocksAreApart ==
    ASSUME NEW h, NEW blocks, BlocksOK(h, blocks), NEW b \in blocks
    PROVE  LET room == Room(h, FragmentAt(b.at)) IN
           /\ b.at \in Nat /\ b.size \in Nat /\ b.filled \in Nat /\ b.filled <= b.size
           /\ room \in Nat /\ b.size <= room
           /\ Interval(b.at, room) \subseteq Words
           /\ Interval(b.at, b.size) \subseteq Interval(b.at, room)
           /\ Interval(b.at, b.filled) \subseteq Interval(b.at, b.size)
           /\ \A c \in blocks \ {b} : Interval(b.at, room) \cap Interval(c.at, c.size) = {}
<1> DEFINE f == FragmentAt(b.at)
           room == Room(h, f)
<1>1. /\ Sound(h, UserCapacity) /\ blocks \subseteq UserBlocks
      /\ \A c \in blocks : c.filled <= c.size /\ Holds(h, c.at, c.size)
      /\ \A c \in blocks : c.at = b.at => c = b
  BY DEF BlocksOK
<1>2. b \in UserBlocks /\ b.at = Pointer(f) /\ f \in InUse(h) /\ b.size <= room
  BY <1>1 DEF Holds
<1>3. b.at \in Nat /\ b.size \in Nat /\ b.filled \in Nat /\ b.filled <= b.size
  BY <1>1, <1>2, HeapAssumption DEF UserBlocks
<1> HIDE DEF f, room
<1>4. /\ room \in Nat /\ UserCapacity \in Nat /\ Pointer(f) + room < Pointer(UserCapacity)
      /\ \A g \in InUse(h) : g = f \/ Pointer(f) + room + 1 < Pointer(g)
                                   \/ Pointer(g) + Room(h, g) + 1 < Pointer(f)
  BY <1>1, <1>2, FragmentsAreApart DEF room
<1>5. Interval(b.at, room) \subseteq Words
  <2>1. Pointer(UserCapacity) \in Nat
    BY <1>4 DEF Pointer, INSTANCE_SIZE_PADDED, FRAGMENT_SIZE_MIN, O1HEAP_ALIGNMENT
  <2> QED
    BY <1>2, <1>3, <1>4, <2>1 DEF Interval, Words
<1>6. ASSUME NEW c \in blocks \ {b}
      PROVE  Interval(b.at, room) \cap Interval(c.at, c.size) = {}
  <2> DEFINE g == FragmentAt(c.at)
  <2>1. /\ c.at = Pointer(g) /\ g \in InUse(h) /\ c.size <= Room(h, g) /\ c.at # b.at
        /\ c \in UserBlocks
    BY <1>1 DEF Holds
  <2>2. c.at \in Nat /\ c.size \in Nat
    BY <2>1, HeapAssumption DEF UserBlocks
  <2>3. Room(h, g) \in Nat
    BY <1>1, <2>1, FragmentsAreApart
  <2> HIDE DEF g
  <2>4. b.at + room < c.at \/ c.at + c.size < b.at
    BY <1>2, <1>3, <1>4, <2>1, <2>2, <2>3
  <2> QED
    BY <1>3, <1>4, <2>2, <2>4 DEF Interval
<1>7. /\ Interval(b.at, b.size) \subseteq Interval(b.at, room)
      /\ Interval(b.at, b.filled) \subseteq Interval(b.at, b.size)
  BY <1>2, <1>3, <1>4 DEF Interval
<1> QED
  BY <1>2, <1>3, <1>4, <1>5, <1>6, <1>7 DEF f, room

-----------------------------------------------------------------------------
(* Heap::alloc gives a block that was not there, and Heap::free takes one. *)
LEMMA AllocGives ==
    ASSUME BlocksOK(user, userBlocks),
           NEW size \in Sizes, NEW owner \in Threads, NEW filled \in 0 .. size,
           alloc(size, owner, filled)
    PROVE  LET b == UserBlock(size, owner, filled) IN
           /\ b \in UserBlocks /\ b.size = size /\ b.owner = owner /\ b.filled = filled
           /\ b \notin userBlocks /\ userBlocks' = userBlocks \cup {b}
           /\ BlocksOK(user', userBlocks')
<1> DEFINE b == UserBlock(size, owner, filled)
           amount == AtLeastOne(size)
           f == Chosen(user, amount)
<1>1. size \in Nat /\ filled \in Nat /\ filled <= size
  BY HeapAssumption
<1>2. amount \in Nat \ {0} /\ amount >= size
  BY <1>1 DEF AtLeastOne
<1>3. /\ Sound(user, UserCapacity) /\ Allocates(user, amount)
      /\ user' = o1heapAllocate(user, amount)
      /\ userBlocks' = userBlocks \cup {b}
  BY DEF alloc, BlocksOK
<1>4. /\ Sound(user', UserCapacity) /\ Keeps(user', user, InUse(user))
      /\ f \in InUse(user') \ InUse(user)
      /\ FRAGMENT_SIZE_MIN * user'.fragments[f].size >= amount + O1HEAP_ALIGNMENT
  <2> HIDE DEF amount, f
  <2> QED
    BY <1>2, <1>3, AllocationIsSound, Zenon DEF f
<1>5. /\ b.at = Pointer(f) /\ b.size = size /\ b.owner = owner /\ b.filled = filled
  BY DEF UserBlock
<1>6. b = [at |-> Pointer(f), size |-> size, owner |-> owner, filled |-> filled]
  BY DEF UserBlock
<1> HIDE DEF b, amount, f
<1>7. /\ f \in Nat /\ Pointer(f) \in Nat /\ FragmentAt(Pointer(f)) = f
      /\ Room(user', f) \in Nat
  BY <1>4, FragmentsAreApart
<1>8. user'.fragments[f].size \in Nat
  BY <1>4, FragmentsEnd DEF Sound, InUse
<1>9. size <= Room(user', f)
  BY <1>1, <1>2, <1>4, <1>8 DEF Room, FRAGMENT_SIZE_MIN, O1HEAP_ALIGNMENT
<1>10. Holds(user', b.at, b.size)
  BY <1>4, <1>5, <1>7, <1>9 DEF Holds
<1>11. b \in UserBlocks
  BY <1>1, <1>6, <1>7 DEF UserBlocks
<1>12. BlocksOK(user', userBlocks \cup {b}) /\ b \notin userBlocks
  <2>1. b.filled <= b.size /\ FragmentAt(b.at) \notin InUse(user)
    BY <1>1, <1>4, <1>5, <1>7
  <2> QED
    BY <1>4, <1>10, <1>11, <2>1, BlockAdded, Zenon
<1> QED
  BY <1>3, <1>5, <1>11, <1>12 DEF b

LEMMA FreeTakes ==
    ASSUME BlocksOK(user, userBlocks), NEW b \in userBlocks, free(b)
    PROVE  userBlocks' = userBlocks \ {b} /\ BlocksOK(user', userBlocks')
<1> DEFINE f == FragmentAt(b.at)
<1>1. Sound(user, UserCapacity) /\ f \in InUse(user)
  BY DEF BlocksOK, Holds
<1>2. user' = o1heapFree(user, f) /\ userBlocks' = userBlocks \ {b}
  BY DEF free
<1>3. Sound(user', UserCapacity) /\ Keeps(user', user, InUse(user) \ {f})
  <2> HIDE DEF f
  <2> QED
    BY <1>1, <1>2, FreeIsSound, Zenon
<1> QED
  BY <1>2, <1>3, BlockRemoved, Zenon

(* What is freed is forgotten, and nothing else is.                        *)
LEMMA FreeForgets ==
    ASSUME BlocksOK(user, userBlocks), MemoryOK,
           NEW b \in userBlocks, free(b)
    PROVE  MemoryOK'
<1>1. memory' = [w \in Words |-> IF w \in Interval(b.at, b.size) THEN None ELSE memory[w]]
  BY DEF free
<1>2. memory' \in [Words -> Threads \cup {None}]
  BY <1>1 DEF MemoryOK
<1>3. ASSUME NEW c \in userBlocks \ {b}, NEW w \in Interval(c.at, c.filled)
      PROVE  memory'[w] = c.owner
  <2>1. Interval(b.at, b.size) \cap Interval(c.at, c.size) = {}
    BY BlocksAreApart, Zenon
  <2>2. w \in Interval(c.at, c.size) /\ w \in Words
    BY BlocksAreApart, Zenon
  <2>3. memory[w] = c.owner
    BY DEF MemoryOK, ContentsAreKept
  <2> QED
    BY <1>1, <2>1, <2>2, <2>3
<1>4. userBlocks' = userBlocks \ {b}
  BY DEF free
<1> QED
  BY <1>2, <1>3, <1>4 DEF MemoryOK, ContentsAreKept

(* The reallocations under way keep their blocks.                          *)
LEMMA SameCalls ==
    ASSUME CallsOK, UNCHANGED calls,
           \A t \in Threads : Busy(t) => old[t] \in userBlocks' /\ new[t] \in userBlocks'
    PROVE  CallsOK'
<1>1. pc' = pc /\ old' = old /\ new' = new
  BY DEF calls
<1> QED
  BY <1>1 DEF CallsOK, Busy

LEMMA IdleIsApart ==
    ASSUME NEW b, Idle(b), CallsOK
    PROVE  \A t \in Threads : Busy(t) => /\ old[t] \in userBlocks \ {b}
                                         /\ new[t] \in userBlocks \ {b}
  BY DEF Idle, CallsOK

LEMMA SmallerOfTwo ==
    ASSUME NEW m \in Nat, NEW n \in Nat
    PROVE  Min({m, n}) = IF m <= n THEN m ELSE n
<1> DEFINE S == {m, n}
<1>1. S \in SUBSET Nat /\ S # {}
  OBVIOUS
<1> HIDE DEF S
<1>2. Min(S) \in S /\ \A k \in S : Min(S) <= k
  BY <1>1, LeastMember
<1> QED
  BY <1>2 DEF S

(* The guest fills the block it allocates.                                 *)
LEMMA AllocateKeeps ==
    ASSUME BlocksOK(user, userBlocks), CallsOK, MemoryOK,
           NEW t \in Threads, NEW size \in Sizes, Allocate(t, size)
    PROVE  BlocksOK(user', userBlocks') /\ CallsOK' /\ MemoryOK'
<1> DEFINE b == UserBlock(size, t, size)
<1>1. /\ b \in UserBlocks /\ b.size = size /\ b.owner = t /\ b.filled = size
      /\ b \notin userBlocks /\ userBlocks' = userBlocks \cup {b}
      /\ BlocksOK(user', userBlocks')
  <2>1. size \in 0 .. size /\ alloc(size, t, size)
    BY HeapAssumption DEF Allocate
  <2> HIDE DEF b
  <2> QED
    BY <2>1, AllocGives, Zenon DEF b
<1>2. memory' = [w \in Words |-> IF w \in Interval(b.at, size) THEN t ELSE memory[w]]
  BY DEF Allocate
<1> HIDE DEF b
<1>3. memory' \in [Words -> Threads \cup {None}]
  BY <1>2 DEF MemoryOK
<1>4. ASSUME NEW c \in userBlocks', NEW w \in Interval(c.at, c.filled)
      PROVE  memory'[w] = c.owner
  <2>1. w \in Words /\ w \in Interval(c.at, c.size)
    BY <1>1, BlocksAreApart, Zenon
  <2>2. CASE c = b
    BY <1>1, <1>2, <2>1, <2>2
  <2>3. CASE c \in userBlocks
    <3>1. Interval(b.at, b.size) \cap Interval(c.at, c.size) = {}
      <4>1. b \in userBlocks' /\ c \in userBlocks' \ {b}
        BY <1>1, <2>3
      <4> QED
        BY <1>1, <4>1, BlocksAreApart, ZenonT(20)
    <3>2. memory[w] = c.owner
      BY <2>3 DEF MemoryOK, ContentsAreKept
    <3> QED
      BY <1>1, <1>2, <2>1, <3>1, <3>2
  <2> QED
    BY <1>1, <2>2, <2>3
<1>5. CallsOK'
  <2>1. UNCHANGED calls
    BY DEF Allocate
  <2> QED
    BY <1>1, <2>1, SameCalls DEF CallsOK
<1> QED
  BY <1>1, <1>3, <1>4, <1>5 DEF MemoryOK, ContentsAreKept

(* A reallocation begins with a block that nobody has and one that nobody  *)
(* is reallocating.                                                        *)
LEMMA ReallocateKeeps ==
    ASSUME BlocksOK(user, userBlocks), CallsOK, MemoryOK,
           NEW t \in Threads, NEW b \in userBlocks, NEW size \in Sizes, Reallocate(t, b, size)
    PROVE  BlocksOK(user', userBlocks') /\ CallsOK' /\ MemoryOK'
<1> DEFINE c == UserBlock(size, b.owner, 0)
<1>1. b.owner \in Threads /\ size \in Nat
  BY HeapAssumption DEF BlocksOK, UserBlocks
<1>2. /\ c \in UserBlocks /\ c.owner = b.owner /\ c.filled = 0
      /\ c \notin userBlocks /\ userBlocks' = userBlocks \cup {c}
      /\ BlocksOK(user', userBlocks')
  <2>1. 0 \in 0 .. size /\ alloc(size, b.owner, 0)
    BY <1>1 DEF Reallocate
  <2> DEFINE owner == b.owner
             filled == 0
             d == UserBlock(size, owner, filled)
  <2>2. owner \in Threads /\ alloc(size, owner, filled) /\ filled \in 0 .. size
    BY <1>1, <2>1
  <2> HIDE DEF owner, filled, d
  <2>3. /\ d \in UserBlocks /\ d.size = size /\ d.owner = owner /\ d.filled = filled
        /\ d \notin userBlocks /\ userBlocks' = userBlocks \cup {d}
        /\ BlocksOK(user', userBlocks')
    BY <2>2, AllocGives, Zenon DEF d
  <2> QED
    BY <2>3 DEF d, owner, filled
<1>3. /\ old' = [old EXCEPT ![t] = b] /\ new' = [new EXCEPT ![t] = c]
      /\ pc' = [pc EXCEPT ![t] = "copy"] /\ ~Busy(t) /\ Idle(b) /\ memory' = memory
  BY DEF Reallocate, Busy, InGuest
<1> HIDE DEF c
<1>4. /\ pc' \in [Threads -> {"guest", "copy", "free"}]
      /\ old' = [s \in Threads |-> old'[s]] /\ new' = [s \in Threads |-> new'[s]]
      /\ \A s \in Threads \ {t} : pc'[s] = pc[s] /\ old'[s] = old[s] /\ new'[s] = new[s]
      /\ old'[t] = b /\ new'[t] = c
  BY <1>3 DEF CallsOK
<1>5. ASSUME NEW s \in Threads \ {t}, Busy(s)'
      PROVE  /\ old'[s] \in userBlocks \ {b, c} /\ new'[s] \in userBlocks \ {b, c}
             /\ old'[s] # new'[s] /\ new'[s].owner = old'[s].owner
  <2>1. Busy(s) /\ old'[s] = old[s] /\ new'[s] = new[s]
    BY <1>4, <1>5 DEF Busy
  <2>2. old[s] \in userBlocks \ {b} /\ new[s] \in userBlocks \ {b}
    BY <1>3, <2>1, IdleIsApart, Zenon
  <2>3. old[s] # new[s] /\ new[s].owner = old[s].owner
    BY <2>1 DEF CallsOK
  <2> QED
    BY <1>2, <2>1, <2>2, <2>3
<1>6. CallsOK'
  <2>1. \A s \in Threads : Busy(s)' => /\ old'[s] \in userBlocks' /\ new'[s] \in userBlocks'
                                       /\ old'[s] # new'[s] /\ new'[s].owner = old'[s].owner
    BY <1>2, <1>4, <1>5
  <2>2. ASSUME NEW r \in Threads, NEW s \in Threads, r # s, Busy(r)', Busy(s)'
        PROVE  old'[r] \notin {old'[s], new'[s]} /\ new'[r] \notin {old'[s], new'[s]}
    <3>1. CASE r # t /\ s # t
      BY <1>4, <2>2, <3>1 DEF CallsOK, Busy
    <3>2. CASE r = t \/ s = t
      BY <1>4, <1>5, <2>2, <3>2
    <3> QED
      BY <3>1, <3>2
  <2> QED
    BY <1>4, <2>1, <2>2 DEF CallsOK
<1>7. MemoryOK'
  <2>1. \A w : w \notin Interval(c.at, 0)
    <3>1. c.at \in Nat
      BY <1>2 DEF UserBlocks
    <3> QED
      BY <3>1 DEF Interval
  <2> QED
    BY <1>2, <1>3, <2>1 DEF MemoryOK, ContentsAreKept
<1> QED
  BY <1>2, <1>6, <1>7

(* The copy fills the new block as far as the old one was filled, reads    *)
(* the old one only and writes the new one only.                           *)
LEMMA CopyKeeps ==
    ASSUME BlocksOK(user, userBlocks), CallsOK, MemoryOK,
           NEW t \in Threads, Copy(t)
    PROVE  BlocksOK(user', userBlocks') /\ CallsOK' /\ MemoryOK'
<1> DEFINE o == old[t]
           n == new[t]
           length == Min({n.size, SizeOfUser(o)})
           filled == Min({o.filled, n.size})
           shift == n.at - o.at
           kept == [n EXCEPT !.filled = filled]
<1>1. /\ Busy(t) /\ user' = user /\ old' = old
      /\ memory' = [w \in Words |-> IF w \in Interval(n.at, length) THEN memory[w - shift]
                                    ELSE memory[w]]
      /\ userBlocks' = (userBlocks \ {n}) \cup {kept}
      /\ new' = [new EXCEPT ![t] = kept] /\ pc' = [pc EXCEPT ![t] = "free"]
  BY DEF Copy, Busy
<1>2. /\ o \in userBlocks /\ n \in userBlocks /\ o # n /\ n.owner = o.owner
      /\ o \in UserBlocks /\ n \in UserBlocks
  BY <1>1 DEF CallsOK, BlocksOK
<1> HIDE DEF o, n
<1>3. /\ o.at \in Nat /\ o.filled \in Nat /\ o.size \in Nat /\ o.filled <= o.size
      /\ SizeOfUser(o) \in Nat /\ o.size <= SizeOfUser(o)
      /\ Interval(o.at, SizeOfUser(o)) \subseteq Words
      /\ n.at \in Nat /\ n.size \in Nat
  BY <1>2, BlocksAreApart, Zenon DEF SizeOfUser, Room
<1>4. /\ length \in Nat /\ length <= n.size /\ length <= SizeOfUser(o)
      /\ filled \in Nat /\ filled <= length /\ filled <= o.filled
      /\ shift = n.at - o.at
  <2>1. length = IF n.size <= SizeOfUser(o) THEN n.size ELSE SizeOfUser(o)
    BY <1>3, SmallerOfTwo
  <2>2. filled = IF o.filled <= n.size THEN o.filled ELSE n.size
    BY <1>3, SmallerOfTwo
  <2> HIDE DEF length, filled
  <2> QED
    BY <1>3, <2>1, <2>2
<1> HIDE DEF length, filled, shift
<1>5. /\ kept \in UserBlocks /\ kept.at = n.at /\ kept.size = n.size /\ kept.owner = n.owner
      /\ kept.filled = filled
  BY <1>2, <1>4 DEF UserBlocks
<1> HIDE DEF kept
<1>6. BlocksOK(user', userBlocks')
  <2>1. kept.filled <= kept.size
    BY <1>3, <1>4, <1>5
  <2>2. BlocksOK(user, (userBlocks \ {n}) \cup {kept})
    BY <1>2, <1>5, <2>1, BlockChanged, Zenon
  <2> QED
    BY <1>1, <2>2
<1>7. \A c \in userBlocks \ {n} : c # kept
  BY <1>2, <1>5, Zenon DEF BlocksOK
<1>8. memory' \in [Words -> Threads \cup {None}]
  <2>1. ASSUME NEW w \in Interval(n.at, length)
        PROVE  w - shift \in Words
    <3>1. w - shift \in Interval(o.at, SizeOfUser(o))
      BY <1>3, <1>4 DEF Interval
    <3> QED
      BY <1>3, <3>1
  <2> QED
    BY <1>1, <2>1 DEF MemoryOK
<1>9. ASSUME NEW c \in userBlocks', NEW w \in Interval(c.at, c.filled)
      PROVE  memory'[w] = c.owner
  <2>1. w \in Words
    BY <1>6, BlocksAreApart, Zenon
  <2>2. CASE c = kept
    <3>1. w \in Interval(n.at, length) /\ w - shift \in Interval(o.at, o.filled)
      BY <1>3, <1>4, <1>5, <2>2 DEF Interval
    <3>2. memory[w - shift] = o.owner
      BY <1>2, <3>1 DEF MemoryOK, ContentsAreKept
    <3> QED
      BY <1>1, <1>2, <1>5, <2>1, <2>2, <3>1, <3>2
  <2>3. CASE c \in userBlocks \ {n}
    <3>1. memory[w] = c.owner
      BY <2>3 DEF MemoryOK, ContentsAreKept
    <3>2. Interval(n.at, n.size) \cap Interval(c.at, c.size) = {}
      BY <1>2, <2>3, BlocksAreApart, Zenon
    <3>3. w \in Interval(c.at, c.size)
      BY <2>3, BlocksAreApart, Zenon
    <3>4. Interval(n.at, length) \subseteq Interval(n.at, n.size)
      BY <1>3, <1>4 DEF Interval
    <3> QED
      BY <1>1, <2>1, <3>1, <3>2, <3>3, <3>4
  <2> QED
    BY <1>1, <2>2, <2>3
<1>10. /\ pc' \in [Threads -> {"guest", "copy", "free"}]
       /\ new' = [s \in Threads |-> new'[s]] /\ new'[t] = kept
       /\ \A s \in Threads \ {t} : pc'[s] = pc[s] /\ new'[s] = new[s]
  BY <1>1 DEF CallsOK
<1>11. ASSUME NEW s \in Threads \ {t}, Busy(s)'
       PROVE  /\ old'[s] \in userBlocks' \ {kept, o} /\ new'[s] \in userBlocks' \ {kept, o}
              /\ old'[s] # new'[s] /\ new'[s].owner = old'[s].owner
  <2>1. Busy(s) /\ old'[s] = old[s] /\ new'[s] = new[s]
    BY <1>1, <1>10, <1>11 DEF Busy
  <2>2. /\ old[s] \in userBlocks \ {n, o} /\ new[s] \in userBlocks \ {n, o}
        /\ old[s] # new[s] /\ new[s].owner = old[s].owner
    BY <1>1, <2>1 DEF CallsOK, n, o
  <2> QED
    BY <1>1, <1>7, <2>1, <2>2
<1>12. CallsOK'
  <2>1. o \in userBlocks' /\ kept \in userBlocks' /\ o # kept /\ old'[t] = o
    BY <1>1, <1>2, <1>7 DEF o
  <2>2. \A s \in Threads : Busy(s)' => /\ old'[s] \in userBlocks' /\ new'[s] \in userBlocks'
                                       /\ old'[s] # new'[s] /\ new'[s].owner = old'[s].owner
    BY <1>2, <1>5, <1>10, <1>11, <2>1
  <2>3. ASSUME NEW r \in Threads, NEW s \in Threads, r # s, Busy(r)', Busy(s)'
        PROVE  old'[r] \notin {old'[s], new'[s]} /\ new'[r] \notin {old'[s], new'[s]}
    <3>1. CASE r # t /\ s # t
      BY <1>1, <1>10, <2>3, <3>1 DEF CallsOK, Busy
    <3>2. CASE r = t \/ s = t
      BY <1>10, <1>11, <2>1, <2>3, <3>2
    <3> QED
      BY <3>1, <3>2
  <2>4. old' = [s \in Threads |-> old'[s]]
    BY <1>1 DEF CallsOK
  <2> QED
    BY <1>10, <2>2, <2>3, <2>4 DEF CallsOK
<1> QED
  BY <1>6, <1>8, <1>9, <1>12 DEF MemoryOK, ContentsAreKept

(* The old block goes, and with it the reallocation.                       *)
LEMMA FreeOldKeeps ==
    ASSUME BlocksOK(user, userBlocks), CallsOK, MemoryOK,
           NEW t \in Threads, FreeOld(t)
    PROVE  BlocksOK(user', userBlocks') /\ CallsOK' /\ MemoryOK'
<1>1. /\ Busy(t) /\ free(old[t])
      /\ old' = [old EXCEPT ![t] = None] /\ new' = [new EXCEPT ![t] = None]
      /\ pc' = [pc EXCEPT ![t] = "guest"]
  BY DEF FreeOld, Busy
<1>2. old[t] \in userBlocks
  BY <1>1 DEF CallsOK
<1>3. userBlocks' = userBlocks \ {old[t]} /\ BlocksOK(user', userBlocks') /\ MemoryOK'
  BY <1>1, <1>2, FreeTakes, FreeForgets, Zenon
<1>4. /\ pc' \in [Threads -> {"guest", "copy", "free"}] /\ ~Busy(t)'
      /\ old' = [s \in Threads |-> old'[s]] /\ new' = [s \in Threads |-> new'[s]]
      /\ \A s \in Threads \ {t} : pc'[s] = pc[s] /\ old'[s] = old[s] /\ new'[s] = new[s]
  BY <1>1 DEF CallsOK, Busy
<1>5. ASSUME NEW s \in Threads, Busy(s)'
      PROVE  /\ old'[s] \in userBlocks' /\ new'[s] \in userBlocks'
             /\ old'[s] # new'[s] /\ new'[s].owner = old'[s].owner
  <2>1. s # t /\ Busy(s) /\ old'[s] = old[s] /\ new'[s] = new[s]
    BY <1>4, <1>5 DEF Busy
  <2>2. /\ old[s] \in userBlocks /\ new[s] \in userBlocks
        /\ old[s] # new[s] /\ new[s].owner = old[s].owner
        /\ old[s] # old[t] /\ new[s] # old[t]
    BY <1>1, <2>1 DEF CallsOK
  <2> QED
    BY <1>3, <2>1, <2>2
<1>6. \A r, s \in Threads : r # s /\ Busy(r)' /\ Busy(s)' =>
        old'[r] \notin {old'[s], new'[s]} /\ new'[r] \notin {old'[s], new'[s]}
  BY <1>4 DEF CallsOK, Busy
<1> QED
  BY <1>3, <1>4, <1>5, <1>6 DEF CallsOK

(* A block that is not being reallocated can be freed.                     *)
LEMMA IdleFreeKeeps ==
    ASSUME BlocksOK(user, userBlocks), CallsOK, MemoryOK,
           NEW b \in userBlocks, Idle(b), free(b), UNCHANGED calls
    PROVE  BlocksOK(user', userBlocks') /\ CallsOK' /\ MemoryOK'
<1>1. userBlocks' = userBlocks \ {b} /\ BlocksOK(user', userBlocks') /\ MemoryOK'
  BY FreeTakes, FreeForgets, Zenon
<1>2. CallsOK'
  BY <1>1, IdleIsApart, SameCalls
<1> QED
  BY <1>1, <1>2

-----------------------------------------------------------------------------
(* The aligned block, with the word in front of it, lies inside the memory *)
(* that alloc_physical has asked o1heap for, and at a multiple of the      *)
(* alignment.                                                              *)
THEOREM PhysicalBlockFits ==
    ASSUME NEW p \in Nat, NEW size \in Nat, NEW alignment \in Nat
    PROVE  LET a == Alignment(alignment)
               amount == AtLeastOne(size) + a
               at == Align(p, a)
           IN /\ amount \in Nat \ {0} /\ AtLeastOne(size) \in Nat \ {0}
              /\ at \in Nat /\ at - 1 >= p
              /\ at + AtLeastOne(size) <= p + amount
              /\ \E k \in Nat : at = k * a
<1> DEFINE a == Alignment(alignment)
           q == (p + a) \div a
<1>1. a \in Nat \ {0}
  BY HeapAssumption DEF Alignment
<1>2. q \in Nat /\ q * a <= p + a /\ p + a < q * a + a
  BY <1>1, Quotient
<1>3. Align(p, a) = q * a
  BY DEF Align
<1>4. q * a \in Nat
  BY <1>1, <1>2
<1>5. AtLeastOne(size) \in Nat \ {0}
  BY DEF AtLeastOne
<1> HIDE DEF q
<1> QED
  BY <1>1, <1>2, <1>3, <1>4, <1>5

Written(words, at, word) ==
    [p \in DOMAIN words \cup {at} |-> IF p = at THEN word ELSE words[p]]

(* A physical block with its word is added where o1heap has allocated.     *)
LEMMA PhysicalAdded ==
    ASSUME NEW h, NEW words, NEW blocks, PhysicalBlocksOK(h, words, blocks),
           NEW k, Sound(k, PhysicalCapacity), Keeps(k, h, InUse(h)),
           NEW b \in PhysicalBlocks, NEW word, LiesIn(k, b, word),
           FragmentAt(word.ptr) \notin InUse(h), \A c \in blocks : c.at # b.at
    PROVE  PhysicalBlocksOK(k, Written(words, b.at, word),
                            blocks \cup {b})
<1> DEFINE changed == Written(words, b.at, word)
           more == blocks \cup {b}
<1>1. /\ blocks \subseteq PhysicalBlocks
      /\ words = [p \in {c.at : c \in blocks} |-> words[p]]
      /\ \A c \in blocks : LiesIn(h, c, words[c.at])
      /\ \A c, d \in blocks : words[d.at].ptr = words[c.at].ptr => d = c
  BY DEF PhysicalBlocksOK
<1>2. DOMAIN words = {c.at : c \in blocks}
  BY <1>1
<1> USE DEF Written
<1>3. changed = [p \in {c.at : c \in more} |-> changed[p]]
  <2>1. DOMAIN words \cup {b.at} = {c.at : c \in more}
    BY <1>2
  <2> QED
    BY <2>1
<1>4. changed[b.at] = word /\ \A c \in blocks : changed[c.at] = words[c.at]
  BY <1>2
<1> HIDE DEF changed, Written
<1>5. ASSUME NEW c \in blocks
      PROVE  LiesIn(k, c, changed[c.at]) /\ words[c.at].ptr # word.ptr
  <2> DEFINE w == words[c.at]
  <2>1. LiesIn(h, c, w) /\ changed[c.at] = w
    BY <1>1, <1>4
  <2> HIDE DEF w
  <2>2. Holds(h, w.ptr, 1) /\ FragmentAt(w.ptr) \in InUse(h)
    BY <2>1 DEF LiesIn, Holds
  <2>3. Holds(k, w.ptr, 1) /\ Room(k, FragmentAt(w.ptr)) = Room(h, FragmentAt(w.ptr))
    BY <2>2, HoldsStill, Zenon
  <2>4. LiesIn(k, c, w)
    BY <2>1, <2>3 DEF LiesIn
  <2> QED
    BY <2>1, <2>2, <2>4 DEF w
<1>6. \A c, d \in more : changed[d.at].ptr = changed[c.at].ptr => d = c
  BY <1>1, <1>4, <1>5
<1>7. \A c \in more : LiesIn(k, c, changed[c.at])
  BY <1>4, <1>5
<1>8. more \subseteq PhysicalBlocks
  BY <1>1
<1> QED
  BY <1>3, <1>6, <1>7, <1>8, Zenon DEF PhysicalBlocksOK, changed

(* A physical block is taken away with its word.                           *)
LEMMA PhysicalRemoved ==
    ASSUME NEW h, NEW words, NEW blocks, PhysicalBlocksOK(h, words, blocks), NEW b \in blocks,
           NEW k, Sound(k, PhysicalCapacity),
           Keeps(k, h, InUse(h) \ {FragmentAt(words[b.at].ptr)})
    PROVE  PhysicalBlocksOK(k, [p \in DOMAIN words \ {b.at} |-> words[p]], blocks \ {b})
<1> DEFINE changed == [p \in DOMAIN words \ {b.at} |-> words[p]]
           fewer == blocks \ {b}
<1>1. /\ blocks \subseteq PhysicalBlocks
      /\ words = [p \in {c.at : c \in blocks} |-> words[p]]
      /\ \A c \in blocks : LiesIn(h, c, words[c.at])
      /\ \A c, d \in blocks : words[d.at].ptr = words[c.at].ptr => d = c
  BY DEF PhysicalBlocksOK
<1>2. DOMAIN words \ {b.at} = {c.at : c \in fewer}
  <2>1. DOMAIN words = {c.at : c \in blocks}
    BY <1>1
  <2>2. \A c \in fewer : c.at # b.at
    BY <1>1
  <2> QED
    BY <2>1, <2>2
<1>3. changed = [p \in {c.at : c \in fewer} |-> changed[p]]
  BY <1>2
<1>4. \A c \in fewer : changed[c.at] = words[c.at]
  BY <1>2
<1> HIDE DEF changed
<1>5. ASSUME NEW c \in fewer
      PROVE  LiesIn(k, c, changed[c.at])
  <2> DEFINE w == words[c.at]
             v == words[b.at]
  <2>1. LiesIn(h, c, w) /\ LiesIn(h, b, v) /\ changed[c.at] = w /\ w.ptr # v.ptr
    BY <1>1, <1>4
  <2>2. Keeps(k, h, InUse(h) \ {FragmentAt(v.ptr)})
    OBVIOUS
  <2> HIDE DEF w, v
  <2>3. Holds(h, w.ptr, 1) /\ FragmentAt(w.ptr) \in InUse(h) /\ FragmentAt(w.ptr) # FragmentAt(v.ptr)
    BY <2>1, Zenon DEF LiesIn, Holds
  <2>4. Holds(k, w.ptr, 1) /\ Room(k, FragmentAt(w.ptr)) = Room(h, FragmentAt(w.ptr))
    <3> DEFINE kept == InUse(h) \ {FragmentAt(v.ptr)}
    <3>1. FragmentAt(w.ptr) \in kept /\ Keeps(k, h, kept)
      BY <2>2, <2>3
    <3> HIDE DEF kept
    <3> QED
      BY <2>3, <3>1, HoldsStill, Zenon
  <2>5. LiesIn(k, c, w)
    BY <2>1, <2>4 DEF LiesIn
  <2> QED
    BY <2>1, <2>5 DEF w
<1>6. \A c, d \in fewer : changed[d.at].ptr = changed[c.at].ptr => d = c
  BY <1>1, <1>4
<1>7. fewer \subseteq PhysicalBlocks
  BY <1>1
<1> QED
  BY <1>3, <1>5, <1>6, <1>7, Zenon DEF PhysicalBlocksOK, changed

(* Heap::alloc_physical: the aligned address fits and is nobody's.         *)
LEMMA AllocatePhysicalKeeps ==
    ASSUME PhysicalBlocksOK(physical, prefix, physicalBlocks),
           NEW t \in Threads, NEW size \in Sizes, NEW alignment \in Alignments,
           AllocatePhysical(t, size, alignment)
    PROVE  PhysicalBlocksOK(physical', prefix', physicalBlocks')
<1> DEFINE a == Alignment(alignment)
           length == AtLeastOne(size)
           amount == length + a
           f == Chosen(physical, amount)
           p == Pointer(f)
           at == Align(p, a)
           b == [at |-> at, size |-> size]
           word == [ptr |-> p, size |-> length + O1HEAP_ALIGNMENT]
<1>1. /\ Allocates(physical, amount) /\ physical' = o1heapAllocate(physical, amount)
      /\ prefix' = [q \in DOMAIN prefix \cup {at} |-> IF q = at THEN word ELSE prefix[q]]
      /\ physicalBlocks' = physicalBlocks \cup {b}
  BY DEF AllocatePhysical
<1>2. size \in Nat /\ alignment \in Nat
  BY HeapAssumption
<1>3. amount \in Nat \ {0}
  <2>1. 0 \in Nat
    OBVIOUS
  <2> HIDE DEF a, length, f
  <2> QED
    BY <1>2, <2>1, PhysicalBlockFits DEF a, length
<1>4. /\ Sound(physical, PhysicalCapacity) /\ Sound(physical', PhysicalCapacity)
      /\ Keeps(physical', physical, InUse(physical))
      /\ f \in InUse(physical') \ InUse(physical)
      /\ FRAGMENT_SIZE_MIN * physical'.fragments[f].size >= amount + O1HEAP_ALIGNMENT
  <2> HIDE DEF amount, f
  <2>1. Sound(physical, PhysicalCapacity)
    BY DEF PhysicalBlocksOK
  <2> QED
    BY <1>1, <1>3, <2>1, AllocationIsSound, Zenon DEF f
<1> HIDE DEF f
<1>5. /\ f \in Nat /\ p \in Nat /\ FragmentAt(p) = f /\ Room(physical', f) \in Nat \ {0}
      /\ \A g \in InUse(physical') : g = f \/ p + Room(physical', f) + 1 < Pointer(g)
                                     \/ Pointer(g) + Room(physical', g) + 1 < p
  BY <1>4, FragmentsAreApart
<1>6. amount <= Room(physical', f)
  <2>1. physical'.fragments[f].size \in Nat
    BY <1>4, FragmentsEnd DEF Sound, InUse
  <2> HIDE DEF amount
  <2> QED
    BY <1>3, <1>4, <2>1 DEF Room, FRAGMENT_SIZE_MIN, O1HEAP_ALIGNMENT
<1> HIDE DEF p
<1>7. /\ length \in Nat \ {0} /\ at \in Nat /\ at - 1 >= p /\ at + length <= p + amount
  BY <1>2, <1>5, PhysicalBlockFits
<1> HIDE DEF a, length, amount, at
<1>8. LiesIn(physical', b, word)
  <2>1. at > p /\ at + length <= p + Room(physical', f) /\ 1 <= Room(physical', f)
    BY <1>3, <1>5, <1>6, <1>7
  <2>2. Holds(physical', p, 1)
    BY <1>4, <1>5, <2>1 DEF Holds, p
  <2> QED
    BY <1>5, <2>1, <2>2 DEF LiesIn, length
<1>9. ASSUME NEW c \in physicalBlocks PROVE c.at # at
  <2> DEFINE w == prefix[c.at]
             g == FragmentAt(w.ptr)
  <2>1. /\ LiesIn(physical, c, w) /\ c \in PhysicalBlocks
    BY DEF PhysicalBlocksOK
  <2>2. /\ w.ptr = Pointer(g) /\ g \in InUse(physical) /\ c.at > w.ptr
        /\ c.at + AtLeastOne(c.size) <= w.ptr + Room(physical, g)
    BY <2>1 DEF LiesIn, Holds
  <2>3. c.at \in Nat /\ AtLeastOne(c.size) \in Nat
    BY <2>1, HeapAssumption DEF AtLeastOne, PhysicalBlocks
  <2> HIDE DEF g, w
  <2>4. g \in InUse(physical') /\ Room(physical', g) = Room(physical, g) /\ g # f
    BY <1>4, <2>2 DEF Keeps, Room
  <2>5. Pointer(g) \in Nat /\ Room(physical', g) \in Nat
    BY <1>4, <2>4, FragmentsAreApart
  <2>6. p + Room(physical', f) + 1 < Pointer(g) \/ Pointer(g) + Room(physical', g) + 1 < p
    BY <1>5, <2>4
  <2> QED
    BY <1>3, <1>5, <1>6, <1>7, <2>2, <2>3, <2>4, <2>5, <2>6
<1>10. b \in PhysicalBlocks /\ b.at = at /\ word.ptr = p
  BY <1>7 DEF PhysicalBlocks
<1>11. (\A c \in physicalBlocks : c.at # b.at) /\ FragmentAt(word.ptr) \notin InUse(physical)
  BY <1>4, <1>5, <1>9, <1>10
<1>12. /\ prefix' = Written(prefix, b.at, word)
       /\ physicalBlocks' = physicalBlocks \cup {b}
  BY <1>1, <1>10 DEF Written
<1> HIDE DEF b, word
<1> QED
  BY <1>4, <1>8, <1>10, <1>11, <1>12, PhysicalAdded, Zenon

LEMMA FreePhysicalKeeps ==
    ASSUME PhysicalBlocksOK(physical, prefix, physicalBlocks),
           NEW t \in Threads, NEW b \in physicalBlocks, FreePhysical(t, b)
    PROVE  PhysicalBlocksOK(physical', prefix', physicalBlocks')
<1> DEFINE f == FragmentAt(prefix[b.at].ptr)
<1>1. /\ physical' = o1heapFree(physical, f) /\ physicalBlocks' = physicalBlocks \ {b}
      /\ prefix' = [p \in DOMAIN prefix \ {b.at} |-> prefix[p]]
  BY DEF FreePhysical
<1>2. Sound(physical, PhysicalCapacity) /\ f \in InUse(physical)
  BY DEF PhysicalBlocksOK, LiesIn, Holds
<1>3. Sound(physical', PhysicalCapacity) /\ Keeps(physical', physical, InUse(physical) \ {f})
  <2> HIDE DEF f
  <2> QED
    BY <1>1, <1>2, FreeIsSound, Zenon
<1> QED
  BY <1>1, <1>3, PhysicalRemoved, Zenon

-----------------------------------------------------------------------------
LEMMA StartsSound == Init => HeapInv
<1> SUFFICES ASSUME Init PROVE HeapInv
  OBVIOUS
<1>1. Sound(user, UserCapacity) /\ Sound(physical, PhysicalCapacity)
  BY HeapAssumption, InitIsSound DEF Init
<1>2. BlocksOK(user, userBlocks)
  BY <1>1 DEF Init, BlocksOK
<1>3. CallsOK
  BY DEF Init, CallsOK, Busy
<1>4. MemoryOK
  BY DEF Init, MemoryOK, ContentsAreKept
<1>5. PhysicalBlocksOK(physical, prefix, physicalBlocks)
  <2>1. prefix = [p \in {} |-> prefix[p]] /\ physicalBlocks = {}
    BY DEF Init
  <2>2. {b.at : b \in physicalBlocks} = {}
    BY <2>1
  <2> QED
    BY <1>1, <2>1, <2>2, Zenon DEF PhysicalBlocksOK
<1> QED
  BY <1>2, <1>3, <1>4, <1>5 DEF HeapInv

(* The actions of one heap leave the other alone.                          *)
LEMMA UserStep ==
    ASSUME HeapInv, UNCHANGED physicalHeap,
           BlocksOK(user', userBlocks') /\ CallsOK' /\ MemoryOK'
    PROVE  HeapInv'
  BY DEF HeapInv, physicalHeap

LEMMA PhysicalStep ==
    ASSUME HeapInv, UNCHANGED <<userHeap, calls>>,
           PhysicalBlocksOK(physical', prefix', physicalBlocks')
    PROVE  HeapInv'
<1>1. user' = user /\ memory' = memory /\ userBlocks' = userBlocks /\ UNCHANGED calls
  BY DEF userHeap
<1>2. CallsOK' /\ BlocksOK(user', userBlocks')
  BY <1>1, SameCalls DEF HeapInv, CallsOK
<1>3. MemoryOK'
  BY <1>1 DEF HeapInv, MemoryOK, ContentsAreKept
<1> QED
  BY <1>2, <1>3 DEF HeapInv

LEMMA NextKeeps == HeapInv /\ [Next]_vars => HeapInv'
<1> SUFFICES ASSUME HeapInv, [Next]_vars PROVE HeapInv'
  OBVIOUS
<1> USE DEF HeapInv
<1>1. ASSUME NEW t \in Threads, NEW size \in Sizes, Allocate(t, size) PROVE HeapInv'
  BY <1>1, AllocateKeeps, UserStep DEF Allocate
<1>2. ASSUME NEW t \in Threads, NEW size \in Sizes, NEW zeroed \in BOOLEAN,
             AllocateInVain(t, size, zeroed)
      PROVE  HeapInv'
  BY <1>2, PhysicalStep DEF AllocateInVain, physicalHeap
<1>3. ASSUME NEW t \in Threads, NEW size \in Sizes, NEW alignment \in Alignments,
             AllocatePhysical(t, size, alignment)
      PROVE  HeapInv'
  BY <1>3, AllocatePhysicalKeeps, PhysicalStep DEF AllocatePhysical
<1>4. ASSUME NEW t \in Threads, NEW size \in Sizes, NEW alignment \in Alignments,
             AllocatePhysicalInVain(t, size, alignment)
      PROVE  HeapInv'
  BY <1>4, PhysicalStep DEF AllocatePhysicalInVain, physicalHeap
<1>5. ASSUME NEW t \in Threads, NEW size \in Sizes, NEW b \in userBlocks, Reallocate(t, b, size)
      PROVE  HeapInv'
  BY <1>5, ReallocateKeeps, UserStep DEF Reallocate
<1>6. ASSUME NEW t \in Threads, NEW size \in Sizes, NEW b \in userBlocks,
             ReallocateInVain(t, b, size)
      PROVE  HeapInv'
  <2>1. Idle(b) /\ UNCHANGED <<physicalHeap, calls>>
    BY <1>6 DEF ReallocateInVain
  <2>2. CASE UNCHANGED userHeap
    BY <2>1, <2>2, PhysicalStep DEF physicalHeap
  <2>3. CASE free(b)
    BY <2>1, <2>3, IdleFreeKeeps, UserStep
  <2> QED
    BY <1>6, <2>2, <2>3 DEF ReallocateInVain
<1>7. ASSUME NEW t \in Threads, NEW b \in userBlocks, Free(t, b) PROVE HeapInv'
  BY <1>7, IdleFreeKeeps, UserStep DEF Free
<1>8. ASSUME NEW t \in Threads, NEW b \in physicalBlocks, FreePhysical(t, b) PROVE HeapInv'
  BY <1>8, FreePhysicalKeeps, PhysicalStep DEF FreePhysical
<1>9. ASSUME NEW t \in Threads, Copy(t) PROVE HeapInv'
  BY <1>9, CopyKeeps, UserStep DEF Copy
<1>10. ASSUME NEW t \in Threads, FreeOld(t) PROVE HeapInv'
  BY <1>10, FreeOldKeeps, UserStep DEF FreeOld
<1>11. CASE UNCHANGED vars
  BY <1>11, PhysicalStep DEF vars, physicalHeap
<1> QED
  BY <1>1, <1>2, <1>3, <1>4, <1>5, <1>6, <1>7, <1>8, <1>9, <1>10, <1>11 DEF Next

(* Every state of the two heaps satisfies the inductive invariant.         *)
THEOREM HeapsAreSound == Spec => []HeapInv
  BY StartsSound, NextKeeps, PTL DEF Spec

(* A thread that reallocates nothing has no block put by.                  *)
Quiet ==
    /\ \A t \in Threads : ~Busy(t) => old[t] = None /\ new[t] = None
    /\ crashed \in BOOLEAN

LEMMA NextIsQuiet == CallsOK /\ Quiet /\ [Next]_vars => Quiet'
<1> SUFFICES ASSUME CallsOK, Quiet, [Next]_vars PROVE Quiet'
  OBVIOUS
<1>1. crashed' \in BOOLEAN
  <2>1. crashed' = crashed \/ crashed' = TRUE \/ crashed' = Asserts
    BY ZenonT(20) DEF Next, vars, Allocate, AllocateInVain, AllocatePhysical, AllocatePhysicalInVain,
                 Reallocate, ReallocateInVain, Free, FreePhysical, Copy, FreeOld
  <2> QED
    BY <2>1, HeapAssumption DEF Quiet
<1>2. ASSUME UNCHANGED calls PROVE Quiet'
  <2>1. pc' = pc /\ old' = old /\ new' = new
    BY <1>2 DEF calls
  <2> QED
    BY <1>1, <2>1 DEF Quiet, Busy
<1>3. ASSUME NEW t \in Threads, NEW b, NEW size, Reallocate(t, b, size) PROVE Quiet'
  <2>1. Busy(t)' /\ \A s \in Threads \ {t} : pc'[s] = pc[s] /\ old'[s] = old[s] /\ new'[s] = new[s]
    BY <1>3 DEF Reallocate, Busy, CallsOK
  <2> QED
    BY <1>1, <2>1 DEF Quiet, Busy
<1>4. ASSUME NEW t \in Threads, Copy(t) PROVE Quiet'
  <2>1. Busy(t)' /\ \A s \in Threads \ {t} : pc'[s] = pc[s] /\ old'[s] = old[s] /\ new'[s] = new[s]
    BY <1>4 DEF Copy, Busy, CallsOK
  <2> QED
    BY <1>1, <2>1 DEF Quiet, Busy
<1>5. ASSUME NEW t \in Threads, FreeOld(t) PROVE Quiet'
  <2>1. /\ old'[t] = None /\ new'[t] = None
        /\ \A s \in Threads \ {t} : pc'[s] = pc[s] /\ old'[s] = old[s] /\ new'[s] = new[s]
    BY <1>5 DEF FreeOld, CallsOK
  <2> QED
    BY <1>1, <2>1 DEF Quiet, Busy
<1>6. \/ UNCHANGED calls
      \/ \E t \in Threads : \/ \E size \in Sizes : \E b \in userBlocks : Reallocate(t, b, size)
                            \/ Copy(t) \/ FreeOld(t)
  BY ZenonT(20) DEF Next, vars, Allocate, AllocateInVain, AllocatePhysical, AllocatePhysicalInVain,
               ReallocateInVain, Free, FreePhysical
<1> QED
  BY <1>2, <1>3, <1>4, <1>5, <1>6

(* A heap between two calls has the type and the account that it should.   *)
LEMMA SoundHeapsAreOK ==
    ASSUME NEW h, NEW capacity, Sound(h, capacity)
    PROVE  HeapOK(h, capacity) /\ Counted(h)
<1>1. /\ IsHeap(h) /\ h.capacity = capacity /\ Chained(h) /\ Binned(h, FreeFragments(h))
      /\ h.allocated = Total(h, InUse(h)) /\ capacity \in Nat
  BY DEF Sound, IsHeap
<1>2. h.allocated \in 0 .. capacity
  <2>1. InUse(h) \in SUBSET Fragments(h)
    BY DEF InUse
  <2> QED
    BY <1>1, <2>1, TotalFits
<1>3. ASSUME NEW f \in Places(h)
      PROVE  h.fragments[f] \in [size : 0 .. capacity, used : BOOLEAN,
                                 prev : Places(h) \cup {None}, next : Places(h) \cup {None}]
  <2> DEFINE e == h.fragments[f]
  <2>1. e \in Headers(h)
    BY <1>1 DEF IsHeap
  <2>2. e.size \in Nat
    BY <2>1 DEF Headers
  <2>3. e.size > 0 => e.size <= capacity
    <3>1. ASSUME e.size > 0 PROVE f \in Fragments(h)
      BY <3>1 DEF Fragments
    <3>2. ASSUME f \in Fragments(h) PROVE e.size <= capacity
      BY <1>1, <3>2, FragmentsEnd
    <3> QED
      BY <3>1, <3>2
  <2> HIDE DEF e
  <2>4. e.size \in 0 .. capacity
    BY <1>1, <2>2, <2>3
  <2> QED
    BY <2>1, <2>4 DEF Headers, e
<1>4. ASSUME NEW b \in Bins(h) PROVE h.bins[b] \in Seq(Places(h))
  <2> DEFINE s == h.bins[b]
             F == FreeFragments(h)
  <2>1. s \in Seq(F) /\ F \subseteq Places(h)
    BY <1>1 DEF Binned, Lists, FreeFragments, Fragments
  <2> HIDE DEF s, F
  <2>2. s \in Seq(Places(h))
    <3> DEFINE P == Places(h)
    <3>1. Len(s) \in Nat /\ s = [i \in 1 .. Len(s) |-> s[i]] /\ \A i \in 1 .. Len(s) : s[i] \in F
      BY <2>1, LenProperties, ElementOfSeq
    <3> HIDE DEF P
    <3>2. \A i \in 1 .. Len(s) : s[i] \in P
      BY <2>1, <3>1 DEF P
    <3>3. s \in Seq(P)
      BY <3>1, <3>2, IsASeq
    <3> QED
      BY <3>3 DEF P
  <2> QED
    BY <2>2 DEF s
<1>5. h.nonempty \subseteq Bins(h)
  BY <1>1 DEF Binned
<1>6. HeapOK(h, capacity)
  BY <1>1, <1>2, <1>3, <1>4, <1>5, Zenon DEF HeapOK
<1>7. Counted(h)
  <2> DEFINE F == Fragments(h) \ FreeFragments(h)
  <2>1. F = InUse(h) /\ F \in SUBSET Places(h)
    BY DEF InUse, FreeFragments, Fragments
  <2> HIDE DEF F
  <2>2. MapThenSumSet(LAMBDA f : h.fragments[f].size, F) = Total(h, F)
    BY <1>1, <2>1, SumIsTotal, Zenon
  <2> QED
    BY <1>1, <2>1, <2>2, Zenon DEF Counted, F
<1> QED
  BY <1>6, <1>7

(* The fragments of both heaps tile them, are linked both ways and add up; *)
(* every variable has its type.                                            *)
THEOREM FragmentsAlwaysTile == Spec => []FragmentsTile
<1>1. ASSUME HeapInv, NEW b \in userBlocks
      PROVE  /\ b.at \in Words /\ b.size \in Sizes
             /\ b.owner \in Threads /\ b.filled \in 0 .. b.size
  <2> DEFINE f == FragmentAt(b.at)
  <2>1. /\ Sound(user, UserCapacity) /\ b.at = Pointer(f) /\ f \in InUse(user)
        /\ b \in UserBlocks /\ b.filled <= b.size
    BY <1>1 DEF HeapInv, BlocksOK, Holds
  <2> HIDE DEF f
  <2>2. /\ Pointer(f) \in Nat /\ Room(user, f) \in Nat
        /\ Pointer(f) + Room(user, f) < Pointer(UserCapacity)
    BY <2>1, FragmentsAreApart
  <2>3. Pointer(UserCapacity) \in Nat
    BY HeapAssumption DEF Pointer, INSTANCE_SIZE_PADDED, FRAGMENT_SIZE_MIN, O1HEAP_ALIGNMENT
  <2>4. b.at \in Words
    BY <2>1, <2>2, <2>3 DEF Words
  <2>5. b.filled \in Nat /\ b.size \in Sizes /\ b.owner \in Threads
    BY <2>1 DEF UserBlocks
  <2>6. b.size \in Nat
    BY <2>5, HeapAssumption
  <2> QED
    BY <2>1, <2>4, <2>5, <2>6
<1>2. ASSUME HeapInv, Quiet PROVE TypeOK
  <2>1. HeapOK(user, UserCapacity) /\ HeapOK(physical, PhysicalCapacity)
    BY <1>2, SoundHeapsAreOK DEF HeapInv, BlocksOK, PhysicalBlocksOK
  <2>2. DOMAIN prefix = {b.at : b \in physicalBlocks}
    BY <1>2, Zenon DEF HeapInv, PhysicalBlocksOK
  <2>3. \A b \in physicalBlocks : b.at \in Nat /\ b.size \in Sizes
    BY <1>2 DEF HeapInv, PhysicalBlocksOK, PhysicalBlocks
  <2>4. memory \in [Words -> Threads \cup {None}]
    BY <1>2 DEF HeapInv, MemoryOK
  <2>5. pc \in [Threads -> {"guest", "copy", "free"}]
    BY <1>2 DEF HeapInv, CallsOK
  <2>6. \A t \in Threads : IF pc[t] = "guest"
                          THEN old[t] = None /\ new[t] = None
                          ELSE {old[t], new[t]} \subseteq userBlocks /\ old[t] # new[t]
    BY <1>2 DEF HeapInv, CallsOK, Quiet, Busy
  <2> QED
    BY <1>1, <1>2, <2>1, <2>2, <2>3, <2>4, <2>5, <2>6, Zenon DEF TypeOK, Quiet
<1>3. ASSUME HeapInv, NEW h \in {user, physical} PROVE Chained(h) /\ Coalesced(h) /\ Counted(h)
  BY <1>3, SoundHeapsAreOK DEF HeapInv, BlocksOK, PhysicalBlocksOK, Sound
<1>4. HeapInv /\ Quiet => FragmentsTile
  BY <1>2, <1>3, Zenon DEF FragmentsTile
<1>5. Init => Quiet
  BY DEF Init, Quiet, Busy
<1>6. HeapInv => CallsOK
  BY DEF HeapInv
<1> QED
  BY <1>4, <1>5, <1>6, NextIsQuiet, HeapsAreSound, PTL DEF Spec

(* An allocation fails only when nothing is large enough.                  *)
THEOREM AllocationFindsWhatFits == Spec => []AllocatesWhatFits
<1>1. HeapInv => AllocatesWhatFits
  <2> SUFFICES ASSUME HeapInv, NEW h \in {user, physical},
                      NEW amount \in 1 .. FRAGMENT_SIZE_MIN * h.capacity
               PROVE  LET fits == {f \in FreeFragments(h) : h.fragments[f].size >= FragmentSize(amount)} IN
                      IF Allocates(h, amount) THEN Chosen(h, amount) \in fits ELSE fits = {}
    BY DEF AllocatesWhatFits
  <2>1. IsHeap(h) /\ Chained(h) /\ Binned(h, FreeFragments(h))
    BY DEF HeapInv, BlocksOK, PhysicalBlocksOK, Sound
  <2>2. \A f \in FreeFragments(h) : h.fragments[f].size <= h.capacity
    BY <2>1, FragmentsEnd DEF FreeFragments
  <2>3. amount \in Nat \ {0}
    OBVIOUS
  <2> QED
    BY <2>1, <2>2, <2>3, BinsFindWhatFits, Zenon
<1> QED
  BY <1>1, HeapsAreSound, PTL

(* Every block lies inside the memory of a fragment of its own.            *)
THEOREM BlocksAlwaysFit == Spec => []BlocksFit
<1>1. ASSUME HeapInv, NEW b \in userBlocks
      PROVE  /\ b.at = Pointer(FragmentAt(b.at))
             /\ Inside(user, FragmentAt(b.at), b.at, b.size)
             /\ SizeOfUser(b) >= b.size
             /\ \A c \in userBlocks : c.at = b.at => c = b
  <2> DEFINE f == FragmentAt(b.at)
  <2>1. /\ Sound(user, UserCapacity) /\ b.at = Pointer(f) /\ f \in InUse(user)
        /\ b.size <= Room(user, f) /\ b \in UserBlocks
        /\ \A c \in userBlocks : c.at = b.at => c = b
    BY <1>1 DEF HeapInv, BlocksOK, Holds
  <2>2. b.at \in Nat /\ b.size \in Nat
    BY <2>1, HeapAssumption DEF UserBlocks
  <2> HIDE DEF f
  <2>3. /\ Room(user, f) \in Nat
        /\ Room(user, f) = Pointer(f + user.fragments[f].size) - O1HEAP_ALIGNMENT - Pointer(f)
    BY <2>1, FragmentsAreApart
  <2>4. f \in Nat /\ user.fragments[f].size \in Nat
    BY <2>1, FragmentsEnd DEF Sound, InUse
  <2>5. Pointer(f + user.fragments[f].size) \in Nat /\ O1HEAP_ALIGNMENT \in Nat
    BY <2>4 DEF Pointer, INSTANCE_SIZE_PADDED, FRAGMENT_SIZE_MIN, O1HEAP_ALIGNMENT
  <2>6. b.at + b.size <= Pointer(f + user.fragments[f].size) - O1HEAP_ALIGNMENT
    BY <2>1, <2>2, <2>3, <2>5
  <2>7. f \in Fragments(user) /\ user.fragments[f].used
    BY <2>1 DEF InUse
  <2> QED
    BY <2>1, <2>2, <2>3, <2>6, <2>7 DEF f, Inside, SizeOfUser, Room
<1>2. ASSUME HeapInv, NEW b \in physicalBlocks
      PROVE  LET ptr == prefix[b.at].ptr IN
             /\ ptr = Pointer(FragmentAt(ptr))
             /\ Inside(physical, FragmentAt(ptr), b.at - 1, b.size + 1)
             /\ SizeOfPhysical(b) >= b.size
             /\ \A c \in physicalBlocks : c # b => c.at # b.at /\ prefix[c.at].ptr # ptr
  <2> DEFINE ptr == prefix[b.at].ptr
             f == FragmentAt(ptr)
             length == AtLeastOne(b.size)
  <2>1. /\ Sound(physical, PhysicalCapacity) /\ ptr = Pointer(f) /\ f \in InUse(physical)
        /\ prefix[b.at].size = length + O1HEAP_ALIGNMENT
        /\ b.at > ptr /\ b.at + length <= ptr + Room(physical, f)
        /\ b \in PhysicalBlocks
        /\ \A c \in physicalBlocks : prefix[c.at].ptr = ptr => c = b
    BY <1>2 DEF HeapInv, PhysicalBlocksOK, LiesIn, Holds
  <2>2. b.at \in Nat /\ b.size \in Nat /\ length \in Nat /\ length >= b.size
    <3>1. b.at \in Nat /\ b.size \in Nat
      BY <2>1, HeapAssumption DEF PhysicalBlocks
    <3>2. length = IF b.size = 0 THEN 1 ELSE b.size
      BY DEF AtLeastOne
    <3> HIDE DEF length
    <3> QED
      BY <3>1, <3>2
  <2> HIDE DEF f
  <2>3. /\ Room(physical, f) \in Nat
        /\ Room(physical, f) = Pointer(f + physical.fragments[f].size) - O1HEAP_ALIGNMENT - Pointer(f)
    BY <2>1, FragmentsAreApart
  <2>4. f \in Nat /\ physical.fragments[f].size \in Nat
    BY <2>1, FragmentsEnd DEF Sound, InUse
  <2>5. /\ Pointer(f + physical.fragments[f].size) \in Nat /\ O1HEAP_ALIGNMENT \in Nat
        /\ Pointer(f) \in Nat
    BY <2>4 DEF Pointer, INSTANCE_SIZE_PADDED, FRAGMENT_SIZE_MIN, O1HEAP_ALIGNMENT
  <2> HIDE DEF length, ptr
  <2>6. /\ b.at - 1 >= Pointer(f)
        /\ (b.at - 1) + (b.size + 1) <= Pointer(f + physical.fragments[f].size) - O1HEAP_ALIGNMENT
    BY <2>1, <2>2, <2>3, <2>5
  <2>7. f \in Fragments(physical) /\ physical.fragments[f].used
    BY <2>1 DEF InUse
  <2>8. SizeOfPhysical(b) >= b.size
    BY <2>1, <2>2, <2>5 DEF SizeOfPhysical
  <2>9. \A c \in physicalBlocks : c # b => c.at # b.at /\ prefix[c.at].ptr # ptr
    BY <2>1 DEF ptr
  <2>10. Inside(physical, f, b.at - 1, b.size + 1)
    BY <2>6, <2>7 DEF Inside
  <2> QED
    BY <2>1, <2>8, <2>9, <2>10 DEF f, ptr
<1>3. HeapInv => BlocksFit
  BY <1>1, <1>2 DEF BlocksFit
<1> QED
  BY <1>3, HeapsAreSound, PTL

(* What was written to a block stays in it and in its successors.          *)
THEOREM ContentsStay == Spec => []ContentsAreKept
<1>1. HeapInv => ContentsAreKept
  BY DEF HeapInv, MemoryOK
<1> QED
  BY <1>1, HeapsAreSound, PTL

=============================================================================

----------------------------- MODULE ListLemmas -----------------------------
(***************************************************************************)
(* Facts about the operators that model wl_list: inserting at the head,    *)
(* unlinking an element, and the search for the first element that passes  *)
(* a test.  A list links each element at most once.  Then facts about      *)
(* streams of messages: what is left when one is taken, what there is when *)
(* more are sent.                                                          *)
(***************************************************************************)
EXTENDS SequencesExt, SequenceTheorems, WellFoundedInduction, TLAPS

(* wl_list_insert(&list, &e->link) of an element not in the list: the new  *)
(* list holds it and the old elements, each once.                          *)
LEMMA InsertFacts ==
    ASSUME NEW S, NEW s \in Seq(S), NEW e \in S
    PROVE  /\ <<e>> \o s \in Seq(S)
           /\ <<e>> \o s # << >>
           /\ Head(<<e>> \o s) = e
           /\ ToSet(<<e>> \o s) = {e} \cup ToSet(s)
           /\ IsInjective(s) /\ e \notin ToSet(s) => IsInjective(<<e>> \o s)
<1> DEFINE c == <<e>> \o s
<1>1. /\ c \in Seq(S)
      /\ Len(c) = 1 + Len(s)
      /\ \A i \in 1 .. Len(c) : c[i] = IF i = 1 THEN e ELSE s[i - 1]
  <2>1. <<e>> \in Seq(S) /\ Len(<<e>>) = 1 /\ <<e>>[1] = e
    OBVIOUS
  <2>2. Len(s) \in Nat
    BY LenProperties
  <2>. QED
    BY SMTT(30), <2>1, <2>2, ConcatProperties
<1>2. Len(s) \in Nat /\ DOMAIN s = 1 .. Len(s) /\ DOMAIN c = 1 .. Len(c)
  BY <1>1, LenProperties
<1>3. ToSet(c) = {e} \cup ToSet(s)
  <2>1. ASSUME NEW x \in ToSet(c)
        PROVE  x \in {e} \cup ToSet(s)
    <3>1. PICK i \in 1 .. Len(c) : x = c[i]
      BY <1>2 DEF ToSet
    <3>2. CASE i = 1
      BY <3>1, <3>2, <1>1
    <3>3. CASE i # 1
      <4>1. i - 1 \in DOMAIN s /\ x = s[i - 1]
        BY <3>1, <3>3, <1>1, <1>2
      <4>. QED
        BY <4>1 DEF ToSet
    <3>. QED
      BY <3>2, <3>3
  <2>2. ASSUME NEW x \in {e} \cup ToSet(s)
        PROVE  x \in ToSet(c)
    <3>1. CASE x = e
      <4>1. 1 \in DOMAIN c /\ c[1] = x
        BY <3>1, <1>1, <1>2
      <4>. QED
        BY <4>1 DEF ToSet
    <3>2. CASE x \in ToSet(s)
      <4>1. PICK i \in 1 .. Len(s) : x = s[i]
        BY <3>2, <1>2 DEF ToSet
      <4>2. i + 1 \in DOMAIN c /\ c[i + 1] = x
        BY <4>1, <1>1, <1>2
      <4>. QED
        BY <4>2 DEF ToSet
    <3>. QED
      BY <3>1, <3>2
  <2>. QED
    BY <2>1, <2>2
<1>4. ASSUME IsInjective(s), e \notin ToSet(s)
      PROVE  IsInjective(c)
  <2>1. \A i \in 1 .. Len(s) : s[i] # e
    BY <1>4, <1>2 DEF ToSet
  <2>2. \A i, j \in 1 .. Len(s) : s[i] = s[j] => i = j
    BY <1>4, <1>2 DEF IsInjective
  <2>3. ASSUME NEW i \in 1 .. Len(c), NEW j \in 1 .. Len(c), c[i] = c[j]
        PROVE  i = j
    <3>1. CASE i = 1 /\ j = 1
      BY <3>1
    <3>2. CASE i = 1 /\ j # 1
      BY <3>2, <2>1, <2>3, <1>1, <1>2
    <3>3. CASE i # 1 /\ j = 1
      BY <3>3, <2>1, <2>3, <1>1, <1>2
    <3>4. CASE i # 1 /\ j # 1
      <4>1. i - 1 \in 1 .. Len(s) /\ j - 1 \in 1 .. Len(s) /\ s[i - 1] = s[j - 1]
        BY <3>4, <2>3, <1>1, <1>2
      <4>. QED
        BY <4>1, <2>2
    <3>. QED
      BY <3>1, <3>2, <3>3, <3>4
  <2>. QED
    BY <2>3, <1>2 DEF IsInjective
<1>5. c # << >> /\ Head(c) = e
  BY <1>1, <1>2
<1>. QED
  BY <1>1, <1>3, <1>4, <1>5

(* A set of naturals with an element has a least one. *)
LEMMA LeastNatural ==
    ASSUME NEW T \in SUBSET Nat, T # {}
    PROVE  \E m \in T : \A k \in T : m <= k
<1> DEFINE R == OpToRel(<, Nat)
<1>1. IsWellFoundedOn(R, Nat)
  BY NatLessThanWellFounded
<1>2. PICK m \in T : \A k \in T : <<k, m>> \notin R
  <2> HIDE DEF R
  <2>. QED
    BY <1>1, WFMin
<1>3. \A k \in T : ~(k < m)
  BY <1>2 DEF OpToRel
<1>. QED
  BY <1>3

(* The search loops: SelectInSeq is 0 when no element passes the test, and *)
(* otherwise the first position whose element does.                        *)
LEMMA MinFacts ==
    ASSUME NEW T \in SUBSET Nat, T # {}
    PROVE  Min(T) \in T /\ \A k \in T : Min(T) <= k
BY LeastNatural DEF Min

(* wl_list_remove(&e->link): the element is gone, the others stay, each    *)
(* once.                                                                   *)
LEMMA UnlinkFacts ==
    ASSUME NEW S, NEW s \in Seq(S), IsInjective(s), NEW e \in ToSet(s)
    PROVE  /\ RemoveFirst(s, e) \in Seq(S)
           /\ ToSet(RemoveFirst(s, e)) = ToSet(s) \ {e}
           /\ IsInjective(RemoveFirst(s, e))
<1>1. Len(s) \in Nat /\ DOMAIN s = 1 .. Len(s) /\ \A i \in 1 .. Len(s) : s[i] \in S
  BY LenProperties, ElementOfSeq
<1>2. PICK n \in 1 .. Len(s) : s[n] = e
  BY <1>1 DEF ToSet
<1>3. \A i, j \in 1 .. Len(s) : s[i] = s[j] => i = j
  BY <1>1 DEF IsInjective
<1>4. RemoveFirst(s, e) = SubSeq(s, 1, n - 1) \o SubSeq(s, n + 1, Len(s))
  <2>1. {i \in 1 .. Len(s) : s[i] = e} = {n}
    BY <1>2, <1>3
  <2>2. {n} \in SUBSET Nat /\ {n} # {}
    BY <1>1
  <2>3. Min({n}) = n
    BY <2>2, MinFacts
  <2>. QED
    BY <1>2, <2>1, <2>3 DEF RemoveFirst, SelectInSeq, RemoveAt
<1> DEFINE a == SubSeq(s, 1, n - 1)
           b == SubSeq(s, n + 1, Len(s))
           r == a \o b
<1>5. a \in Seq(S) /\ Len(a) = n - 1 /\ \A i \in 1 .. n - 1 : a[i] = s[i]
  BY <1>1, SubSeqProperties
<1>6. b \in Seq(S) /\ Len(b) = Len(s) - n /\ \A i \in 1 .. Len(s) - n : b[i] = s[n + i]
  <2>1. \A i \in n + 1 .. Len(s) : s[i] \in S
    BY <1>1
  <2>2. /\ b \in Seq(S)
        /\ Len(b) = IF n + 1 <= Len(s) THEN Len(s) - (n + 1) + 1 ELSE 0
        /\ \A i \in 1 .. Len(s) - (n + 1) + 1 : b[i] = s[(n + 1) + i - 1]
    BY <1>1, <2>1, SubSeqProperties
  <2> HIDE DEF b
  <2>3. Len(b) = Len(s) - n
    <3>1. Len(s) \in Nat /\ n \in 1 .. Len(s)
      BY <1>1
    <3>2. Len(b) = IF n + 1 <= Len(s) THEN Len(s) - (n + 1) + 1 ELSE 0
      BY <2>2
    <3>. QED
      BY <3>1, <3>2
  <2>4. ASSUME NEW i \in 1 .. Len(s) - n
        PROVE  b[i] = s[n + i]
    <3>1. i \in 1 .. Len(s) - (n + 1) + 1 /\ (n + 1) + i - 1 = n + i
      BY <1>1
    <3>. QED
      BY <3>1, <2>2
  <2>. QED
    BY <2>2, <2>3, <2>4
<1>7. /\ r \in Seq(S)
      /\ Len(r) = Len(s) - 1
      /\ \A i \in 1 .. Len(s) - 1 : r[i] = IF i < n THEN s[i] ELSE s[i + 1]
  <2>1. /\ r \in Seq(S)
        /\ Len(r) = Len(a) + Len(b)
        /\ \A i \in 1 .. Len(a) + Len(b) : r[i] = IF i <= Len(a) THEN a[i] ELSE b[i - Len(a)]
    BY <1>5, <1>6, ConcatProperties
  <2> HIDE DEF a, b, r
  <2>2. ASSUME NEW i \in 1 .. Len(s) - 1
        PROVE  r[i] = IF i < n THEN s[i] ELSE s[i + 1]
    <3>0. r[i] = IF i <= n - 1 THEN a[i] ELSE b[i - (n - 1)]
      <4>1. i \in 1 .. Len(a) + Len(b)
        BY <1>1, <1>5, <1>6
      <4>. QED
        BY <4>1, <2>1, <1>5
    <3>1. CASE i < n
      <4>1. i \in 1 .. n - 1 /\ i <= n - 1
        BY <3>1, <1>1
      <4>. QED
        BY <3>0, <3>1, <4>1, <1>5
    <3>2. CASE ~(i < n)
      <4>1. i - (n - 1) \in 1 .. Len(s) - n /\ n + (i - (n - 1)) = i + 1
        BY <3>2, <1>1
      <4>2. r[i] = b[i - (n - 1)]
        BY <3>0, <3>2, <1>1
      <4>. QED
        BY <3>2, <4>1, <4>2, <1>6
    <3>. QED
      BY <3>1, <3>2
  <2>. QED
    BY <2>1, <2>2, <1>1, <1>5, <1>6
<1>8. DOMAIN r = 1 .. Len(s) - 1
  BY <1>7, LenProperties
<1> HIDE DEF a, b, r
<1>9. ToSet(r) = ToSet(s) \ {e}
  <2>1. ASSUME NEW x \in ToSet(r)
        PROVE  x \in ToSet(s) \ {e}
    <3>1. PICK i \in 1 .. Len(s) - 1 : x = r[i]
      BY <1>8 DEF ToSet
    <3>2. PICK j \in 1 .. Len(s) : j # n /\ x = s[j]
      BY <3>1, <1>1, <1>7
    <3>. QED
      BY <3>2, <1>1, <1>2, <1>3 DEF ToSet
  <2>2. ASSUME NEW x \in ToSet(s) \ {e}
        PROVE  x \in ToSet(r)
    <3>1. PICK j \in 1 .. Len(s) : j # n /\ x = s[j]
      BY <1>1, <1>2 DEF ToSet
    <3>2. PICK i \in 1 .. Len(s) - 1 : x = r[i]
      <4>1. CASE j < n
        <5>1. j \in 1 .. Len(s) - 1 /\ r[j] = x
          BY <3>1, <4>1, <1>1, <1>7
        <5>. QED
          BY <5>1
      <4>2. CASE j > n
        <5>1. j - 1 \in 1 .. Len(s) - 1 /\ r[j - 1] = x
          BY <3>1, <4>2, <1>1, <1>7
        <5>. QED
          BY <5>1
      <4>. QED
        BY <3>1, <4>1, <4>2, <1>1
    <3>. QED
      BY <3>2, <1>8 DEF ToSet
  <2>. QED
    BY <2>1, <2>2
<1>10. IsInjective(r)
  <2>1. ASSUME NEW i \in 1 .. Len(s) - 1, NEW j \in 1 .. Len(s) - 1, r[i] = r[j]
        PROVE  i = j
    <3>1. CASE i < n /\ j < n
      BY <3>1, <2>1, <1>1, <1>3, <1>7
    <3>2. CASE i < n /\ ~(j < n)
      <4>1. i \in 1 .. Len(s) /\ j + 1 \in 1 .. Len(s) /\ s[i] = s[j + 1]
        BY <3>2, <2>1, <1>1, <1>7
      <4>. QED
        BY <3>2, <4>1, <1>1, <1>3
    <3>3. CASE ~(i < n) /\ j < n
      <4>1. i + 1 \in 1 .. Len(s) /\ j \in 1 .. Len(s) /\ s[i + 1] = s[j]
        BY <3>3, <2>1, <1>1, <1>7
      <4>. QED
        BY <3>3, <4>1, <1>1, <1>3
    <3>4. CASE ~(i < n) /\ ~(j < n)
      <4>1. i + 1 \in 1 .. Len(s) /\ j + 1 \in 1 .. Len(s) /\ s[i + 1] = s[j + 1]
        BY <3>4, <2>1, <1>1, <1>7
      <4>2. i + 1 = j + 1
        BY <4>1, <1>3
      <4>. QED
        BY <4>2
    <3>. QED
      BY <3>1, <3>2, <3>3, <3>4
  <2>. QED
    BY <2>1, <1>8 DEF IsInjective
<1>. QED
  BY <1>4, <1>7, <1>9, <1>10 DEF a, b, r

(* Unlinking whatever is in the list, even if it were there twice, or not  *)
(* at all, leaves a list of the same elements.                             *)
LEMMA UnlinkType ==
    ASSUME NEW S, NEW s \in Seq(S), NEW e
    PROVE  RemoveFirst(s, e) \in Seq(S)
<1>1. Len(s) \in Nat /\ \A i \in 1 .. Len(s) : s[i] \in S
  BY LenProperties, ElementOfSeq
<1>2. CASE \E i \in 1 .. Len(s) : s[i] = e
  <2> DEFINE n == Min({i \in 1 .. Len(s) : s[i] = e})
             a == SubSeq(s, 1, n - 1)
             b == SubSeq(s, n + 1, Len(s))
  <2>1. n \in 1 .. Len(s)
    <3>1. /\ {i \in 1 .. Len(s) : s[i] = e} \in SUBSET Nat
          /\ {i \in 1 .. Len(s) : s[i] = e} # {}
      BY <1>1, <1>2
    <3>. QED
      BY <3>1, MinFacts
  <2>2. RemoveFirst(s, e) = a \o b
    BY <1>2 DEF RemoveFirst, SelectInSeq, RemoveAt
  <2> HIDE DEF n
  <2>3. a \in Seq(S)
    <3>1. \A i \in 1 .. n - 1 : s[i] \in S
      BY <1>1, <2>1
    <3>. QED
      BY <3>1, <1>1, <2>1, SubSeqProperties
  <2>4. b \in Seq(S)
    <3>1. \A i \in n + 1 .. Len(s) : s[i] \in S
      BY <1>1, <2>1
    <3>. QED
      BY <3>1, <1>1, <2>1, SubSeqProperties
  <2>. QED
    BY <2>2, <2>3, <2>4, ConcatProperties
<1>3. CASE ~\E i \in 1 .. Len(s) : s[i] = e
  BY <1>3 DEF RemoveFirst
<1>. QED
  BY <1>2, <1>3

LEMMA MaxFacts ==
    ASSUME NEW n \in Nat, NEW T \in SUBSET (0 .. n), T # {}
    PROVE  Max(T) \in T /\ \A k \in T : Max(T) >= k
<1> DEFINE D == {n - k : k \in T}
<1>1. D \in SUBSET Nat /\ D # {}
  <2>1. \A k \in T : n - k \in Nat
    OBVIOUS
  <2>. QED
    BY <2>1
<1>2. \A k \in T : n - k \in D
  OBVIOUS
<1>3. \A m \in D : \E k \in T : m = n - k
  OBVIOUS
<1> HIDE DEF D
<1>4. PICK m \in D : \A k \in D : m <= k
  BY <1>1, LeastNatural
<1>5. PICK h \in T : m = n - h
  BY <1>3
<1>6. \A k \in T : h >= k
  <2> SUFFICES ASSUME NEW k \in T
               PROVE  h >= k
    OBVIOUS
  <2>1. n - h <= n - k /\ k \in Int /\ h \in Int
    BY <1>2, <1>4, <1>5
  <2>. QED
    BY <2>1
<1>. QED
  BY <1>6 DEF Max

(* Unlinking an element from a list that may not hold it *)
LEMMA UnlinkAny ==
    ASSUME NEW S, NEW s \in Seq(S), IsInjective(s), NEW e
    PROVE  /\ RemoveFirst(s, e) \in Seq(S)
           /\ ToSet(RemoveFirst(s, e)) = ToSet(s) \ {e}
           /\ IsInjective(RemoveFirst(s, e))
<1>1. CASE e \in ToSet(s)
  BY <1>1, UnlinkFacts
<1>2. CASE e \notin ToSet(s)
  <2>1. Len(s) \in Nat /\ DOMAIN s = 1 .. Len(s)
    BY LenProperties
  <2>2. RemoveFirst(s, e) = s
    BY <1>2, <2>1 DEF RemoveFirst, ToSet
  <2>. QED
    BY <1>2, <2>2
<1>. QED
  BY <1>1, <1>2

(* The first element stays the first until it is unlinked itself. *)
LEMMA UnlinkKeepsFirst ==
    ASSUME NEW S, NEW s \in Seq(S), NEW e, Len(s) > 0, s[1] # e
    PROVE  RemoveFirst(s, e)[1] = s[1]
<1>1. Len(s) \in Nat /\ \A i \in 1 .. Len(s) : s[i] \in S
  BY LenProperties, ElementOfSeq
<1>2. CASE \E i \in 1 .. Len(s) : s[i] = e
  <2> DEFINE n == Min({i \in 1 .. Len(s) : s[i] = e})
             a == SubSeq(s, 1, n - 1)
             b == SubSeq(s, n + 1, Len(s))
  <2>1. n \in 1 .. Len(s) /\ s[n] = e
    <3>1. /\ {i \in 1 .. Len(s) : s[i] = e} \in SUBSET Nat
          /\ {i \in 1 .. Len(s) : s[i] = e} # {}
      BY <1>1, <1>2
    <3>. QED
      BY <3>1, MinFacts
  <2>2. RemoveFirst(s, e) = a \o b
    BY <1>2 DEF RemoveFirst, SelectInSeq, RemoveAt
  <2> HIDE DEF n
  <2>3. n > 1
    BY <2>1
  <2>4. a \in Seq(S) /\ Len(a) = n - 1 /\ a[1] = s[1]
    <3>1. \A i \in 1 .. n - 1 : s[i] \in S
      BY <1>1, <2>1
    <3>. QED
      BY <3>1, <1>1, <2>1, <2>3, SubSeqProperties
  <2>5. b \in Seq(S) /\ Len(b) \in Nat
    <3>1. \A i \in n + 1 .. Len(s) : s[i] \in S
      BY <1>1, <2>1
    <3>2. b \in Seq(S)
      BY <3>1, <1>1, <2>1, SubSeqProperties
    <3>. QED
      BY <3>2, LenProperties
  <2> HIDE DEF a, b
  <2>6. 1 \in 1 .. Len(a) + Len(b)
    BY <1>1, <2>1, <2>3, <2>4, <2>5
  <2>7. 1 <= Len(a)
    BY <1>1, <2>1, <2>3, <2>4
  <2>8. (a \o b)[1] = a[1]
    BY <2>4, <2>5, <2>6, <2>7, ConcatProperties
  <2>. QED
    BY <2>2, <2>4, <2>8
<1>3. CASE ~\E i \in 1 .. Len(s) : s[i] = e
  BY <1>3 DEF RemoveFirst
<1>. QED
  BY <1>2, <1>3

(* wl_list_insert(list.prev, &e->link): an element linked at the tail *)
LEMMA AppendFacts ==
    ASSUME NEW S, NEW s \in Seq(S), NEW e \in S
    PROVE  /\ Append(s, e) \in Seq(S)
           /\ ToSet(Append(s, e)) = ToSet(s) \cup {e}
           /\ IsInjective(s) /\ e \notin ToSet(s) => IsInjective(Append(s, e))
<1> DEFINE c == Append(s, e)
<1>1. /\ c \in Seq(S) /\ Len(c) = Len(s) + 1
      /\ \A i \in 1 .. Len(s) : c[i] = s[i]
      /\ c[Len(s) + 1] = e
  BY AppendProperties
<1>2. Len(s) \in Nat /\ DOMAIN s = 1 .. Len(s) /\ DOMAIN c = 1 .. Len(s) + 1
  BY <1>1, LenProperties
<1> HIDE DEF c
<1>3. ToSet(c) = ToSet(s) \cup {e}
  BY <1>1, <1>2 DEF ToSet
<1>4. ASSUME IsInjective(s), e \notin ToSet(s)
      PROVE  IsInjective(c)
  <2>1. \A i \in 1 .. Len(s) : s[i] # e
    BY <1>4, <1>2 DEF ToSet
  <2>2. \A i, j \in 1 .. Len(s) : s[i] = s[j] => i = j
    BY <1>4, <1>2 DEF IsInjective
  <2>3. ASSUME NEW i \in 1 .. Len(s) + 1, NEW j \in 1 .. Len(s) + 1, c[i] = c[j]
        PROVE  i = j
    BY <1>1, <1>2, <2>1, <2>2, <2>3
  <2>. QED
    BY <2>3, <1>2 DEF IsInjective
<1>. QED
  BY <1>1, <1>3, <1>4 DEF c
-----------------------------------------------------------------------------
(* A message of kind k is in stream s; there is one at most.               *)
Holds(s, k)  == \E i \in 1 .. Len(s) : s[i].kind = k
AtMost1(s, k) ==
    \A i, j \in 1 .. Len(s) : s[i].kind = k /\ s[j].kind = k => i = j

LEMMA TailHolds ==
    ASSUME NEW S, NEW s \in Seq(S), s # << >>, NEW k
    PROVE  /\ Head(s) = s[1]
           /\ Holds(s, k) <=> Head(s).kind = k \/ Holds(Tail(s), k)
           /\ AtMost1(s, k) => AtMost1(Tail(s), k)
           /\ AtMost1(s, k) /\ Head(s).kind = k => ~Holds(Tail(s), k)
<1>1. /\ Len(s) \in Nat \ {0} /\ Len(Tail(s)) = Len(s) - 1
      /\ \A i \in 1 .. Len(Tail(s)) : Tail(s)[i] = s[i + 1]
  BY EmptySeq, HeadTailProperties
<1>2. Head(s) = s[1]
  OBVIOUS
<1>3. \A i \in 1 .. Len(Tail(s)) : i + 1 \in 1 .. Len(s) /\ i + 1 # 1
  BY <1>1
<1>4. \A i \in 1 .. Len(s) : i # 1 => i - 1 \in 1 .. Len(Tail(s)) /\ i = (i - 1) + 1
  BY <1>1
<1>5. Holds(s, k) <=> Head(s).kind = k \/ Holds(Tail(s), k)
  <2>1. ASSUME Head(s).kind = k
        PROVE  Holds(s, k)
    BY <1>1, <1>2, <2>1 DEF Holds
  <2>2. ASSUME Holds(Tail(s), k)
        PROVE  Holds(s, k)
    BY <1>1, <1>3, <2>2 DEF Holds
  <2>3. ASSUME Holds(s, k), Head(s).kind # k
        PROVE  Holds(Tail(s), k)
    <3>1. PICK i \in 1 .. Len(s) : s[i].kind = k
      BY <2>3 DEF Holds
    <3>2. i - 1 \in 1 .. Len(Tail(s)) /\ Tail(s)[i - 1] = s[i]
      BY <1>1, <1>2, <1>4, <2>3, <3>1
    <3>. QED
      BY <3>1, <3>2 DEF Holds
  <2>. QED
    BY <2>1, <2>2, <2>3
<1>6. ASSUME AtMost1(s, k)
      PROVE  AtMost1(Tail(s), k)
  <2>. SUFFICES ASSUME NEW i \in 1 .. Len(Tail(s)), NEW j \in 1 .. Len(Tail(s)),
                       Tail(s)[i].kind = k, Tail(s)[j].kind = k
       PROVE  i = j
    BY DEF AtMost1
  <2>1. i + 1 = j + 1
    BY <1>1, <1>3, <1>6 DEF AtMost1
  <2>. QED
    BY <2>1
<1>7. ASSUME AtMost1(s, k), Head(s).kind = k, Holds(Tail(s), k)
      PROVE  FALSE
  <2>1. PICK i \in 1 .. Len(Tail(s)) : Tail(s)[i].kind = k
    BY <1>7 DEF Holds
  <2>. QED
    BY <1>1, <1>2, <1>3, <1>7, <2>1 DEF AtMost1
<1>. QED
  BY <1>2, <1>5, <1>6, <1>7

LEMMA JoinHolds ==
    ASSUME NEW S, NEW s \in Seq(S), NEW t \in Seq(S), NEW k
    PROVE  /\ Holds(s \o t, k) <=> Holds(s, k) \/ Holds(t, k)
           /\ AtMost1(s, k) /\ AtMost1(t, k) /\ ~(Holds(s, k) /\ Holds(t, k))
                => AtMost1(s \o t, k)
<1> DEFINE u == s \o t
<1>1. /\ Len(s) \in Nat /\ Len(t) \in Nat /\ Len(u) = Len(s) + Len(t)
      /\ \A i \in 1 .. Len(u) : u[i] = IF i <= Len(s) THEN s[i] ELSE t[i - Len(s)]
  BY LenProperties, ConcatProperties
<1> HIDE DEF u
<1>2. \A i \in 1 .. Len(u) : \/ i \in 1 .. Len(s) /\ u[i] = s[i]
                             \/ i - Len(s) \in 1 .. Len(t) /\ u[i] = t[i - Len(s)]
  BY <1>1
<1>3. \A i \in 1 .. Len(s) : i \in 1 .. Len(u) /\ u[i] = s[i]
  BY <1>1
<1>4. \A i \in 1 .. Len(t) : i + Len(s) \in 1 .. Len(u) /\ u[i + Len(s)] = t[i]
  BY <1>1
<1>5. Holds(u, k) <=> Holds(s, k) \/ Holds(t, k)
  <2>1. Holds(s, k) => Holds(u, k)
    BY <1>3 DEF Holds
  <2>2. Holds(t, k) => Holds(u, k)
    BY <1>4 DEF Holds
  <2>3. Holds(u, k) => Holds(s, k) \/ Holds(t, k)
    BY <1>2 DEF Holds
  <2>. QED
    BY <2>1, <2>2, <2>3
<1>6. ASSUME AtMost1(s, k), AtMost1(t, k), ~(Holds(s, k) /\ Holds(t, k))
      PROVE  AtMost1(u, k)
  <2>. SUFFICES ASSUME NEW i \in 1 .. Len(u), NEW j \in 1 .. Len(u),
                       u[i].kind = k, u[j].kind = k
       PROVE  i = j
    BY DEF AtMost1
  <2>1. CASE i \in 1 .. Len(s) /\ u[i] = s[i] /\ j \in 1 .. Len(s) /\ u[j] = s[j]
    BY <1>6, <2>1 DEF AtMost1
  <2>2. CASE ~(i \in 1 .. Len(s) /\ u[i] = s[i]) /\ ~(j \in 1 .. Len(s) /\ u[j] = s[j])
    <3>1. i - Len(s) = j - Len(s)
      BY <1>2, <1>6, <2>2 DEF AtMost1
    <3>. QED
      BY <1>1, <3>1
  <2>. QED
    BY <1>2, <1>6, <2>1, <2>2 DEF Holds
<1>. QED
  BY <1>5, <1>6 DEF u

LEMMA OneHolds ==
    ASSUME NEW e, NEW k
    PROVE  /\ Holds(<<e>>, k) <=> e.kind = k
           /\ AtMost1(<<e>>, k)
           /\ ~Holds(<< >>, k) /\ AtMost1(<< >>, k)
BY DEF Holds, AtMost1
=============================================================================

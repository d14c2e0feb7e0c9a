--------------------------- MODULE LauncherProofs ---------------------------
(***************************************************************************)
(* Theorems about KumLauncher.tla: for any files and programs, in whatever *)
(* order they are read, every key and every number of visible rows,        *)
(* nothing is listed twice, the list on the screen is exactly what         *)
(* matches, in its order, the selection stays in view, and what is         *)
(* launched was on the screen.                                             *)
(***************************************************************************)
EXTENDS KumLauncher, FiniteSetTheorems, SequenceTheorems, TLAPS

(* The entries that filter_entries() has ahead of entry i. *)
AheadOf(i, q) == {j \in Matching(q) : Ahead(j, i, q)}

LEMMA MatchingFinite ==
    ASSUME NEW q, entries \in Seq(Entry)
    PROVE  /\ Matching(q) \subseteq Nat
           /\ IsFiniteSet(Matching(q))
           /\ Cardinality(Matching(q)) \in Nat
<1>1. Len(entries) \in Nat
  BY LenProperties
<1>2. Matching(q) \in SUBSET (1 .. Len(entries)) /\ Matching(q) \subseteq Nat
  BY <1>1 DEF Matching
<1>3. IsFiniteSet(1 .. Len(entries))
  BY <1>1, FS_Interval
<1>. QED
  BY <1>2, <1>3, FS_Subset, FS_CardinalityType

(* Of two entries exactly one is ahead of the other. *)
LEMMA AheadOrders ==
    ASSUME NEW q, entries \in Seq(Entry)
    PROVE  \A i, j, k \in Matching(q) :
              /\ ~Ahead(i, i, q)
              /\ i # j => Ahead(i, j, q) \/ Ahead(j, i, q)
              /\ Ahead(i, j, q) /\ Ahead(j, k, q) => Ahead(i, k, q)
<1>1. Matching(q) \subseteq Nat
  BY MatchingFinite
<1>. SUFFICES ASSUME NEW i \in Matching(q), NEW j \in Matching(q),
                     NEW k \in Matching(q)
     PROVE  /\ ~Ahead(i, i, q)
            /\ i # j => Ahead(i, j, q) \/ Ahead(j, i, q)
            /\ Ahead(i, j, q) /\ Ahead(j, k, q) => Ahead(i, k, q)
  OBVIOUS
<1>2. i \in Nat /\ j \in Nat /\ k \in Nat
  BY <1>1
<1>3. Begins(i, q) \in BOOLEAN /\ Begins(j, q) \in BOOLEAN /\ Begins(k, q) \in BOOLEAN
  BY DEF Begins, IsPrefix
<1>. QED
  BY <1>2, <1>3 DEF Ahead

(* An entry has fewer entries ahead of it than one it is ahead of. *)
LEMMA AheadGrows ==
    ASSUME NEW q, entries \in Seq(Entry),
           NEW i \in Matching(q), NEW j \in Matching(q), Ahead(i, j, q)
    PROVE  Cardinality(AheadOf(i, q)) < Cardinality(AheadOf(j, q))
<1>1. /\ AheadOf(i, q) \in SUBSET Matching(q)
      /\ AheadOf(j, q) \in SUBSET Matching(q)
  BY DEF AheadOf
<1>2. IsFiniteSet(AheadOf(i, q)) /\ IsFiniteSet(AheadOf(j, q))
  BY <1>1, MatchingFinite, FS_Subset
<1>3. i \notin AheadOf(i, q)
  BY AheadOrders DEF AheadOf
<1>4. AheadOf(i, q) \cup {i} \in SUBSET AheadOf(j, q)
  BY AheadOrders DEF AheadOf
<1>5. Cardinality(AheadOf(i, q) \cup {i}) = Cardinality(AheadOf(i, q)) + 1
  BY <1>2, <1>3, FS_AddElement
<1>6. Cardinality(AheadOf(i, q) \cup {i}) <= Cardinality(AheadOf(j, q))
  BY <1>2, <1>4, FS_Subset
<1>7. /\ Cardinality(AheadOf(i, q)) \in Nat
      /\ Cardinality(AheadOf(j, q)) \in Nat
  BY <1>2, FS_CardinalityType
<1>. QED
  BY <1>5, <1>6, <1>7

LEMMA InjectionOnto ==
    ASSUME NEW S, NEW T, NEW f \in Injection(S, T),
           IsFiniteSet(T), Cardinality(S) = Cardinality(T)
    PROVE  f \in Surjection(S, T)
BY FS_Injection

(* Every place in the list is some entry's. *)
LEMMA PlacesTaken ==
    ASSUME NEW q, entries \in Seq(Entry),
           NEW n, n = Cardinality(Matching(q)), NEW k \in 1 .. n
    PROVE  \E i \in Matching(q) : Cardinality(AheadOf(i, q)) = k - 1
<1> DEFINE S == Matching(q)
           ahead == [i \in S |-> Cardinality(AheadOf(i, q))]
<1>1. IsFiniteSet(S) /\ n \in Nat
  BY MatchingFinite
<1>2. IsFiniteSet(0 .. n - 1) /\ Cardinality(0 .. n - 1) = n
  <2>1. n - 1 \in Int /\ 0 \in Int
    BY <1>1
  <2>2. /\ IsFiniteSet(0 .. n - 1)
        /\ Cardinality(0 .. n - 1) = IF 0 > n - 1 THEN 0 ELSE (n - 1) - 0 + 1
    BY ONLY <2>1, FS_Interval
  <2>. QED
    BY <1>1, <2>2
<1>3. ASSUME NEW i \in S
      PROVE  Cardinality(AheadOf(i, q)) \in 0 .. n - 1
  <2>1. AheadOf(i, q) \in SUBSET (S \ {i})
    BY AheadOrders DEF AheadOf
  <2>2. IsFiniteSet(S \ {i}) /\ Cardinality(S \ {i}) = n - 1
    BY <1>1, FS_RemoveElement
  <2>3. IsFiniteSet(AheadOf(i, q)) /\ Cardinality(AheadOf(i, q)) <= n - 1
    BY <2>1, <2>2, FS_Subset
  <2>. QED
    BY <1>1, <2>3, FS_CardinalityType
<1>4. ahead \in [S -> 0 .. n - 1]
  BY <1>3
<1>5. ASSUME NEW i \in S, NEW j \in S, ahead[i] = ahead[j]
      PROVE  i = j
  <2>1. Cardinality(AheadOf(i, q)) = Cardinality(AheadOf(j, q))
    BY <1>5
  <2>2. Cardinality(AheadOf(i, q)) \in Int /\ Cardinality(AheadOf(j, q)) \in Int
    BY <1>3
  <2>. QED
    BY <2>1, <2>2, AheadGrows, AheadOrders
<1>6. ahead \in Injection(S, 0 .. n - 1)
  BY <1>4, <1>5 DEF Injection, IsInjective
<1>7. ahead \in Surjection(S, 0 .. n - 1)
  BY <1>2, <1>6, InjectionOnto
<1>8. k - 1 \in 0 .. n - 1
  BY <1>1
<1>9. PICK i \in S : ahead[i] = k - 1
  BY <1>7, <1>8 DEF Surjection
<1>. QED
  BY <1>9

(* filter_entries(): the entries that match, each once, in their order. *)
LEMMA FilteredFacts ==
    ASSUME NEW q, entries \in Seq(Entry)
    PROVE  /\ Filtered(q) \in Seq(Nat)
           /\ {Filtered(q)[k] : k \in 1 .. Len(Filtered(q))} = Matching(q)
           /\ \A j, k \in 1 .. Len(Filtered(q)) :
                 j < k => Ahead(Filtered(q)[j], Filtered(q)[k], q)
<1> DEFINE n == Cardinality(Matching(q))
           f == Filtered(q)
<1>1. n \in Nat /\ Matching(q) \subseteq Nat
  BY MatchingFinite
<1>2. f = [k \in 1 .. n |-> CHOOSE i \in Matching(q) :
                               Cardinality(AheadOf(i, q)) = k - 1]
  BY DEF Filtered, AheadOf
<1>3. ASSUME NEW k \in 1 .. n
      PROVE  f[k] \in Matching(q) /\ Cardinality(AheadOf(f[k], q)) = k - 1
  BY <1>2, PlacesTaken
<1> HIDE DEF f
<1>4. DOMAIN f = 1 .. n /\ f \in [1 .. n -> Nat]
  <2>1. f \in [1 .. n -> Matching(q)]
    BY <1>2, <1>3
  <2>. QED
    BY <1>1, <2>1
<1>5. f \in Seq(Nat) /\ Len(f) = n
  BY <1>1, <1>4, IsASeq, LenProperties
<1>6. ASSUME NEW i \in Matching(q)
      PROVE  \E k \in 1 .. n : f[k] = i
  <2>1. /\ Cardinality(AheadOf(i, q)) \in Nat
        /\ Cardinality(AheadOf(i, q)) < n
    <3>1. AheadOf(i, q) \in SUBSET (Matching(q) \ {i})
      BY AheadOrders DEF AheadOf
    <3>2. /\ IsFiniteSet(Matching(q) \ {i})
          /\ Cardinality(Matching(q) \ {i}) = n - 1
      BY MatchingFinite, FS_RemoveElement
    <3>. QED
      BY <1>1, <3>1, <3>2, FS_Subset, FS_CardinalityType
  <2> DEFINE k == Cardinality(AheadOf(i, q)) + 1
  <2>2. k \in 1 .. n /\ k - 1 = Cardinality(AheadOf(i, q))
    BY <1>1, <2>1
  <2>3. f[k] \in Matching(q) /\ Cardinality(AheadOf(f[k], q)) = Cardinality(AheadOf(i, q))
    BY <2>2, <1>3
  <2>4. f[k] = i
    BY <2>1, <2>3, AheadGrows, AheadOrders
  <2>. QED
    BY <2>2, <2>4
<1>7. ASSUME NEW j \in 1 .. n, NEW k \in 1 .. n, j < k
      PROVE  Ahead(f[j], f[k], q)
  <2>1. /\ f[j] \in Matching(q) /\ Cardinality(AheadOf(f[j], q)) = j - 1
        /\ f[k] \in Matching(q) /\ Cardinality(AheadOf(f[k], q)) = k - 1
    BY <1>3
  <2>2. f[j] # f[k] /\ ~(k - 1 < j - 1)
    BY <1>1, <1>7, <2>1
  <2>. QED
    BY <2>1, <2>2, AheadGrows, AheadOrders
<1>. QED
  BY <1>3, <1>5, <1>6, <1>7 DEF f
-----------------------------------------------------------------------------
(* The inductive invariant: the list is the filter's of the entries and    *)
(* the query, once there is one, and the selection is in view.             *)
LauncherInv ==
    /\ entries \in Seq(Entry)
    /\ stage # "ready" => filtered = << >> /\ selected = 0 /\ ~configured
    /\ stage = "ready" => filtered = Filtered(query)
    /\ selected \in Int
    /\ scroll \in Int
    /\ pointerRow \in Int
    /\ SelectionInView

(* The number of rows is a natural number, and filter_entries() does not   *)
(* change what it reads.                                                   *)
LEMMA CountType ==
    ASSUME LauncherInv
    PROVE  Count \in Nat
<1>1. filtered \in Seq(Nat)
  <2>1. CASE stage = "ready"
    BY <2>1, FilteredFacts DEF LauncherInv
  <2>2. CASE stage # "ready"
    BY <2>2, EmptySeq DEF LauncherInv
  <2>. QED
    BY <2>1, <2>2
<1>. QED
  BY <1>1, LenProperties DEF Count

LEMMA SameFiltered ==
    ASSUME UNCHANGED entries
    PROVE  \A q : q = query' => Filtered(query)' = Filtered(q)
<1>. SUFFICES ASSUME NEW q, q = query'
     PROVE  Filtered(query)' = Filtered(q)
  OBVIOUS
<1>1. Matching(query)' = Matching(q)
  BY DEF Matching, Holds, IsPrefix
<1>2. \A i, j : Ahead(i, j, query)' = Ahead(i, j, q)
  BY DEF Ahead, Begins, IsPrefix
<1>. QED
  BY SMTT(30), <1>1, <1>2 DEF Filtered

LEMMA LauncherStart == LauncherInit => LauncherInv
BY DEF LauncherInit, LauncherInv, SelectionInView, Count

(* A handler that keeps the list keeps the invariant if it leaves the      *)
(* selection in view.                                                      *)
LEMMA SameListStep ==
    ASSUME LauncherInv, SameList, selected' \in Int, scroll' \in Int,
           pointerRow' \in Int, stage = "ready",
           IF Count = 0 THEN scroll' = 0 /\ selected' \in {-1, 0}
           ELSE /\ 0 <= scroll' /\ scroll' + Rows <= Count
                /\ scroll' <= selected' /\ selected' < scroll' + Rows
    PROVE  LauncherInv'
<1>1. entries' = entries /\ query' = query /\ filtered' = filtered /\ stage' = "ready"
  BY DEF SameList
<1>2. Count' = Count /\ Rows' = Rows
  BY <1>1 DEF Count, Rows
<1>3. filtered' = Filtered(query)'
  BY <1>1, SameFiltered DEF LauncherInv
<1>. QED
  BY <1>1, <1>2, <1>3 DEF LauncherInv, SelectionInView

LEMMA RowAtFacts ==
    ASSUME LauncherInv, NEW row \in Int, RowAt(row) >= 0
    PROVE  /\ Count # 0
           /\ RowAt(row) \in Int
           /\ scroll <= RowAt(row) /\ RowAt(row) < scroll + Rows
<1>1. Count \in Nat /\ VisibleRows \in Nat \ {0}
  BY CountType, LauncherAssumption
<1>2. scroll \in Int /\ Rows \in Nat
  BY <1>1 DEF LauncherInv, Rows
<1>3. row >= 0 /\ row < Rows /\ scroll + row < Count
  BY DEF RowAt
<1>4. RowAt(row) = scroll + row
  BY <1>3 DEF RowAt
<1>5. Count # 0
  BY <1>1, <1>3 DEF Rows
<1>. QED
  BY <1>2, <1>3, <1>4, <1>5

LEMMA HandleKeeps ==
    ASSUME LauncherInv, stage = "ready", Handle
    PROVE  LauncherInv'
<1>1. /\ Count \in Nat /\ VisibleRows \in Nat \ {0}
      /\ selected \in Int /\ scroll \in Int /\ pointerRow \in Int
      /\ Rows = IF Count < VisibleRows THEN Count ELSE VisibleRows
      /\ IF Count = 0 THEN scroll = 0 /\ selected \in {-1, 0}
         ELSE /\ 0 <= scroll /\ scroll + Rows <= Count
              /\ scroll <= selected /\ selected < scroll + Rows
  BY CountType, LauncherAssumption DEF LauncherInv, SelectionInView, Rows
<1>2. ASSUME SameList, selected' = selected, scroll' = scroll, pointerRow' \in Int
      PROVE  LauncherInv'
  BY <1>1, <1>2, SameListStep
<1>3. ASSUME NEW q, Refilter(q)
      PROVE  LauncherInv'
  <2>1. /\ query' = q /\ filtered' = Filtered(q) /\ selected' = 0 /\ scroll' = 0
        /\ entries' = entries /\ pointerRow' = pointerRow /\ stage' = "ready"
    BY <1>3 DEF Refilter, SameRest
  <2>2. filtered' = Filtered(query)'
    BY <2>1, SameFiltered
  <2>3. Len(Filtered(q)) \in Nat
    BY FilteredFacts, LenProperties DEF LauncherInv
  <2>4. SelectionInView'
    <3> DEFINE n == Len(Filtered(q))
               r == IF n < VisibleRows THEN n ELSE VisibleRows
    <3>1. Count' = n /\ Rows' = r
      BY <2>1 DEF Count, Rows
    <3>2. n # 0 => 0 + r <= n /\ 0 < 0 + r
      BY <1>1, <2>3
    <3> HIDE DEF n, r
    <3>. QED
      BY <2>1, <3>1, <3>2 DEF SelectionInView
  <2>. QED
    BY <1>1, <2>1, <2>2, <2>4 DEF LauncherInv
<1>4. ASSUME NEW s \in Int, NEW sc \in Int, Select(s, sc),
             IF Count = 0 THEN sc = 0 /\ s \in {-1, 0}
             ELSE /\ 0 <= sc /\ sc + Rows <= Count
                  /\ sc <= s /\ s < sc + Rows
      PROVE  LauncherInv'
  BY <1>1, <1>4, SameListStep DEF Select, SameRest
<1>5. CASE Configure
  BY <1>1, <1>2, <1>5 DEF Configure
<1>6. CASE Dismiss
  BY <1>1, <1>2, <1>6 DEF Dismiss
<1>7. CASE \E k \in Keys : Type(k)
  BY <1>3, <1>7 DEF Type
<1>8. CASE BackSpace
  BY <1>3, <1>8 DEF BackSpace
<1>9. CASE Up
  <2>1. selected - 1 \in Int /\ ScrollUp(selected - 1) \in Int
    BY <1>1 DEF ScrollUp
  <2>. QED
    BY <1>1, <1>4, <1>9, <2>1 DEF Up, ScrollUp
<1>10. CASE Down
  <2>1. selected + 1 \in Int /\ ScrollDown(selected + 1) \in Int
    BY <1>1 DEF ScrollDown
  <2>. QED
    BY <1>1, <1>4, <1>10, <2>1 DEF Down, ScrollDown
<1>11. CASE PageUp
  <2> DEFINE s == IF selected < VisibleRows THEN 0 ELSE selected - VisibleRows
  <2>1. s \in Int /\ ScrollUp(s) \in Int
    BY <1>1 DEF ScrollUp
  <2>2. Select(s, ScrollUp(s))
    BY <1>11 DEF PageUp
  <2>. QED
    BY <1>1, <1>4, <2>1, <2>2 DEF ScrollUp
<1>12. CASE PageDown
  <2> DEFINE s == IF selected + VisibleRows >= Count THEN Count - 1
                  ELSE selected + VisibleRows
  <2>1. s \in Int /\ ScrollDown(s) \in Int
    BY <1>1 DEF ScrollDown
  <2>2. Select(s, ScrollDown(s))
    BY <1>12 DEF PageDown
  <2>. QED
    BY <1>1, <1>4, <2>1, <2>2 DEF ScrollDown
<1>13. CASE Return
  <2>1. SameList /\ selected' = selected /\ scroll' = scroll /\ pointerRow' = pointerRow
    BY <1>13 DEF Return, Launch
  <2>. QED
    BY <1>1, <1>2, <2>1
<1>14. CASE Click
  <2>1. /\ RowAt(pointerRow) >= 0 /\ SameList /\ scroll' = scroll
        /\ selected' = RowAt(pointerRow) /\ pointerRow' = pointerRow
    BY <1>14 DEF Click, Launch
  <2>. QED
    BY <1>1, <2>1, RowAtFacts, SameListStep
<1>15. ASSUME NEW row \in -1 .. VisibleRows, PointerEnter(row)
       PROVE  LauncherInv'
  BY <1>1, <1>2, <1>15 DEF PointerEnter
<1>16. ASSUME NEW row \in -1 .. VisibleRows, PointerMotion(row)
       PROVE  LauncherInv'
  <2>1. SameList /\ scroll' = scroll /\ pointerRow' = row /\ row \in Int
    BY <1>1, <1>16 DEF PointerMotion
  <2>2. \/ selected' = selected
        \/ RowAt(row) >= 0 /\ selected' = RowAt(row)
    BY <1>16 DEF PointerMotion
  <2>. QED
    BY <1>1, <1>2, <2>1, <2>2, RowAtFacts, SameListStep
<1>. QED
  BY <1>5, <1>6, <1>7, <1>8, <1>9, <1>10, <1>11, <1>12, <1>13, <1>14, <1>15,
     <1>16 DEF Handle

(* What collecting adds is an entry, and sorting keeps what it sorts.      *)
LEMMA CollectTypes ==
    ASSUME NEW list \in Seq(Entry)
    PROVE  /\ \A file \in Files : AddDesktopFile(list, file) \in Seq(Entry)
           /\ \A name \in Programs : AddExecutable(list, name) \in Seq(Entry)
           /\ Sorted(list) \subseteq Seq(Entry)
<1>1. ASSUME NEW file \in Files
      PROVE  AddDesktopFile(list, file) \in Seq(Entry)
  <2>1. [name |-> file.name, exec |-> file.exec, desktop |-> TRUE] \in Entry
    BY LauncherAssumption DEF Entry
  <2>. QED
    BY <2>1, AppendProperties DEF AddDesktopFile
<1>2. ASSUME NEW name \in Programs
      PROVE  AddExecutable(list, name) \in Seq(Entry)
  <2>1. [name |-> name, exec |-> name, desktop |-> FALSE] \in Entry
    BY LauncherAssumption DEF Entry
  <2>. QED
    BY <2>1, AppendProperties DEF AddExecutable
<1>3. ASSUME NEW s \in Sorted(list)
      PROVE  s \in Seq(Entry)
  <2>1. PICK p \in [DOMAIN list -> DOMAIN list] : s = [i \in DOMAIN list |-> list[p[i]]]
    BY DEF Sorted
  <2>2. /\ Len(list) \in Nat /\ DOMAIN list = 1 .. Len(list)
        /\ \A i \in DOMAIN list : list[i] \in Entry
    BY LenProperties, ElementOfSeq
  <2>3. s \in [1 .. Len(list) -> Entry]
    BY <2>1, <2>2
  <2>. QED
    BY <2>2, <2>3, IsASeq
<1>. QED
  BY <1>1, <1>2, <1>3

LEMMA CollectKeeps ==
    ASSUME LauncherInv, Collect
    PROVE  LauncherInv'
<1>1. /\ entries \in Seq(Entry) /\ pointerRow \in Int
      /\ VisibleRows \in Nat \ {0}
  BY LauncherAssumption DEF LauncherInv
<1>2. /\ stage # "ready" /\ filtered = << >> /\ selected = 0 /\ scroll = 0 /\ ~configured
  BY DEF Collect, ReadFile, FilesDone, ReadProgram, Sort, Ready, LauncherInv,
         SelectionInView, Count
<1>3. CASE UNCHANGED listVars /\ stage' # "ready" /\ entries' \in Seq(Entry)
  BY <1>1, <1>2, <1>3 DEF listVars, LauncherInv, SelectionInView, Count
<1>4. CASE \E file \in Files : ReadFile(file)
  BY <1>1, <1>3, <1>4, CollectTypes DEF ReadFile
<1>5. CASE FilesDone
  BY <1>1, <1>3, <1>5 DEF FilesDone
<1>6. CASE \E name \in Programs : ReadProgram(name)
  BY <1>1, <1>3, <1>6, CollectTypes DEF ReadProgram
<1>7. CASE Sort
  BY <1>1, <1>3, <1>7, CollectTypes DEF Sort
<1>8. CASE Ready
  <2>1. /\ stage' = "ready" /\ entries' = entries /\ query' = query
        /\ filtered' = Filtered(query)
        /\ selected' = 0 /\ scroll' = 0 /\ pointerRow' = pointerRow
    BY <1>2, <1>8 DEF Ready, listVars
  <2>2. filtered' = Filtered(query)'
    BY <2>1, SameFiltered
  <2>3. Len(Filtered(query)) \in Nat
    BY <1>1, FilteredFacts, LenProperties
  <2>4. SelectionInView'
    <3> DEFINE n == Len(Filtered(query))
               r == IF n < VisibleRows THEN n ELSE VisibleRows
    <3>1. Count' = n /\ Rows' = r
      BY <2>1 DEF Count, Rows
    <3>2. n # 0 => 0 + r <= n /\ 0 < 0 + r
      BY <1>1, <2>3
    <3> HIDE DEF n, r
    <3>. QED
      BY <2>1, <3>1, <3>2 DEF SelectionInView
  <2>. QED
    BY <1>1, <2>1, <2>2, <2>4 DEF LauncherInv
<1>. QED
  BY <1>4, <1>5, <1>6, <1>7, <1>8 DEF Collect

LEMMA LauncherStep == LauncherInv /\ [LauncherNext]_launcherVars => LauncherInv'
<1>. SUFFICES ASSUME LauncherInv, [LauncherNext]_launcherVars
     PROVE  LauncherInv'
  OBVIOUS
<1>1. CASE UNCHANGED launcherVars
  BY <1>1, SameFiltered DEF launcherVars, LauncherInv, SelectionInView, Rows, Count
<1>. QED
  BY <1>1, HandleKeeps, CollectKeeps DEF LauncherNext

(* The invariant behind both theorems: the list is the filter's, and the   *)
(* selection is in view.                                                   *)
THEOREM LauncherKept == LauncherSpec => []LauncherInv
<1>. QED
  BY LauncherStart, LauncherStep, PTL DEF LauncherSpec

(* No sequence of keys, edits, wheel and pointer events scrolls the        *)
(* selection of kumlauncher out of sight or indexes its list out of        *)
(* bounds, whatever the length of the list and of the window.              *)
THEOREM NeverOutOfView == LauncherSpec => []SelectionInView
<1>1. LauncherInv => SelectionInView
  BY DEF LauncherInv
<1>. QED
  BY <1>1, LauncherKept, PTL

(* filter_entries() lists every program whose name holds the query and no  *)
(* other, once, those that begin with it first, for every list and query.  *)
THEOREM ListsWhatMatches == LauncherSpec => []MatchesListed
<1>1. ASSUME LauncherInv
      PROVE  MatchesListed
  <2>. SUFFICES ASSUME stage = "ready"
       PROVE  MatchesListed
    BY DEF MatchesListed
  <2>1. entries \in Seq(Entry) /\ filtered = Filtered(query)
    BY <1>1 DEF LauncherInv
  <2>2. /\ filtered \in Seq(Nat)
        /\ {filtered[k] : k \in 1 .. Len(filtered)} = Matching(query)
        /\ \A j, k \in 1 .. Len(filtered) :
              j < k => Ahead(filtered[j], filtered[k], query)
    BY <2>1, FilteredFacts
  <2>3. \A k \in 1 .. Len(filtered) : filtered[k] \in Nat
    BY <2>2, ElementOfSeq
  <2>4. {filtered[k] : k \in 1 .. Count} = {i \in DOMAIN entries : Holds(i, query)}
    BY <2>1, <2>2, LenProperties DEF Count, Matching
  <2>5. ASSUME NEW j \in 1 .. Count, NEW k \in 1 .. Count, j < k
        PROVE  /\ filtered[j] # filtered[k]
               /\ Begins(filtered[k], query) => Begins(filtered[j], query)
               /\ Begins(filtered[j], query) = Begins(filtered[k], query) =>
                     filtered[j] < filtered[k]
    <3>1. Ahead(filtered[j], filtered[k], query)
      BY <2>2, <2>5 DEF Count
    <3>2. filtered[j] \in Nat /\ filtered[k] \in Nat
      BY <2>3 DEF Count
    <3>3. /\ Begins(filtered[j], query) \in BOOLEAN
          /\ Begins(filtered[k], query) \in BOOLEAN
      BY DEF Begins, IsPrefix
    <3>. QED
      BY <3>1, <3>2, <3>3 DEF Ahead
  <2>. QED
    BY <2>4, <2>5 DEF MatchesListed
<1>. QED
  BY <1>1, LauncherKept, PTL

-----------------------------------------------------------------------------
(* While kumlauncher runs, its surface shows what its state says, unless   *)
(* the last drawing failed; before it is configured, it shows nothing.     *)
DrawnKept ==
    /\ "stale" \in DOMAIN drawn
    /\ ~configured => drawn = Blank
    /\ configured /\ running => drawn.stale \/ drawn = Picture

LEMMA RenderKeeps ==
    ASSUME DrawnKept, Render, UNCHANGED configured
    PROVE  DrawnKept'
<1>1. CASE configured'
  <2>1. CASE drawn' = Picture'
    <3>1. "stale" \in DOMAIN Picture
      BY DEF Picture
    <3>2. "stale" \in DOMAIN Picture'
      BY DEF Picture
    <3>. QED
      BY <1>1, <2>1, <3>2 DEF DrawnKept
  <2>2. CASE drawn' = [drawn EXCEPT !.stale = TRUE]
    <3>1. "stale" \in DOMAIN drawn' /\ drawn'.stale = TRUE
      BY <2>2 DEF DrawnKept
    <3>. QED
      BY <1>1, <3>1 DEF DrawnKept
  <2>. QED
    BY <1>1, <2>1, <2>2 DEF Render
<1>2. CASE ~configured'
  BY <1>2 DEF Render, DrawnKept
<1>. QED
  BY <1>1, <1>2

LEMMA DrawnStays ==
    ASSUME DrawnKept, UNCHANGED <<scroll, configured, drawn>>,
           configured /\ running' =>
              /\ running /\ selected' = selected
              /\ UNCHANGED <<entries, query, filtered>>
    PROVE  DrawnKept'
<1>1. ASSUME configured, running'
      PROVE  Picture' = Picture
  BY <1>1 DEF Picture, Rows, Count, IsText
<1>. QED
  BY <1>1 DEF DrawnKept

LEMMA DrawnStep == LauncherInv /\ DrawnKept /\ [LauncherNext]_launcherVars => DrawnKept'
<1>. SUFFICES ASSUME LauncherInv, DrawnKept, [LauncherNext]_launcherVars
     PROVE  DrawnKept'
  OBVIOUS
<1>1. ASSUME NEW q, Refilter(q)
      PROVE  DrawnKept'
  BY <1>1, RenderKeeps DEF Refilter, SameRest
<1>2. ASSUME NEW s, NEW sc, Select(s, sc)
      PROVE  DrawnKept'
  BY <1>2, RenderKeeps DEF Select, SameRest
<1>3. ASSUME NEW s, Launch(s), Count = 0 => s = selected
      PROVE  DrawnKept'
  BY <1>3, DrawnStays DEF Launch, SameList
<1>4. CASE Configure
  <2>1. Render /\ configured'
    BY <1>4 DEF Configure
  <2>2. "stale" \in DOMAIN Picture'
    BY DEF Picture
  <2>3. ASSUME drawn' = [drawn EXCEPT !.stale = TRUE]
        PROVE  "stale" \in DOMAIN drawn' /\ drawn'.stale = TRUE
    BY <2>3 DEF DrawnKept
  <2>. QED
    BY <2>1, <2>2, <2>3 DEF Render, DrawnKept
<1>5. CASE Dismiss
  BY <1>5, DrawnStays DEF Dismiss, SameList
<1>6. CASE \E k \in Keys : Type(k)
  BY <1>1, <1>6 DEF Type
<1>7. CASE BackSpace
  BY <1>1, <1>7 DEF BackSpace
<1>8. CASE Up \/ Down
  BY <1>2, <1>8 DEF Up, Down
<1>9. CASE PageUp \/ PageDown
  BY <1>2, <1>9 DEF PageUp, PageDown
<1>10. CASE Return
  BY <1>3, <1>10 DEF Return
<1>11. CASE Click
  <2>1. RowAt(pointerRow) >= 0 /\ Launch(RowAt(pointerRow))
    BY <1>11 DEF Click
  <2>2. pointerRow \in Int
    BY DEF LauncherInv
  <2>. QED
    BY <1>3, <2>1, <2>2, RowAtFacts
<1>12. ASSUME NEW row \in -1 .. VisibleRows, PointerEnter(row)
       PROVE  DrawnKept'
  BY <1>12, DrawnStays DEF PointerEnter, SameList
<1>13. ASSUME NEW row \in -1 .. VisibleRows, PointerMotion(row)
       PROVE  DrawnKept'
  BY <1>13, DrawnStays, RenderKeeps DEF PointerMotion, SameList
<1>14. CASE UNCHANGED launcherVars
  BY <1>14, DrawnStays DEF launcherVars
<1>15. CASE Collect
  <2>1. ~configured
    BY <1>15 DEF Collect, ReadFile, FilesDone, ReadProgram, Sort, Ready, LauncherInv
  <2>2. UNCHANGED <<scroll, configured, drawn>>
    BY <1>15 DEF Collect, ReadFile, FilesDone, ReadProgram, Sort, Ready, listVars
  <2>. QED
    BY <2>1, <2>2, DrawnStays
<1>. QED
  BY <1>4, <1>5, <1>6, <1>7, <1>8, <1>9, <1>10, <1>11, <1>12, <1>13, <1>14, <1>15
     DEF LauncherNext, Handle

(* The program kumlauncher starts is one that was on the screen, in the    *)
(* row highlighted or in the row under the pointer, whatever keys, wheel   *)
(* and pointer did since, if the last drawing succeeded.                   *)
THEOREM LaunchedWasSeen == LauncherSpec => LaunchesWhatIsSeen
<1>1. LauncherInit => DrawnKept
  BY DEF LauncherInit, DrawnKept, Blank
<1>2. ASSUME LauncherInv, DrawnKept, LauncherNext, running, ~running',
             launched' # launched, ~drawn.stale, drawn.rows # << >>
      PROVE  \E r \in {drawn.lit, pointerRow} :
                r + 1 \in DOMAIN drawn.rows /\ drawn.rows[r + 1] = launched'
  <2>1. drawn = Picture
    BY <1>2 DEF DrawnKept, Blank
  <2>2. IsText(query)
    BY <1>2, <2>1 DEF Picture
  <2>3. /\ drawn.rows = [r \in 1 .. Rows |-> entries[filtered[scroll + r]]]
        /\ drawn.lit = selected - scroll
    BY <2>1, <2>2 DEF Picture
  <2>4. /\ Count \in Nat /\ VisibleRows \in Nat \ {0} /\ Rows \in Nat
        /\ selected \in Int /\ scroll \in Int /\ pointerRow \in Int
    <3>1. Count \in Nat /\ VisibleRows \in Nat \ {0}
      BY <1>2, CountType, LauncherAssumption
    <3>2. Rows \in Nat
      BY <3>1 DEF Rows
    <3>. QED
      BY <1>2, <3>1, <3>2 DEF LauncherInv
  <2>5. ASSUME NEW s \in Int, Launch(s)
        PROVE  Count # 0 /\ launched' = entries[filtered[s + 1]]
    BY <1>2, <2>5 DEF Launch
  <2>6. ASSUME NEW r \in Int, 0 <= r, r < Rows, NEW s, s = scroll + r,
               launched' = entries[filtered[s + 1]]
        PROVE  r + 1 \in DOMAIN drawn.rows /\ drawn.rows[r + 1] = launched'
    <3>1. r + 1 \in 1 .. Rows /\ s + 1 = scroll + (r + 1)
      BY <2>4, <2>6
    <3>. QED
      BY <2>3, <2>6, <3>1
  <2>7. CASE Return
    <3>1. Count # 0 /\ launched' = entries[filtered[selected + 1]]
      BY <2>4, <2>5, <2>7 DEF Return
    <3>2. scroll <= selected /\ selected < scroll + Rows
      BY <1>2, <3>1 DEF LauncherInv, SelectionInView
    <3> DEFINE r == selected - scroll
    <3>3. r \in Int /\ 0 <= r /\ r < Rows /\ selected = scroll + r
      BY <2>4, <3>2
    <3>. QED
      BY <2>3, <2>6, <3>1, <3>3
  <2>8. CASE Click
    <3> DEFINE s == RowAt(pointerRow)
    <3>1. s >= 0 /\ Launch(s)
      BY <2>8 DEF Click
    <3>2. /\ 0 <= pointerRow /\ pointerRow < Rows
          /\ s = scroll + pointerRow
      BY <2>4, <3>1 DEF RowAt
    <3>3. s \in Int
      BY <2>4, <3>2
    <3> HIDE DEF s
    <3>4. launched' = entries[filtered[s + 1]]
      BY <2>5, <3>1, <3>3
    <3>. QED
      BY <2>4, <2>6, <3>2, <3>4
  <2>9. launched' # launched => Return \/ Click
    BY <1>2 DEF LauncherNext, Collect, ReadFile, FilesDone, ReadProgram, Sort, Ready,
                listVars, Handle, Configure, Dismiss, Type, BackSpace, Up, Down, PageUp,
                PageDown, PointerEnter, PointerMotion, Refilter, Select, SameRest
  <2>. QED
    BY <1>2, <2>7, <2>8, <2>9
<1>3. LauncherInv /\ DrawnKept /\ [LauncherNext]_launcherVars =>
        [/\ running /\ ~running' /\ launched' # launched
         /\ ~drawn.stale /\ drawn.rows # << >>
         => \E r \in {drawn.lit, pointerRow} :
                /\ r + 1 \in DOMAIN drawn.rows
                /\ drawn.rows[r + 1] = launched']_launcherVars
  BY <1>2
<1>. QED
  BY <1>1, <1>3, LauncherKept, DrawnStep, PTL DEF LauncherSpec, LaunchesWhatIsSeen

-----------------------------------------------------------------------------
(* NothingTwice, of any list *)
NoneTwice(list) ==
    \A i, j \in DOMAIN list : i # j =>
        /\ list[i].name = list[j].name => list[i].desktop # list[j].desktop
        /\ list[i].desktop /\ ~list[j].desktop => list[i].exec # list[j].name

LEMMA AppendNoneTwice ==
    ASSUME NEW list \in Seq(Entry), NoneTwice(list), NEW e \in Entry,
           \A i \in DOMAIN list :
              /\ list[i].name = e.name => list[i].desktop # e.desktop
              /\ list[i].desktop /\ ~e.desktop => list[i].exec # e.name
              /\ e.desktop /\ ~list[i].desktop => e.exec # list[i].name
    PROVE  /\ NoneTwice(Append(list, e)) /\ Append(list, e) \in Seq(Entry)
           /\ \A i \in DOMAIN Append(list, e) :
                 \/ Append(list, e)[i] = e
                 \/ i \in DOMAIN list /\ Append(list, e)[i] = list[i]
<1> DEFINE l == Append(list, e)
<1>1. /\ Len(list) \in Nat /\ DOMAIN list = 1 .. Len(list)
      /\ l \in Seq(Entry) /\ Len(l) = Len(list) + 1
      /\ \A i \in 1 .. Len(list) : l[i] = list[i]
      /\ l[Len(list) + 1] = e
  BY LenProperties, AppendProperties
<1>2. DOMAIN l = 1 .. Len(list) + 1
  BY <1>1, LenProperties
<1> HIDE DEF l
<1>3. \A i \in DOMAIN l : \/ i = Len(list) + 1 /\ l[i] = e
                          \/ i \in DOMAIN list /\ l[i] = list[i]
  BY <1>1, <1>2
<1>4. NoneTwice(l)
  BY <1>3 DEF NoneTwice
<1>. QED
  BY <1>1, <1>3, <1>4 DEF l

(* One step of collect_desktop_entries(), and one of                       *)
(* collect_path_entries() after it, lists nothing twice, and qsort()       *)
(* leaves it so.                                                           *)
LEMMA CollectsOnce ==
    ASSUME NEW list \in Seq(Entry), NoneTwice(list)
    PROVE  /\ (\A i \in DOMAIN list : list[i].desktop) =>
                 \A file \in [name : Seq(STRING), exec : Seq(STRING), hidden : BOOLEAN] :
                    /\ NoneTwice(AddDesktopFile(list, file))
                    /\ \A i \in DOMAIN AddDesktopFile(list, file) :
                          AddDesktopFile(list, file)[i].desktop
           /\ \A name \in Seq(STRING) : NoneTwice(AddExecutable(list, name))
           /\ \A s \in Sorted(list) : NoneTwice(s)
<1>1. ASSUME \A i \in DOMAIN list : list[i].desktop,
             NEW file \in [name : Seq(STRING), exec : Seq(STRING), hidden : BOOLEAN]
      PROVE  /\ NoneTwice(AddDesktopFile(list, file))
             /\ \A i \in DOMAIN AddDesktopFile(list, file) :
                   AddDesktopFile(list, file)[i].desktop
  <2> DEFINE e == [name |-> file.name, exec |-> file.exec, desktop |-> TRUE]
  <2>1. CASE AddDesktopFile(list, file) = list
    BY <1>1, <2>1
  <2>2. CASE AddDesktopFile(list, file) # list
    <3>1. /\ AddDesktopFile(list, file) = Append(list, e)
          /\ \A i \in DOMAIN list : list[i].name # file.name
      BY <2>2 DEF AddDesktopFile
    <3>2. e \in Entry /\ e.name = file.name /\ e.desktop = TRUE
      BY DEF Entry
    <3> HIDE DEF e
    <3>3. /\ NoneTwice(Append(list, e))
          /\ \A i \in DOMAIN Append(list, e) :
                \/ Append(list, e)[i] = e
                \/ i \in DOMAIN list /\ Append(list, e)[i] = list[i]
      BY <1>1, <3>1, <3>2, AppendNoneTwice
    <3>. QED
      BY <1>1, <3>1, <3>2, <3>3
  <2>. QED
    BY <2>1, <2>2
<1>2. ASSUME NEW name \in Seq(STRING)
      PROVE  NoneTwice(AddExecutable(list, name))
  <2> DEFINE e == [name |-> name, exec |-> name, desktop |-> FALSE]
  <2>1. CASE AddExecutable(list, name) = list
    BY <2>1
  <2>2. CASE AddExecutable(list, name) # list
    <3>1. /\ AddExecutable(list, name) = Append(list, e)
          /\ \A i \in DOMAIN list :
                (IF list[i].desktop THEN list[i].exec ELSE list[i].name) # name
      BY <2>2 DEF AddExecutable
    <3>2. e \in Entry /\ e.name = name /\ e.desktop = FALSE
      BY DEF Entry
    <3> HIDE DEF e
    <3>3. \A i \in DOMAIN list :
             /\ list[i].name = e.name => list[i].desktop # e.desktop
             /\ list[i].desktop /\ ~e.desktop => list[i].exec # e.name
             /\ e.desktop /\ ~list[i].desktop => e.exec # list[i].name
      <4>1. \A i \in DOMAIN list : list[i].desktop \in BOOLEAN
        <5>1. \A i \in DOMAIN list : list[i] \in Entry
          BY LenProperties, ElementOfSeq
        <5>. QED
          BY <5>1 DEF Entry
      <4>. SUFFICES ASSUME NEW i \in DOMAIN list
           PROVE  /\ list[i].name = e.name => list[i].desktop # e.desktop
                  /\ list[i].desktop /\ ~e.desktop => list[i].exec # e.name
                  /\ e.desktop /\ ~list[i].desktop => e.exec # list[i].name
        OBVIOUS
      <4>2. CASE list[i].desktop = TRUE
        <5>1. list[i].exec # name
          BY <3>1, <4>2
        <5>. QED
          BY <3>2, <4>2, <5>1
      <4>3. CASE list[i].desktop = FALSE
        <5>1. list[i].name # name
          BY <3>1, <4>3
        <5>. QED
          BY <3>2, <4>3, <5>1
      <4>. QED
        BY <4>1, <4>2, <4>3
    <3>. QED
      BY <3>1, <3>2, <3>3, AppendNoneTwice
  <2>. QED
    BY <2>1, <2>2
<1>3. ASSUME NEW s \in Sorted(list)
      PROVE  NoneTwice(s)
  <2>1. PICK p \in [DOMAIN list -> DOMAIN list] :
           IsInjective(p) /\ s = [i \in DOMAIN list |-> list[p[i]]]
    BY DEF Sorted
  <2>2. \A i, j \in DOMAIN list : i # j => p[i] # p[j]
    BY <2>1 DEF IsInjective
  <2>3. /\ DOMAIN s = DOMAIN list
        /\ \A i \in DOMAIN list : p[i] \in DOMAIN list /\ s[i] = list[p[i]]
    BY <2>1
  <2>. QED
    BY <2>2, <2>3 DEF NoneTwice
<1>. QED
  BY <1>1, <1>2, <1>3

(* No two desktop entries have the same name, no program is listed twice,  *)
(* and none under the name of a desktop entry's command, whatever the      *)
(* directories hold and in whatever order they are read: a program is      *)
(* compared with every desktop entry because those are all there by then.  *)
THEOREM ListsNothingTwice == LauncherSpec => []NothingTwice
<1> DEFINE Once == /\ NoneTwice(entries)
                   /\ stage = "files" => \A i \in DOMAIN entries : entries[i].desktop
<1>1. LauncherInit => Once
  BY DEF LauncherInit, NoneTwice
<1>2. LauncherInv /\ Once /\ [LauncherNext]_launcherVars => Once'
  <2>. SUFFICES ASSUME LauncherInv, Once, [LauncherNext]_launcherVars
       PROVE  Once'
    OBVIOUS
  <2>1. entries \in Seq(Entry)
    BY DEF LauncherInv
  <2>2. CASE entries' = entries /\ (stage' = "files" => stage = "files")
    BY <2>2 DEF NoneTwice
  <2>3. ASSUME NEW file \in Files, ReadFile(file)
        PROVE  Once'
    <3>1. file \in [name : Seq(STRING), exec : Seq(STRING), hidden : BOOLEAN]
      BY LauncherAssumption
    <3>2. /\ stage = "files" /\ NoneTwice(entries)
          /\ \A i \in DOMAIN entries : entries[i].desktop
      BY <2>3 DEF ReadFile
    <3>3. /\ entries' = AddDesktopFile(entries, file)
          /\ stage' = "files"
      BY <2>3 DEF ReadFile
    <3>4. /\ NoneTwice(AddDesktopFile(entries, file))
          /\ \A i \in DOMAIN AddDesktopFile(entries, file) :
                AddDesktopFile(entries, file)[i].desktop
      BY <2>1, <3>1, <3>2, CollectsOnce
    <3>. QED
      BY <3>3, <3>4 DEF NoneTwice
  <2>4. ASSUME NEW name \in Programs, ReadProgram(name)
        PROVE  Once'
    BY <2>1, <2>4, CollectsOnce, LauncherAssumption DEF ReadProgram, NoneTwice
  <2>5. CASE Sort
    BY <2>1, <2>5, CollectsOnce DEF Sort, NoneTwice
  <2>6. \/ entries' = entries /\ (stage' = "files" => stage = "files")
        \/ \E file \in Files : ReadFile(file)
        \/ \E name \in Programs : ReadProgram(name)
        \/ Sort
    BY DEF LauncherNext, Collect, FilesDone, Ready, Handle, Configure, Dismiss, Type,
           BackSpace, Up, Down, PageUp, PageDown, Return, Click, Launch, PointerEnter,
           PointerMotion, Refilter, Select, SameRest, SameList, launcherVars
  <2>. QED
    BY <2>2, <2>3, <2>4, <2>5, <2>6
<1>3. Once => NothingTwice
  BY DEF NoneTwice, NothingTwice
<1>. QED
  BY <1>1, <1>2, <1>3, LauncherKept, PTL DEF LauncherSpec
=============================================================================

------------------------------ MODULE BarProofs ------------------------------
(***************************************************************************)
(* Theorems about Bar.tla: for any outputs, workspaces and sizes of the    *)
(* socket and of kumbar's buffer, the compositor the bar listens to is the *)
(* one of Workspaces.tla, neither buffer holds more than it can, and the   *)
(* bars show what the outputs do as soon as they have read all there is.   *)
(***************************************************************************)
EXTENDS Bar, WorkspacesProofs

(* What kumbar has of the stream and what is under way, in one piece       *)
Stream == ibuf \o link

(* Piece q may follow piece p in a stream nothing was lost of. *)
Follows(p, q) == IF Ends(p) THEN q[2] = 1 ELSE q = <<p[1], p[2] + 1>>

InStep(s) == \A k \in 1 .. Len(s) : IF k = 1 THEN s[1][2] = 1 ELSE Follows(s[k - 1], s[k])
Whole(s)  == InStep(s) /\ (s # << >> => Ends(s[Len(s)]))

(* What a bar that shows w shows once it has read l. *)
Reads(l, w, o) == IF News(l, o) = {} THEN w ELSE l[Max(News(l, o))][1].index

BarInv ==
    /\ BarTypeOK
    /\ connected /\ losses = 0 => Whole(Stream) /\ ActiveFollowed
-----------------------------------------------------------------------------
LEMMA PieceFacts ==
    ASSUME NEW p \in Pieces
    PROVE  /\ p[1] \in Events /\ p[2] \in 1 .. Length(p[1]) /\ p = <<p[1], p[2]>>
           /\ Length(p[1]) \in {2, 3}
           /\ p[1].event = "workspace" =>
                 Length(p[1]) = 2 /\ p[1].output \in Outputs /\ p[1].index \in Index
<1>1. p \in Events \X (1 .. 3) /\ p[2] <= Length(p[1])
  BY DEF Pieces
<1>2. Length(p[1]) \in {2, 3}
  BY DEF Length
<1>3. p[1].event = "workspace" =>
         Length(p[1]) = 2 /\ p[1].output \in Outputs /\ p[1].index \in Index
  BY <1>1 DEF Events, Length, Title, Occupancy
<1>. QED
  BY <1>1, <1>2, <1>3

LEMMA LineFacts ==
    ASSUME NEW e \in Events
    PROVE  /\ Line(e) \in Seq(Pieces) /\ Len(Line(e)) = Length(e)
           /\ Length(e) \in {2, 3}
           /\ \A k \in 1 .. Length(e) :
                 /\ Line(e)[k] = <<e, k>>
                 /\ Ends(Line(e)[k]) <=> k = Length(e)
           /\ e.event = "workspace" => Length(e) = 2
<1>1. Length(e) \in {2, 3}
  BY DEF Length
<1>2. \A k \in 1 .. Length(e) : <<e, k>> \in Pieces
  BY <1>1 DEF Pieces
<1>3. Line(e) \in [1 .. Length(e) -> Pieces]
  BY <1>2 DEF Line
<1>4. Line(e) \in Seq(Pieces) /\ Len(Line(e)) = Length(e)
  BY <1>1, <1>3, IsASeq, LenProperties
<1>5. e.event = "workspace" => Length(e) = 2
  BY DEF Length, Title
<1>. QED
  BY <1>1, <1>4, <1>5 DEF Line, Ends

LEMMA EventFacts ==
    /\ Occupancy \in Events /\ Title \in Events
    /\ Occupancy.event # "workspace" /\ Title.event # "workspace"
    /\ Length(Occupancy) = 2
    /\ \A o \in Outputs, w \in Index :
          /\ WorkspaceEvent(o, w) \in Events
          /\ WorkspaceEvent(o, w).event = "workspace"
          /\ WorkspaceEvent(o, w).output = o /\ WorkspaceEvent(o, w).index = w
          /\ Length(WorkspaceEvent(o, w)) = 2
BY DEF Occupancy, Title, WorkspaceEvent, Events, Length

(* An event appended to a stream *)
LEMMA JoinWhole ==
    ASSUME NEW s \in Seq(Pieces), Whole(s), NEW e \in Events
    PROVE  Whole(s \o Line(e))
<1> DEFINE l == Line(e)
           t == s \o l
<1>1. /\ l \in Seq(Pieces) /\ Len(l) = Length(e) /\ Length(e) \in {2, 3}
      /\ \A k \in 1 .. Length(e) : l[k] = <<e, k>> /\ (Ends(l[k]) <=> k = Length(e))
  BY LineFacts
<1>2. Len(s) \in Nat /\ (Len(s) > 0 => Ends(s[Len(s)]))
  BY LenProperties, EmptySeq DEF Whole
<1> HIDE DEF l
<1>3. /\ t \in Seq(Pieces) /\ Len(t) = Len(s) + Length(e)
      /\ \A k \in 1 .. Len(t) : t[k] = IF k <= Len(s) THEN s[k] ELSE l[k - Len(s)]
  BY <1>1, ConcatProperties
<1> HIDE DEF t
<1>4. ASSUME NEW k \in 1 .. Len(t)
      PROVE  IF k = 1 THEN t[1][2] = 1 ELSE Follows(t[k - 1], t[k])
  <2>1. CASE k <= Len(s)
    <3>1. t[k] = s[k] /\ (k # 1 => t[k - 1] = s[k - 1])
      BY <1>2, <1>3, <2>1
    <3>2. IF k = 1 THEN s[1][2] = 1 ELSE Follows(s[k - 1], s[k])
      BY <1>2, <2>1 DEF Whole, InStep
    <3>. QED
      BY <3>1, <3>2
  <2>2. CASE k = Len(s) + 1
    <3>1. t[k] = <<e, 1>> /\ (k # 1 => t[k - 1] = s[Len(s)])
      BY <1>1, <1>2, <1>3, <2>2
    <3>. QED
      BY <1>2, <2>2, <3>1 DEF Follows
  <2>3. CASE k > Len(s) + 1
    <3> DEFINE j == k - Len(s)
    <3>1. j \in 2 .. Length(e) /\ k - 1 \in 1 .. Len(t) /\ k # 1 /\ j - 1 = (k - 1) - Len(s)
      BY <1>1, <1>2, <1>3, <2>3
    <3>2. t[k] = <<e, j>> /\ t[k - 1] = l[j - 1] /\ l[j - 1] = <<e, j - 1>>
      BY <1>1, <1>2, <1>3, <2>3, <3>1
    <3> HIDE DEF j
    <3>3. ~Ends(l[j - 1])
      <4>1. j - 1 \in 1 .. Length(e) /\ j - 1 # Length(e)
        BY <1>1, <3>1
      <4>. QED
        BY <1>1, <4>1
    <3>4. (j - 1) + 1 = j
      BY <3>1
    <3>. QED
      BY <3>1, <3>2, <3>3, <3>4 DEF Follows
  <2>. QED
    BY <1>2, <1>3, <2>1, <2>2, <2>3
<1>5. Ends(t[Len(t)])
  <2>1. t[Len(t)] = l[Length(e)]
    BY <1>1, <1>2, <1>3
  <2>. QED
    BY <1>1, <2>1
<1>. QED
  BY <1>4, <1>5 DEF Whole, InStep, t, l

LEMMA NewsFacts ==
    ASSUME NEW l \in Seq(Pieces), NEW o
    PROVE  /\ Len(l) \in Nat /\ DOMAIN l = 1 .. Len(l)
           /\ News(l, o) \in SUBSET (0 .. Len(l)) /\ 0 \notin News(l, o)
           /\ News(l, o) # {} => /\ Max(News(l, o)) \in News(l, o)
                                 /\ \A k \in News(l, o) : Max(News(l, o)) >= k
<1>1. Len(l) \in Nat /\ DOMAIN l = 1 .. Len(l)
  BY LenProperties
<1>2. News(l, o) \in SUBSET (0 .. Len(l)) /\ 0 \notin News(l, o)
  BY <1>1 DEF News
<1>. QED
  BY <1>1, <1>2, MaxFacts

(* The greatest of a set of news is the one no other is after. *)
LEMMA ReadsLast ==
    ASSUME NEW l \in Seq(Pieces), NEW w, NEW o, NEW m \in News(l, o),
           \A k \in News(l, o) : k <= m
    PROVE  Reads(l, w, o) = l[m][1].index
<1>1. /\ News(l, o) # {} /\ Max(News(l, o)) \in News(l, o) /\ Max(News(l, o)) >= m
      /\ News(l, o) \in SUBSET (0 .. Len(l)) /\ Len(l) \in Nat
  BY NewsFacts
<1>2. Max(News(l, o)) = m
  BY <1>1
<1>. QED
  BY <1>1, <1>2 DEF Reads

LEMMA JoinReads ==
    ASSUME NEW l \in Seq(Pieces), NEW e \in Events, NEW w, NEW o
    PROVE  Reads(l \o Line(e), w, o) =
              IF e.event = "workspace" /\ e.output = o THEN e.index ELSE Reads(l, w, o)
<1> DEFINE n == Line(e)
           t == l \o n
<1>1. /\ n \in Seq(Pieces) /\ Len(n) = Length(e) /\ Length(e) \in {2, 3}
      /\ \A k \in 1 .. Length(e) : n[k] = <<e, k>> /\ (Ends(n[k]) <=> k = Length(e))
  BY LineFacts
<1> HIDE DEF n
<1>2. /\ t \in Seq(Pieces) /\ Len(t) = Len(l) + Length(e)
      /\ \A k \in 1 .. Len(t) : t[k] = IF k <= Len(l) THEN l[k] ELSE n[k - Len(l)]
  BY <1>1, ConcatProperties
<1> HIDE DEF t
<1>3. Len(l) \in Nat /\ DOMAIN l = 1 .. Len(l) /\ DOMAIN t = 1 .. Len(t)
  BY <1>2, LenProperties
<1>4. \A k \in 1 .. Len(l) : k \in News(t, o) <=> k \in News(l, o)
  BY <1>1, <1>2, <1>3 DEF News
<1>5. ASSUME NEW k \in 1 .. Len(t), k > Len(l)
      PROVE  k \in News(t, o) <=> /\ k = Len(t)
                                  /\ e.event = "workspace" /\ e.output = o
  <2>1. k - Len(l) \in 1 .. Length(e) /\ t[k] = n[k - Len(l)]
    BY <1>1, <1>2, <1>3, <1>5
  <2>2. t[k][1] = e /\ (Ends(t[k]) <=> k - Len(l) = Length(e))
    BY <1>1, <2>1
  <2>3. k - Len(l) = Length(e) <=> k = Len(t)
    BY <1>1, <1>2, <1>3
  <2>. QED
    BY <1>3, <2>2, <2>3 DEF News
<1>6. CASE e.event = "workspace" /\ e.output = o
  <2>1. Len(t) \in 1 .. Len(t) /\ Len(t) > Len(l)
    BY <1>1, <1>2, <1>3
  <2>2. Len(t) \in News(t, o) /\ t[Len(t)][1] = e
    BY <1>1, <1>2, <1>3, <1>5, <1>6, <2>1
  <2>3. \A k \in News(t, o) : k <= Len(t)
    BY <1>2, NewsFacts
  <2>4. Reads(t, w, o) = t[Len(t)][1].index
    BY <1>2, <2>2, <2>3, ReadsLast
  <2>. QED
    BY <1>6, <2>2, <2>4 DEF t, n
<1>7. CASE ~(e.event = "workspace" /\ e.output = o)
  <2>1. News(t, o) = News(l, o)
    <3>1. \A k \in News(t, o) : k \in 1 .. Len(t)
      BY <1>3 DEF News
    <3>2. \A k \in News(t, o) : k \in 1 .. Len(l)
      BY <1>2, <1>3, <1>5, <1>7, <3>1
    <3>3. \A k \in News(l, o) : k \in 1 .. Len(l)
      BY <1>3 DEF News
    <3>. QED
      BY <1>4, <3>2, <3>3
  <2>2. News(l, o) # {} => t[Max(News(l, o))] = l[Max(News(l, o))]
    <3>1. News(l, o) # {} => Max(News(l, o)) \in 1 .. Len(l)
      <4>1. News(l, o) # {} => Max(News(l, o)) \in News(l, o)
        BY NewsFacts
      <4>2. News(l, o) \subseteq 1 .. Len(l)
        BY <1>3 DEF News
      <4>. QED
        BY <4>1, <4>2
    <3>. QED
      BY <1>1, <1>2, <1>3, <3>1
  <2>. QED
    BY <1>7, <2>1, <2>2 DEF Reads, t, n
<1>. QED
  BY <1>6, <1>7
-----------------------------------------------------------------------------
(* What kumbar has left after the last newline *)
LEMMA RestFacts ==
    ASSUME NEW buf \in Seq(Pieces)
    PROVE  \E m \in 0 .. Len(buf) :
              /\ m = Max({0} \cup Newlines(buf))
              /\ m # 0 => Ends(buf[m])
              /\ \A k \in 1 .. Len(buf) : Ends(buf[k]) => k <= m
              /\ RestOf(buf) \in Seq(Pieces) /\ Len(RestOf(buf)) = Len(buf) - m
              /\ \A k \in 1 .. Len(buf) - m : RestOf(buf)[k] = buf[m + k]
<1> DEFINE T == {0} \cup Newlines(buf)
           m == Max(T)
<1>1. Len(buf) \in Nat /\ DOMAIN buf = 1 .. Len(buf)
  BY LenProperties
<1>2. T \in SUBSET (0 .. Len(buf)) /\ T # {}
  BY <1>1 DEF Newlines
<1>3. m \in T /\ \A k \in T : m >= k
  BY <1>1, <1>2, MaxFacts
<1>4. /\ m \in 0 .. Len(buf)
      /\ m # 0 => Ends(buf[m])
      /\ \A k \in 1 .. Len(buf) : Ends(buf[k]) => k <= m
  BY <1>1, <1>2, <1>3 DEF Newlines
<1>5. RestOf(buf) = SubSeq(buf, m + 1, Len(buf))
  BY DEF RestOf
<1> HIDE DEF m
<1>6. \A k \in m + 1 .. Len(buf) : buf[k] \in Pieces
  BY <1>1, <1>4, ElementOfSeq
<1>7. m + 1 \in Int /\ Len(buf) \in Int
  BY <1>1, <1>4
<1>8. /\ RestOf(buf) \in Seq(Pieces)
      /\ Len(RestOf(buf)) = IF m + 1 <= Len(buf) THEN Len(buf) - (m + 1) + 1 ELSE 0
      /\ \A k \in 1 .. Len(buf) - (m + 1) + 1 : RestOf(buf)[k] = buf[m + 1 + k - 1]
  BY <1>5, <1>6, <1>7, SubSeqProperties
<1>9. Len(RestOf(buf)) = Len(buf) - m
  <2>1. m \in 0 .. Len(buf) /\ Len(buf) \in Nat
    BY <1>1, <1>4
  <2>2. Len(RestOf(buf)) = IF m + 1 <= Len(buf) THEN Len(buf) - (m + 1) + 1 ELSE 0
    BY <1>8
  <2>. QED
    BY <2>1, <2>2
<1>10. ASSUME NEW k \in 1 .. Len(buf) - m
       PROVE  RestOf(buf)[k] = buf[m + k]
  <2>1. k \in 1 .. Len(buf) - (m + 1) + 1 /\ m + 1 + k - 1 = m + k
    BY <1>1, <1>4
  <2>. QED
    BY <1>8, <2>1
<1>. QED
  BY <1>4, <1>8, <1>9, <1>10 DEF m

(* In a buffer that begins where a line does and of which nothing was      *)
(* lost, the line about an output begins one piece before its last one,    *)
LEMMA NewsBegin ==
    ASSUME NEW buf \in Seq(Pieces), InStep(buf), NEW o, NEW k \in News(buf, o)
    PROVE  /\ k \in 2 .. Len(buf) /\ Begin(buf, k) = k - 1
           /\ buf[k] = <<buf[k][1], 2>> /\ buf[k - 1] = <<buf[k][1], 1>>
           /\ buf[k][1].event = "workspace" /\ buf[k][1].output = o
           /\ Length(buf[k][1]) = 2
<1>1. /\ Len(buf) \in Nat /\ DOMAIN buf = 1 .. Len(buf)
      /\ \A j \in 1 .. Len(buf) : buf[j] \in Pieces
  BY LenProperties, ElementOfSeq
<1>2. /\ k \in 1 .. Len(buf) /\ Ends(buf[k])
      /\ buf[k][1].event = "workspace" /\ buf[k][1].output = o
  BY <1>1 DEF News
<1>3. Length(buf[k][1]) = 2 /\ buf[k][2] = 2 /\ buf[k] = <<buf[k][1], 2>>
  BY <1>1, <1>2, PieceFacts DEF Ends
<1>4. k # 1 /\ k - 1 \in 1 .. Len(buf)
  BY <1>1, <1>2, <1>3 DEF InStep
<1>5. Follows(buf[k - 1], buf[k])
  BY <1>2, <1>4 DEF InStep
<1>6. ~Ends(buf[k - 1]) /\ buf[k] = <<buf[k - 1][1], buf[k - 1][2] + 1>>
  BY <1>3, <1>5 DEF Follows
<1>7. /\ buf[k - 1] = <<buf[k - 1][1], buf[k - 1][2]>>
      /\ buf[k - 1][2] \in Nat
  BY <1>1, <1>4, PieceFacts
<1>8. buf[k - 1][1] = buf[k][1] /\ buf[k - 1][2] + 1 = 2
  BY <1>3, <1>6
<1>9. buf[k - 1] = <<buf[k][1], 1>>
  BY <1>7, <1>8
<1>10. k - 1 = 1 \/ (k - 2 \in 1 .. Len(buf) /\ Ends(buf[k - 2]))
  <2>. SUFFICES ASSUME k - 1 # 1
       PROVE  k - 2 \in 1 .. Len(buf) /\ Ends(buf[k - 2])
    OBVIOUS
  <2>1. k - 2 \in 1 .. Len(buf) /\ (k - 1) - 1 = k - 2
    BY <1>2, <1>4
  <2>2. Follows(buf[k - 2], buf[k - 1])
    BY <1>4, <2>1 DEF InStep
  <2>3. buf[k - 2][2] \in Nat \ {0}
    BY <1>1, <2>1, PieceFacts
  <2>4. CASE ~Ends(buf[k - 2])
    <3>1. <<buf[k][1], 1>> = <<buf[k - 2][1], buf[k - 2][2] + 1>>
      BY <1>9, <2>2, <2>4 DEF Follows
    <3>. QED
      BY <2>3, <3>1
  <2>. QED
    BY <2>1, <2>4
<1> DEFINE T == {0} \cup {j \in Newlines(buf) : j < k}
<1>11. T \in SUBSET (0 .. Len(buf)) /\ T # {} /\ Begin(buf, k) = Max(T) + 1
  BY <1>1 DEF Newlines, Begin
<1>12. k - 2 \in T /\ \A j \in T : j <= k - 2
  <2>1. k - 2 \in T
    BY <1>1, <1>2, <1>10 DEF Newlines
  <2>2. ASSUME NEW j \in T
        PROVE  j <= k - 2
    <3>1. j \in 0 .. Len(buf) /\ j < k /\ (j = 0 \/ Ends(buf[j]))
      BY <1>1, <1>2, <1>11 DEF Newlines
    <3>2. j # k - 1
      BY <1>4, <1>6, <3>1
    <3>. QED
      BY <1>2, <1>4, <3>1, <3>2
  <2>. QED
    BY <2>1, <2>2
<1> HIDE DEF T
<1>13. Max(T) \in T /\ \A j \in T : Max(T) >= j
  BY <1>1, <1>11, MaxFacts
<1>14. Max(T) = k - 2
  <2>1. Max(T) \in Int /\ k \in Int
    <3>1. Max(T) \in 0 .. Len(buf)
      BY <1>11, <1>13
    <3>. QED
      BY <1>1, <1>2, <3>1
  <2>2. Max(T) <= k - 2 /\ Max(T) >= k - 2
    BY <1>12, <1>13
  <2>. QED
    BY <2>1, <2>2
<1>15. Begin(buf, k) = k - 1 /\ k \in 2 .. Len(buf)
  BY <1>2, <1>4, <1>11, <1>14
<1>. QED
  BY <1>2, <1>3, <1>9, <1>15

(* and every line that begins like one about an output is whole. *)
LEMMA AboutIsNews ==
    ASSUME NEW buf \in Seq(Pieces), InStep(buf), NEW o
    PROVE  About(buf, o) = News(buf, o)
<1>1. /\ Len(buf) \in Nat /\ DOMAIN buf = 1 .. Len(buf)
      /\ \A j \in 1 .. Len(buf) : buf[j] \in Pieces
  BY LenProperties, ElementOfSeq
<1>2. ASSUME NEW k \in News(buf, o)
      PROVE  k \in About(buf, o)
  <2>1. /\ Begin(buf, k) = k - 1 /\ buf[k - 1] = <<buf[k][1], 1>>
        /\ buf[k][1].event = "workspace" /\ buf[k][1].output = o
    BY NewsBegin
  <2>2. k \in Newlines(buf)
    BY DEF News, Newlines
  <2>. QED
    BY <2>1, <2>2 DEF About
<1>3. ASSUME NEW k \in About(buf, o)
      PROVE  k \in News(buf, o)
  <2> DEFINE T == {0} \cup {j \in Newlines(buf) : j < k}
             b == Begin(buf, k)
             e == buf[b][1]
  <2>1. /\ k \in 1 .. Len(buf) /\ Ends(buf[k])
        /\ buf[b][2] = 1 /\ e.event = "workspace" /\ e.output = o
    BY <1>1 DEF About, Newlines
  <2>2. T \in SUBSET (0 .. Len(buf)) /\ T # {} /\ b = Max(T) + 1
    BY <1>1 DEF Newlines, Begin
  <2>3. \A j \in T : j < k
    BY <2>1
  <2>4. \A j \in 1 .. Len(buf) : j < k /\ Ends(buf[j]) => j \in T
    BY <1>1 DEF Newlines
  <2> HIDE DEF T
  <2>5. Max(T) \in T /\ \A j \in T : Max(T) >= j
    BY <1>1, <2>2, MaxFacts
  <2> HIDE DEF b
  <2>6. b \in 1 .. Len(buf) /\ b <= k
    <3>1. Max(T) \in 0 .. Len(buf) /\ Max(T) < k
      BY <2>2, <2>3, <2>5
    <3>. QED
      BY <1>1, <2>1, <2>2, <3>1
  <2>7. Length(e) = 2 /\ buf[b] = <<e, 1>> /\ ~Ends(buf[b])
    BY <1>1, <2>1, <2>6, PieceFacts DEF Ends
  <2>8. b + 1 <= k /\ b + 1 \in 1 .. Len(buf) /\ b + 1 # 1 /\ (b + 1) - 1 = b
    <3>1. b # k
      BY <2>1, <2>7
    <3>. QED
      BY <1>1, <2>1, <2>6, <3>1
  <2>9. Follows(buf[b], buf[b + 1])
    BY <2>8 DEF InStep
  <2>10. buf[b + 1] = <<e, 2>>
    BY <2>7, <2>9 DEF Follows
  <2>11. Ends(buf[b + 1])
    BY <2>7, <2>10 DEF Ends
  <2>12. k = b + 1
    <3>1. ~(b + 1 < k)
      <4>. SUFFICES ASSUME b + 1 < k PROVE FALSE
        OBVIOUS
      <4>1. b + 1 \in T
        BY <2>4, <2>8, <2>11
      <4>2. Max(T) >= b + 1 /\ Max(T) \in 0 .. Len(buf)
        BY <2>2, <2>5, <4>1
      <4>. QED
        BY <1>1, <2>2, <4>2
    <3>. QED
      BY <1>1, <2>1, <2>6, <2>8, <3>1
  <2>13. buf[k][1] = e
    BY <2>10, <2>12
  <2>. QED
    BY <1>1, <2>1, <2>13 DEF News
<1>. QED
  BY <1>2, <1>3

LEMMA ShowsWhatReads ==
    ASSUME NEW buf \in Seq(Pieces), InStep(buf), NEW o
    PROVE  Shows(buf, o) = {Reads(buf, shownActive[o], o)}
<1> DEFINE N == News(buf, o)
           last == Max({0} \cup {k \in About(buf, o) : IsWhole(buf, k)})
<1>1. /\ Len(buf) \in Nat /\ N \in SUBSET (0 .. Len(buf)) /\ 0 \notin N
      /\ N # {} => Max(N) \in N /\ \A k \in N : Max(N) >= k
  BY NewsFacts
<1>2. About(buf, o) = N
  BY AboutIsNews
<1>3. ASSUME NEW k \in N
      PROVE  IsWhole(buf, k) /\ Indices(buf, k) = {buf[k][1].index}
  <2> DEFINE e == buf[k][1]
  <2>1. /\ k \in 2 .. Len(buf) /\ Begin(buf, k) = k - 1
        /\ buf[k] = <<e, 2>> /\ buf[k - 1] = <<e, 1>>
        /\ e.event = "workspace" /\ Length(e) = 2
    BY NewsBegin
  <2> HIDE DEF e
  <2>2. SubSeq(buf, k - 1, k) = Line(e)
    BY SMTT(60), <2>1 DEF Line
  <2>3. IsWhole(buf, k)
    BY <2>1, <2>2 DEF IsWhole, e
  <2>4. Indices(buf, k) = {e.index}
    BY <2>1 DEF Indices
  <2>. QED
    BY <2>3, <2>4 DEF e
<1>4. {k \in About(buf, o) : IsWhole(buf, k)} = N
  BY <1>2, <1>3
<1>5. last = Max({0} \cup N)
  BY <1>4
<1>6. Shows(buf, o) = (IF last = 0 THEN {shownActive[o]} ELSE {})
                        \cup UNION {Indices(buf, k) : k \in {j \in N : j >= last}}
  BY <1>2 DEF Shows
<1> HIDE DEF last, N
<1>7. last \in {0} \cup N /\ \A k \in {0} \cup N : last >= k
  <2>1. {0} \cup N \in SUBSET (0 .. Len(buf)) /\ {0} \cup N # {}
    BY <1>1
  <2>. QED
    BY <1>1, <1>5, <2>1, MaxFacts
<1>8. CASE N = {}
  <2>1. last = 0
    BY <1>7, <1>8
  <2>2. UNION {Indices(buf, k) : k \in {j \in N : j >= last}} = {}
    BY <1>8
  <2>. QED
    BY <1>6, <1>8, <2>1, <2>2 DEF Reads, N
<1>9. CASE N # {}
  <2>1. last \in N /\ last # 0 /\ last = Max(N)
    <3>1. Max(N) \in N /\ Max(N) \in 1 .. Len(buf)
      <4>1. Max(N) \in N /\ N \subseteq 0 .. Len(buf) /\ 0 \notin N
        BY <1>1, <1>9
      <4>2. Max(N) \in 0 .. Len(buf) /\ Max(N) # 0
        BY <4>1
      <4>. QED
        BY <1>1, <4>1, <4>2
    <3>2. last >= Max(N) /\ last \in 0 .. Len(buf)
      BY <1>1, <1>7, <3>1
    <3>3. last # 0
      BY <1>1, <3>1, <3>2
    <3>4. last \in N /\ Max(N) >= last
      BY <1>1, <1>7, <1>9, <3>3
    <3>. QED
      BY <1>1, <3>1, <3>2, <3>3, <3>4
  <2>2. {j \in N : j >= last} = {last}
    <3>1. ASSUME NEW j \in N, j >= last
          PROVE  j = last
      <4>1. last >= j /\ last \in 0 .. Len(buf) /\ j \in 0 .. Len(buf)
        BY <1>1, <1>7, <2>1
      <4>. QED
        BY <1>1, <3>1, <4>1
    <3>2. last >= last
      BY <1>1, <2>1
    <3>. QED
      BY <2>1, <3>1, <3>2
  <2>3. UNION {Indices(buf, k) : k \in {j \in N : j >= last}} = {buf[last][1].index}
    BY <1>3, <2>1, <2>2
  <2>4. Reads(buf, shownActive[o], o) = buf[last][1].index
    BY <1>9, <2>1 DEF Reads, N
  <2>. QED
    BY <1>6, <2>1, <2>3, <2>4
<1>. QED
  BY <1>8, <1>9
-----------------------------------------------------------------------------
(* A stream without the lines it began with *)
LEMMA CutWhole ==
    ASSUME NEW s \in Seq(Pieces), Whole(s), NEW m \in 0 .. Len(s), m # 0 => Ends(s[m]),
           NEW t \in Seq(Pieces), Len(t) = Len(s) - m,
           \A k \in 1 .. Len(t) : t[k] = s[m + k]
    PROVE  Whole(t)
<1>1. Len(s) \in Nat /\ Len(t) \in Nat /\ (t # << >> => Len(t) # 0)
  BY LenProperties, EmptySeq
<1>2. ASSUME NEW k \in 1 .. Len(t)
      PROVE  IF k = 1 THEN t[1][2] = 1 ELSE Follows(t[k - 1], t[k])
  <2>1. m + k \in 1 .. Len(s)
    BY <1>1
  <2>2. IF m + k = 1 THEN s[1][2] = 1 ELSE Follows(s[m + k - 1], s[m + k])
    BY <2>1 DEF Whole, InStep
  <2>3. CASE k = 1
    <3>1. t[1] = s[m + 1]
      BY <2>3
    <3>2. CASE m = 0
      BY <2>2, <2>3, <3>1, <3>2
    <3>3. CASE m # 0
      <4>1. m + 1 # 1 /\ m + 1 - 1 = m
        BY <1>1, <3>3
      <4>2. Follows(s[m], s[m + 1])
        BY <2>2, <2>3, <4>1
      <4>. QED
        BY <2>3, <3>1, <3>3, <4>2 DEF Follows
    <3>. QED
      BY <3>2, <3>3
  <2>4. CASE k # 1
    <3>1. k - 1 \in 1 .. Len(t) /\ m + (k - 1) = m + k - 1 /\ m + k # 1
      BY <1>1, <2>4
    <3>2. t[k - 1] = s[m + k - 1] /\ t[k] = s[m + k]
      BY <3>1
    <3>. QED
      BY <2>2, <2>4, <3>1, <3>2
  <2>. QED
    BY <2>3, <2>4
<1>3. ASSUME t # << >>
      PROVE  Ends(t[Len(t)])
  <2>1. Len(t) \in 1 .. Len(t) /\ m + Len(t) = Len(s) /\ Len(s) # 0
    BY <1>1, <1>3
  <2>2. t[Len(t)] = s[Len(s)]
    BY <2>1
  <2>3. s # << >>
    BY <2>1, EmptySeq
  <2>. QED
    BY <2>2, <2>3 DEF Whole
<1>. QED
  BY <1>2, <1>3 DEF Whole, InStep

(* Reading the first pieces, h, behind what is left of a line, and then    *)
(* the others, t, is reading them all.                                     *)
Unended(a) == \A k \in 1 .. Len(a) : ~Ends(a[k])

Divided(l, h, t) ==
    /\ Len(h) <= Len(l) /\ \A k \in 1 .. Len(h) : h[k] = l[k]
    /\ Len(t) = Len(l) - Len(h) /\ \A k \in 1 .. Len(t) : t[k] = l[Len(h) + k]

LEMMA ReadsInTwo ==
    ASSUME NEW a \in Seq(Pieces), Unended(a),
           NEW l \in Seq(Pieces), NEW h \in Seq(Pieces), NEW t \in Seq(Pieces),
           Divided(l, h, t), NEW w, NEW o
    PROVE  Reads(t, Reads(a \o h, w, o), o) = Reads(l, w, o)
<1> DEFINE n == Len(h)
           b == a \o h
<1>1. /\ Len(a) \in Nat /\ Len(l) \in Nat /\ n \in Nat /\ Len(t) \in Nat
      /\ n <= Len(l) /\ Len(t) = Len(l) - n
  BY LenProperties DEF Divided
<1>2. /\ b \in Seq(Pieces) /\ Len(b) = Len(a) + n
      /\ \A k \in 1 .. Len(b) : b[k] = IF k <= Len(a) THEN a[k] ELSE h[k - Len(a)]
  <2>1. /\ b \in Seq(Pieces) /\ Len(b) = Len(a) + Len(h)
        /\ \A k \in 1 .. Len(a) + Len(h) :
              b[k] = IF k <= Len(a) THEN a[k] ELSE h[k - Len(a)]
    BY ConcatProperties
  <2>. QED
    BY <2>1
<1> HIDE DEF b
<1>3. /\ DOMAIN l = 1 .. Len(l) /\ DOMAIN b = 1 .. Len(b) /\ DOMAIN t = 1 .. Len(t)
  BY <1>2, LenProperties
<1>4. ASSUME NEW k \in 1 .. n
      PROVE  /\ Len(a) + k \in 1 .. Len(b) /\ b[Len(a) + k] = l[k]
             /\ Len(a) + k \in News(b, o) <=> k \in News(l, o)
  <2>1. Len(a) + k \in 1 .. Len(b) /\ ~(Len(a) + k <= Len(a)) /\ (Len(a) + k) - Len(a) = k
    BY <1>1, <1>2
  <2>2. b[Len(a) + k] = l[k]
    BY <1>2, <2>1 DEF Divided
  <2>3. k \in 1 .. Len(l)
    BY <1>1
  <2>. QED
    BY <1>3, <2>1, <2>2, <2>3 DEF News
<1>5. ASSUME NEW j \in News(b, o)
      PROVE  j - Len(a) \in 1 .. n /\ j = Len(a) + (j - Len(a))
  <2>1. j \in 1 .. Len(b) /\ Ends(b[j])
    BY <1>3 DEF News
  <2>2. ~(j <= Len(a))
    <3>. SUFFICES ASSUME j <= Len(a) PROVE FALSE
      OBVIOUS
    <3>1. j \in 1 .. Len(a) /\ b[j] = a[j]
      BY <1>1, <1>2, <2>1
    <3>. QED
      BY <2>1, <3>1 DEF Unended
  <2>. QED
    BY <1>1, <1>2, <2>1, <2>2
<1>6. ASSUME NEW k \in 1 .. Len(t)
      PROVE  /\ n + k \in 1 .. Len(l) /\ t[k] = l[n + k]
             /\ k \in News(t, o) <=> n + k \in News(l, o)
  <2>1. n + k \in 1 .. Len(l) /\ t[k] = l[n + k]
    BY <1>1 DEF Divided
  <2>. QED
    BY <1>3, <2>1 DEF News
<1>7. \A k \in News(l, o) : k \in 1 .. Len(l)
  BY <1>3 DEF News
<1>8. CASE News(t, o) # {}
  <2>1. PICK m \in News(t, o) : \A k \in News(t, o) : k <= m
    BY <1>8, NewsFacts
  <2>2. m \in 1 .. Len(t)
    BY <1>3 DEF News
  <2>3. n + m \in News(l, o) /\ t[m] = l[n + m] /\ n + m \in 1 .. Len(l)
    BY <1>6, <2>2
  <2>4. ASSUME NEW k \in News(l, o)
        PROVE  k <= n + m
    <3>1. k \in 1 .. Len(l)
      BY <1>7
    <3>2. CASE k <= n
      BY <1>1, <2>2, <3>1, <3>2
    <3>3. CASE ~(k <= n)
      <4>1. k - n \in 1 .. Len(t) /\ n + (k - n) = k
        BY <1>1, <3>1, <3>3
      <4>2. k - n \in News(t, o)
        BY <1>6, <4>1
      <4>3. k - n <= m
        BY <2>1, <4>2
      <4>. QED
        BY <1>1, <2>2, <3>1, <4>3
    <3>. QED
      BY <3>2, <3>3
  <2>. QED
    BY <2>1, <2>3, <2>4, ReadsLast
<1>9. CASE News(t, o) = {} /\ News(b, o) # {}
  <2>1. PICK m \in News(b, o) : \A k \in News(b, o) : k <= m
    BY <1>2, <1>9, NewsFacts
  <2> DEFINE j == m - Len(a)
  <2>2. j \in 1 .. n /\ m = Len(a) + j
    BY <1>5
  <2> HIDE DEF j
  <2>3. j \in News(l, o) /\ b[m] = l[j]
    BY <1>4, <2>2
  <2>4. ASSUME NEW k \in News(l, o)
        PROVE  k <= j
    <3>1. k \in 1 .. Len(l)
      BY <1>7
    <3>2. k <= n
      <4>. SUFFICES ASSUME ~(k <= n) PROVE FALSE
        OBVIOUS
      <4>1. k - n \in 1 .. Len(t) /\ n + (k - n) = k
        BY <1>1, <3>1
      <4>. QED
        BY <1>6, <1>9, <4>1
    <3>3. k \in 1 .. n
      BY <1>1, <3>1, <3>2
    <3>4. Len(a) + k \in News(b, o)
      BY <1>4, <3>3
    <3>5. Len(a) + k <= m
      BY <2>1, <3>4
    <3>. QED
      BY <1>1, <2>2, <3>3, <3>5
  <2>5. Reads(b, w, o) = b[m][1].index
    <3>1. b \in Seq(Pieces) /\ \A k \in News(b, o) : k <= m
      BY <1>2, <2>1
    <3>. QED
      BY ONLY <3>1, ReadsLast, m \in News(b, o)
  <2>6. Reads(l, w, o) = l[j][1].index
    <3>1. j \in News(l, o) /\ \A k \in News(l, o) : k <= j
      BY <2>3, <2>4
    <3>. QED
      BY ONLY <3>1, ReadsLast, l \in Seq(Pieces)
  <2>7. Reads(t, Reads(b, w, o), o) = Reads(b, w, o)
    BY <1>9 DEF Reads
  <2>. QED
    BY <2>3, <2>5, <2>6, <2>7 DEF b
<1>10. CASE News(t, o) = {} /\ News(b, o) = {}
  <2>1. News(l, o) = {}
    <3>. SUFFICES ASSUME NEW k \in News(l, o) PROVE FALSE
      OBVIOUS
    <3>1. k \in 1 .. Len(l)
      BY <1>7
    <3>2. CASE k <= n
      <4>1. k \in 1 .. n
        BY <1>1, <3>1, <3>2
      <4>. QED
        BY <1>4, <1>10, <4>1
    <3>3. CASE ~(k <= n)
      <4>1. k - n \in 1 .. Len(t) /\ n + (k - n) = k
        BY <1>1, <3>1, <3>3
      <4>. QED
        BY <1>6, <1>10, <4>1
    <3>. QED
      BY <3>2, <3>3
  <2>. QED
    BY <1>10, <2>1 DEF Reads, b
<1>. QED
  BY <1>8, <1>9, <1>10
-----------------------------------------------------------------------------
(* Writing an event: it is on the stream, or dropped and counted. *)
LEMMA FitFacts ==
    ASSUME NEW l \in Seq(Pieces), Len(l) <= MaxLink, NEW e \in Events
    PROVE  /\ Fit(l, e) \in Seq(Pieces) /\ Len(Fit(l, e)) <= MaxLink
           /\ Fits(l, e) => Fit(l, e) = l \o Line(e)
<1>1. Line(e) \in Seq(Pieces) /\ Len(Line(e)) = Length(e)
  BY LineFacts
<1>2. l \o Line(e) \in Seq(Pieces) /\ Len(l \o Line(e)) = Len(l) + Length(e)
  BY <1>1, ConcatProperties
<1>. QED
  BY <1>2 DEF Fit, Fits

LEMMA SendFacts ==
    ASSUME BarTypeOK, NEW e \in Events, Send(e)
    PROVE  /\ link' \in Seq(Pieces) /\ Len(link') <= MaxLink /\ losses' \in Nat
           /\ connected /\ losses' = 0 => losses = 0 /\ link' = link \o Line(e)
<1>1. link \in Seq(Pieces) /\ Len(link) <= MaxLink /\ losses \in Nat
  BY DEF BarTypeOK
<1>2. CASE connected
  <2>1. /\ link' = Fit(link, e)
        /\ losses' = losses + IF Fits(link, e) THEN 0 ELSE 1
    BY <1>2 DEF Send
  <2>2. CASE Fits(link, e)
    BY <1>1, <2>1, <2>2, FitFacts
  <2>3. CASE ~Fits(link, e)
    <3>1. losses' = losses + 1
      BY <2>1, <2>3
    <3>2. losses' \in Nat /\ losses' # 0
      BY <1>1, <3>1
    <3>. QED
      BY <1>1, <2>1, <3>2, FitFacts
  <2>. QED
    BY <2>2, <2>3
<1>3. CASE ~connected
  BY <1>1, <1>3 DEF Send
<1>. QED
  BY <1>2, <1>3

LEMMA SendBothFacts ==
    ASSUME BarTypeOK, NEW e \in Events, NEW f \in Events, SendBoth(e, f)
    PROVE  /\ link' \in Seq(Pieces) /\ Len(link') <= MaxLink /\ losses' \in Nat
           /\ connected /\ losses' = 0 =>
                 losses = 0 /\ link' = (link \o Line(e)) \o Line(f)
<1>1. link \in Seq(Pieces) /\ Len(link) <= MaxLink /\ losses \in Nat
  BY DEF BarTypeOK
<1> DEFINE l == Fit(link, e)
           both == Fits(link, e) /\ Fits(l, f)
<1>2. l \in Seq(Pieces) /\ Len(l) <= MaxLink /\ (Fits(link, e) => l = link \o Line(e))
  BY <1>1, FitFacts
<1> HIDE DEF l
<1>3. CASE connected
  <2>1. link' = Fit(l, f) /\ losses' = losses + IF both THEN 0 ELSE 1
    BY <1>3 DEF SendBoth, l
  <2>2. /\ Fit(l, f) \in Seq(Pieces) /\ Len(Fit(l, f)) <= MaxLink
        /\ Fits(l, f) => Fit(l, f) = l \o Line(f)
    BY <1>2, FitFacts
  <2>3. CASE both
    <3>1. losses' = losses
      BY <1>1, <2>1, <2>3
    <3>2. link' = (link \o Line(e)) \o Line(f)
      BY <1>2, <2>1, <2>2, <2>3
    <3>. QED
      BY <1>1, <2>1, <2>2, <3>1, <3>2
  <2>4. CASE ~both
    <3>1. losses' = losses + 1
      BY <2>1, <2>4
    <3>2. losses' \in Nat /\ losses' # 0
      BY <1>1, <3>1
    <3>. QED
      BY <2>1, <2>2, <3>2
  <2>. QED
    BY <2>3, <2>4
<1>4. CASE ~connected
  BY <1>1, <1>4 DEF SendBoth
<1>. QED
  BY <1>3, <1>4

LEMMA StreamFacts ==
    ASSUME BarTypeOK
    PROVE  /\ ibuf \in Seq(Pieces) /\ link \in Seq(Pieces) /\ Stream \in Seq(Pieces)
           /\ \A o : ActiveRead(o) = Reads(link, shownActive[o], o)
           /\ \A e \in Events : ibuf \o (link \o Line(e)) = Stream \o Line(e)
<1>1. ibuf \in Seq(Pieces) /\ link \in Seq(Pieces)
  BY DEF BarTypeOK
<1>2. Stream \in Seq(Pieces)
  BY <1>1, ConcatProperties DEF Stream
<1>3. \A e \in Events : ibuf \o (link \o Line(e)) = Stream \o Line(e)
  BY <1>1, LineFacts, ConcatAssociative DEF Stream
<1>. QED
  BY <1>1, <1>2, <1>3 DEF ActiveRead, Reads

(* One event, and two, about what the outputs show now, keep the bars right. *)
LEMMA OneTold ==
    ASSUME BarInv, NEW e \in Events, connected' = connected, ibuf' = ibuf,
           connected /\ losses' = 0 => losses = 0 /\ link' = link \o Line(e),
           barred' \subseteq barred, shownActive' = shownActive, BarTypeOK',
           \A o \in barred' : active'[o] =
              IF e.event = "workspace" /\ e.output = o THEN e.index ELSE active[o]
    PROVE  BarInv'
<1>. SUFFICES ASSUME connected', losses' = 0
     PROVE  Whole(Stream)' /\ ActiveFollowed'
  BY DEF BarInv
<1>1. BarTypeOK /\ Whole(Stream) /\ ActiveFollowed /\ connected
      /\ losses = 0 /\ link' = link \o Line(e)
  BY DEF BarInv
<1>2. Stream' = Stream \o Line(e)
  BY <1>1, StreamFacts DEF Stream
<1>3. Whole(Stream')
  BY <1>1, <1>2, StreamFacts, JoinWhole
<1>4. ASSUME NEW o \in barred'
      PROVE  ActiveRead(o)' = active'[o]
  <2>1. ActiveRead(o)' = Reads(link \o Line(e), shownActive[o], o)
    BY <1>1 DEF ActiveRead, Reads
  <2>2. Reads(link \o Line(e), shownActive[o], o) =
           IF e.event = "workspace" /\ e.output = o THEN e.index ELSE ActiveRead(o)
    BY <1>1, StreamFacts, JoinReads
  <2>3. ActiveRead(o) = active[o]
    BY <1>1 DEF ActiveFollowed
  <2>. QED
    BY <2>1, <2>2, <2>3
<1>. QED
  BY <1>3, <1>4 DEF ActiveFollowed, Whole, InStep

LEMMA BothTold ==
    ASSUME BarInv, NEW e \in Events, NEW f \in Events,
           connected' = connected, ibuf' = ibuf,
           connected /\ losses' = 0 =>
              losses = 0 /\ link' = (link \o Line(e)) \o Line(f),
           barred' \subseteq barred, shownActive' = shownActive, BarTypeOK',
           \A o \in barred' : active'[o] =
              IF f.event = "workspace" /\ f.output = o THEN f.index
              ELSE IF e.event = "workspace" /\ e.output = o THEN e.index ELSE active[o]
    PROVE  BarInv'
<1>. SUFFICES ASSUME connected', losses' = 0
     PROVE  Whole(Stream)' /\ ActiveFollowed'
  BY DEF BarInv
<1>1. BarTypeOK /\ Whole(Stream) /\ ActiveFollowed /\ connected
      /\ losses = 0 /\ link' = (link \o Line(e)) \o Line(f)
  BY DEF BarInv
<1> DEFINE l == link \o Line(e)
<1>2. /\ link \in Seq(Pieces) /\ ibuf \in Seq(Pieces) /\ Stream \in Seq(Pieces)
      /\ Line(f) \in Seq(Pieces) /\ ibuf \o l = Stream \o Line(e)
  BY <1>1, StreamFacts, LineFacts
<1>3. l \in Seq(Pieces) /\ Stream \o Line(e) \in Seq(Pieces)
  BY <1>2, LineFacts, ConcatProperties
<1>4. Stream' = (Stream \o Line(e)) \o Line(f)
  <2> HIDE DEF l
  <2>1. Stream' = ibuf \o (l \o Line(f))
    BY <1>1 DEF Stream, l
  <2>2. ibuf \o (l \o Line(f)) = (ibuf \o l) \o Line(f)
    <3>1. ibuf \in Seq(Pieces) /\ l \in Seq(Pieces) /\ Line(f) \in Seq(Pieces)
      BY <1>2, <1>3
    <3>. QED
      BY ONLY <3>1, ConcatAssociative
  <2>. QED
    BY <1>2, <2>1, <2>2
<1>5. Whole(Stream \o Line(e))
  BY <1>1, <1>2, JoinWhole
<1>6. Whole(Stream')
  BY <1>3, <1>4, <1>5, JoinWhole
<1>7. ASSUME NEW o \in barred'
      PROVE  ActiveRead(o)' = active'[o]
  <2>1. ActiveRead(o)' = Reads(l \o Line(f), shownActive[o], o)
    BY <1>1 DEF ActiveRead, Reads
  <2>2. Reads(l \o Line(f), shownActive[o], o) =
           IF f.event = "workspace" /\ f.output = o THEN f.index
           ELSE Reads(l, shownActive[o], o)
    <3> HIDE DEF l
    <3>. QED
      BY <1>3, JoinReads
  <2>3. Reads(l, shownActive[o], o) =
           IF e.event = "workspace" /\ e.output = o THEN e.index ELSE ActiveRead(o)
    BY <1>1, StreamFacts, JoinReads
  <2>4. ActiveRead(o) = active[o]
    BY <1>1 DEF ActiveFollowed
  <2>. QED
    BY <2>1, <2>2, <2>3, <2>4
<1>. QED
  BY <1>6, <1>7 DEF ActiveFollowed, Whole, InStep
-----------------------------------------------------------------------------
(* The steps of kumde *)
LEMMA ScreenTypes ==
    ASSUME WorkspacesInv
    PROVE  /\ Connected \subseteq Outputs /\ active \in [Outputs -> Index]
           /\ 0 \in Index
           /\ \A o, p \in Connected : active[o] = active[p] => o = p
BY ConnectedSubset, WorkspacesAssumption
   DEF WorkspacesInv, WorkspacesTypeOK, ActiveDistinct, Index

LEMMA BarInitInv == BarInit => BarInv
<1> SUFFICES ASSUME BarInit PROVE BarInv
  OBVIOUS
<1>1. WorkspacesInv
  BY InitInv DEF BarInit
<1>2. << >> \in Seq(Pieces) /\ Len(<< >>) = 0 /\ DOMAIN << >> = {}
  BY EmptySeq, LenProperties
<1>3. [o \in Outputs |-> 0] \in [Outputs -> Index]
  BY <1>1, ScreenTypes
<1>4. 0 <= MaxLink /\ 0 <= MaxRead
  BY BarAssumption
<1>. QED
  BY <1>2, <1>3, <1>4 DEF BarInit, BarInv, BarTypeOK

(* What is told does not end a line of the buffer nor plug an output. *)
LEMMA ToldTypes ==
    ASSUME BarTypeOK, link' \in Seq(Pieces), Len(link') <= MaxLink, losses' \in Nat,
           connected' = connected, ibuf' = ibuf, shownActive' = shownActive,
           barred' \subseteq Connected'
    PROVE  BarTypeOK'
BY DEF BarTypeOK

(* kum_workspace_switch() *)
LEMMA SwitchedInv ==
    ASSUME WorkspacesInv, BarInv, NEW o \in Outputs, NEW i \in Index, Switched(o, i)
    PROVE  BarInv'
<1>1. /\ SwitchOutput(o, i)
      /\ connected' = connected /\ ibuf' = ibuf
      /\ barred' = barred /\ shownActive' = shownActive
  BY DEF Switched, mirror
<1>2. /\ o \in Connected /\ Connected' = Connected /\ Connected \subseteq Outputs
      /\ active[o] # i /\ active[o] \in Index
      /\ \A p \in Connected : active'[p] = IF p = o THEN i
                                          ELSE IF active[p] = i THEN active[o]
                                          ELSE active[p]
      /\ \A p, q \in Connected : active[p] = active[q] => p = q
  BY <1>1, ScreenTypes DEF SwitchOutput, SwitchedActive, Connected
<1>3. BarTypeOK /\ barred \subseteq Connected
  BY DEF BarInv, BarTypeOK
<1> DEFINE f == WorkspaceEvent(o, i)
<1>4. f \in Events /\ f.event = "workspace" /\ f.output = o /\ f.index = i
  BY EventFacts
<1>5. CASE Swap(o, i)
  <2> DEFINE q == OutputFor(i)
             e == WorkspaceEvent(q, active[o])
  <2>1. q \in Connected /\ active[q] = i
    <3>1. OnShow(i)
      BY <1>5 DEF Swap, OnShow
    <3>. QED
      BY <3>1, ShownOutput
  <2> HIDE DEF q
  <2>2. e \in Events /\ e.event = "workspace" /\ e.output = q /\ e.index = active[o]
    BY <1>2, <2>1, EventFacts
  <2>3. SendBoth(e, f)
    BY <1>5 DEF Switched, q
  <2> HIDE DEF e, f
  <2>4. /\ link' \in Seq(Pieces) /\ Len(link') <= MaxLink /\ losses' \in Nat
        /\ connected /\ losses' = 0 =>
              losses = 0 /\ link' = (link \o Line(e)) \o Line(f)
    BY <1>3, <1>4, <2>2, <2>3, SendBothFacts
  <2>5. BarTypeOK'
    BY <1>1, <1>2, <1>3, <2>4, ToldTypes
  <2>6. \A p \in barred' : active'[p] =
           IF f.event = "workspace" /\ f.output = p THEN f.index
           ELSE IF e.event = "workspace" /\ e.output = p THEN e.index ELSE active[p]
    BY <1>1, <1>2, <1>3, <1>4, <2>1, <2>2
  <2>. QED
    BY <1>1, <1>4, <2>2, <2>4, <2>5, <2>6, BothTold
<1>6. CASE ~Swap(o, i)
  <2>1. Send(f)
    BY <1>6 DEF Switched
  <2> HIDE DEF f
  <2>2. /\ link' \in Seq(Pieces) /\ Len(link') <= MaxLink /\ losses' \in Nat
        /\ connected /\ losses' = 0 => losses = 0 /\ link' = link \o Line(f)
    BY <1>3, <1>4, <2>1, SendFacts
  <2>3. BarTypeOK'
    BY <1>1, <1>2, <1>3, <2>2, ToldTypes
  <2>4. \A p \in Connected \ {o} : active[p] # i
    BY <1>6 DEF Swap
  <2>5. \A p \in barred' : active'[p] =
           IF f.event = "workspace" /\ f.output = p THEN f.index ELSE active[p]
    BY <1>1, <1>2, <1>3, <1>4, <2>4
  <2>. QED
    BY <1>1, <1>4, <2>2, <2>3, <2>5, OneTold
<1>. QED
  BY <1>5, <1>6

(* A step that tells nothing and changes no output with a bar *)
LEMMA NothingTold ==
    ASSUME BarInv, connected' = connected, ibuf' = ibuf, link' = link, losses' = losses,
           barred' \subseteq barred, barred' \subseteq Connected',
           shownActive' = shownActive, \A p \in barred' : active'[p] = active[p]
    PROVE  BarInv'
<1>1. BarTypeOK'
  BY DEF BarInv, BarTypeOK
<1>2. connected' /\ losses' = 0 => Whole(Stream)' /\ ActiveFollowed'
  <2>. SUFFICES ASSUME connected', losses' = 0
       PROVE  Whole(Stream)' /\ ActiveFollowed'
    OBVIOUS
  <2>1. Whole(Stream) /\ ActiveFollowed /\ Stream' = Stream
    BY DEF BarInv, Stream
  <2>2. \A p \in barred' : ActiveRead(p)' = active'[p]
    BY <2>1 DEF ActiveFollowed, ActiveRead
  <2>. QED
    BY <2>1, <2>2 DEF ActiveFollowed, Whole, InStep
<1>. QED
  BY <1>1, <1>2 DEF BarInv

(* kum_new_output() *)
LEMMA PluggedInv ==
    ASSUME WorkspacesInv, BarInv, NEW o \in Outputs, Plugged(o)
    PROVE  BarInv'
<1>1. /\ o \notin Connected /\ outputs' = <<o>> \o outputs
      /\ active' = [active EXCEPT ![o] = NextFreeWorkspace]
      /\ connected' = connected /\ link' = link /\ ibuf' = ibuf /\ losses' = losses
      /\ barred' = barred /\ shownActive' = shownActive
  BY DEF Plugged, NewOutput, mirror
<1>2. Connected' = {o} \cup Connected
  BY <1>1, InsertFacts DEF WorkspacesInv, WorkspacesTypeOK, Connected
<1>3. barred \subseteq Connected
  BY DEF BarInv, BarTypeOK
<1>4. \A p \in barred' : active'[p] = active[p]
  BY <1>1, <1>3, ScreenTypes
<1>. QED
  BY <1>1, <1>2, <1>3, <1>4, NothingTold

(* output_destroy() with migrate_workspace() *)
LEMMA UnpluggedInv ==
    ASSUME WorkspacesInv, BarInv, NEW o \in Outputs, Unplugged(o)
    PROVE  BarInv'
<1> DEFINE rest == RemoveFirst(outputs, o)
<1>1. /\ OutputDestroyed(o)
      /\ connected' = connected /\ ibuf' = ibuf
      /\ barred' = barred \ {o} /\ shownActive' = shownActive
  BY DEF Unplugged
<1>2. /\ outputs' = rest /\ Connected' = Connected \ {o} /\ o \in Connected
      /\ outputs' # << >> => Head(outputs') \in Connected'
  BY <1>1, OutputDestroyedInv DEF OutputDestroyed
<1>3. /\ BarTypeOK /\ barred \subseteq Connected /\ Connected \subseteq Outputs
      /\ active \in [Outputs -> Index]
  BY ScreenTypes DEF BarInv, BarTypeOK
<1>4. barred' \subseteq barred /\ barred' \subseteq Connected'
  BY <1>1, <1>2, <1>3
<1>5. CASE rest = << >>
  <2>1. link' = link /\ losses' = losses
    BY <1>5 DEF Unplugged
  <2>2. Connected' = {}
    BY <1>2, <1>5, EmptySeq, LenProperties DEF Connected, ToSet
  <2>. QED
    BY <1>1, <1>4, <2>1, <2>2, NothingTold
<1>6. CASE rest # << >>
  <2> DEFINE heir == Head(rest)
             e == WorkspaceEvent(heir, active[o])
  <2>1. heir \in Connected /\ heir # o
    BY <1>2, <1>6
  <2>2. active' = [active EXCEPT ![o] = 0, ![heir] = active[o]]
    BY <1>1, <1>6 DEF OutputDestroyed
  <2>3. Send(e)
    BY <1>6 DEF Unplugged
  <2> HIDE DEF rest, heir
  <2>4. e \in Events /\ e.event = "workspace" /\ e.output = heir /\ e.index = active[o]
    BY <1>2, <1>3, <2>1, EventFacts
  <2> HIDE DEF e
  <2>5. /\ link' \in Seq(Pieces) /\ Len(link') <= MaxLink /\ losses' \in Nat
        /\ connected /\ losses' = 0 => losses = 0 /\ link' = link \o Line(e)
    BY <1>3, <2>3, <2>4, SendFacts
  <2>6. BarTypeOK'
    BY <1>1, <1>3, <1>4, <2>5, ToldTypes
  <2>7. \A p \in barred' : active'[p] =
           IF e.event = "workspace" /\ e.output = p THEN e.index ELSE active[p]
    BY <1>1, <1>3, <2>1, <2>2, <2>4
  <2>. QED
    BY <1>1, <1>4, <2>4, <2>5, <2>6, <2>7, OneTold
<1>. QED
  BY <1>5, <1>6

(* Events about windows *)
LEMMA WindowsChangeInv ==
    ASSUME WorkspacesInv, BarInv, WindowsChange
    PROVE  BarInv'
<1>1. PICK e \in {Occupancy, Title} : Send(e)
  BY DEF WindowsChange
<1>2. e \in Events /\ e.event # "workspace"
  BY EventFacts
<1>3. /\ connected' = connected /\ ibuf' = ibuf
      /\ barred' = barred /\ shownActive' = shownActive
      /\ outputs' = outputs /\ active' = active
  BY DEF WindowsChange, mirror, screenVars
<1>4. BarTypeOK /\ barred' \subseteq Connected'
  BY <1>3 DEF BarInv, BarTypeOK, Connected
<1>5. /\ link' \in Seq(Pieces) /\ Len(link') <= MaxLink /\ losses' \in Nat
      /\ connected /\ losses' = 0 => losses = 0 /\ link' = link \o Line(e)
  BY <1>1, <1>2, <1>4, SendFacts
<1>6. BarTypeOK'
  BY <1>3, <1>4, <1>5, ToldTypes
<1>7. \A p \in barred' : active'[p] =
         IF e.event = "workspace" /\ e.output = p THEN e.index ELSE active[p]
  BY <1>2, <1>3
<1>. QED
  BY <1>2, <1>3, <1>5, <1>6, <1>7, OneTold
-----------------------------------------------------------------------------
(* The steps of kumbar *)

(* The initial state: a line about each output, then one about windows *)
LEMMA SnapshotFacts ==
    ASSUME WorkspacesInv
    PROVE  /\ Len(outputs) \in Nat /\ 2 * Len(outputs) + 2 <= MaxLink
           /\ Len(InitialState) = Len(outputs) + 1
           /\ \A j \in 1 .. Len(outputs) + 1 :
                 InitialState[j] \in Events /\ Length(InitialState[j]) = 2
           /\ \A j \in 1 .. Len(outputs) :
                 InitialState[j] = WorkspaceEvent(outputs[j], active[outputs[j]])
           /\ InitialState[Len(outputs) + 1] = Occupancy
<1> DEFINE N == Len(outputs)
           S == [k \in DOMAIN outputs |-> WorkspaceEvent(outputs[k], active[outputs[k]])]
<1>1. /\ N \in Nat /\ DOMAIN outputs = 1 .. N /\ IsInjective(outputs)
      /\ \A j \in 1 .. N : outputs[j] \in Outputs /\ active[outputs[j]] \in Index
  BY LenProperties, ElementOfSeq DEF WorkspacesInv, WorkspacesTypeOK
<1>2. N <= Cardinality(Outputs)
  <2>1. outputs \in [1 .. N -> Outputs]
    BY <1>1, LenProperties, ElementOfSeq DEF WorkspacesInv, WorkspacesTypeOK
  <2>2. IsFiniteSet(1 .. N) /\ Cardinality(1 .. N) = N
    BY <1>1, FS_Interval
  <2>. SUFFICES ASSUME ~(N <= Cardinality(Outputs)) PROVE FALSE
    OBVIOUS
  <2>3. Cardinality(Outputs) < Cardinality(1 .. N)
    BY <1>1, <2>2, OutputsAssumption, FS_CardinalityType
  <2>4. \E j, k \in 1 .. N : j # k /\ outputs[j] = outputs[k]
    BY <2>1, <2>2, <2>3, OutputsAssumption, FS_PigeonHole
  <2>. QED
    BY <1>1, <2>4 DEF IsInjective
<1>3. 2 * N + 2 <= MaxLink
  <2>1. Cardinality(Outputs) \in Nat
    BY OutputsAssumption, FS_CardinalityType
  <2>. QED
    BY <1>1, <1>2, <2>1, BarAssumption
<1>4. S \in Seq(Events) /\ Len(S) = N
  <2>1. S \in [1 .. N -> Events]
    BY <1>1, EventFacts
  <2> HIDE DEF S
  <2>. QED
    BY <1>1, <2>1, IsASeq, LenProperties
<1>5. <<Occupancy>> \in Seq(Events) /\ Len(<<Occupancy>>) = 1
  BY EventFacts
<1> HIDE DEF S
<1>6. /\ Len(InitialState) = N + 1
      /\ \A j \in 1 .. N + 1 :
            InitialState[j] = IF j <= N THEN S[j] ELSE <<Occupancy>>[j - N]
  BY <1>4, <1>5, ConcatProperties DEF InitialState, S
<1>7. ASSUME NEW j \in 1 .. N
      PROVE  InitialState[j] = WorkspaceEvent(outputs[j], active[outputs[j]])
  <2>1. j \in 1 .. N + 1 /\ j <= N
    BY <1>1
  <2>. QED
    BY <1>1, <1>6, <2>1 DEF S
<1>8. InitialState[N + 1] = Occupancy
  <2>1. N + 1 \in 1 .. N + 1 /\ ~(N + 1 <= N) /\ (N + 1) - N = 1
    BY <1>1
  <2>. QED
    BY <1>6, <2>1
<1>9. ASSUME NEW j \in 1 .. N + 1
      PROVE  InitialState[j] \in Events /\ Length(InitialState[j]) = 2
  <2>1. j \in 1 .. N \/ j = N + 1
    BY <1>1
  <2>. QED
    BY <1>1, <1>7, <1>8, <2>1, EventFacts
<1>. QED
  BY <1>1, <1>3, <1>6, <1>7, <1>8, <1>9

LEMMA Halves ==
    ASSUME NEW k \in Nat, k >= 1
    PROVE  \E j \in Nat \ {0} :
              /\ (k + 1) \div 2 = j
              /\ \/ k = 2 * j - 1 /\ 2 - (k % 2) = 1
                 \/ k = 2 * j /\ 2 - (k % 2) = 2
<1> DEFINE j == (k + 1) \div 2
<1>1. j \in Nat /\ j >= 1 /\ (k = 2 * j - 1 \/ k = 2 * j)
  OBVIOUS
<1>2. (k = 2 * j - 1 => k % 2 = 1) /\ (k = 2 * j => k % 2 = 0)
  BY <1>1
<1>. QED
  BY <1>1, <1>2

(* kumbar_ipc_connect() *)
LEMMA IpcConnectInv ==
    ASSUME WorkspacesInv, BarInv, IpcConnect
    PROVE  BarInv'
<1> DEFINE N == Len(outputs)
           S == InitialState
           L == link'
<1>1. /\ N \in Nat /\ 2 * N + 2 <= MaxLink /\ Len(S) = N + 1
      /\ \A j \in 1 .. N + 1 : S[j] \in Events /\ Length(S[j]) = 2
      /\ \A j \in 1 .. N : S[j] = WorkspaceEvent(outputs[j], active[outputs[j]])
      /\ S[N + 1] = Occupancy
  BY SnapshotFacts
<1>2. /\ ibuf' = << >> /\ losses' = losses
      /\ barred' = barred /\ shownActive' = shownActive
      /\ outputs' = outputs /\ active' = active /\ connected' = TRUE
      /\ L = [k \in 1 .. 2 * Len(S) |-> <<S[(k + 1) \div 2], 2 - (k % 2)>>]
  BY DEF IpcConnect, mirror, screenVars
<1> HIDE DEF S
<1>3. 2 * Len(S) = 2 * N + 2 /\ 2 * N + 2 \in Nat
  BY <1>1
<1>4. ASSUME NEW k \in 1 .. 2 * N + 2
      PROVE  \E j \in 1 .. N + 1 : \/ k = 2 * j - 1 /\ L[k] = <<S[j], 1>>
                                   \/ k = 2 * j /\ L[k] = <<S[j], 2>>
  <2>1. PICK j \in Nat \ {0} :
           /\ (k + 1) \div 2 = j
           /\ \/ k = 2 * j - 1 /\ 2 - (k % 2) = 1
              \/ k = 2 * j /\ 2 - (k % 2) = 2
    <3>1. k \in Nat /\ k >= 1
      BY <1>1
    <3>. QED
      BY <3>1, Halves
  <2>2. L[k] = <<S[j], 2 - (k % 2)>>
    BY <1>2, <1>3, <2>1
  <2>3. j \in 1 .. N + 1
    BY <1>1, <2>1
  <2>. QED
    BY <2>1, <2>2, <2>3
<1>5. \A k \in 1 .. 2 * N + 2 : L[k] \in Pieces
  <2>1. \A j \in 1 .. N + 1 : <<S[j], 1>> \in Pieces /\ <<S[j], 2>> \in Pieces
    BY <1>1 DEF Pieces
  <2> HIDE DEF L
  <2>. QED
    BY <1>4, <2>1
<1>6. L \in Seq(Pieces) /\ Len(L) = 2 * N + 2 /\ DOMAIN L = 1 .. Len(L)
  <2>1. L \in [1 .. 2 * N + 2 -> Pieces]
    BY <1>2, <1>3, <1>5
  <2> HIDE DEF L
  <2>. QED
    BY <1>3, <2>1, IsASeq, LenProperties
<1>7. /\ \A j \in 1 .. N + 1 : /\ 2 * j \in 1 .. Len(L) /\ 2 * j - 1 \in 1 .. Len(L)
                               /\ L[2 * j] = <<S[j], 2>> /\ L[2 * j - 1] = <<S[j], 1>>
  <2>. SUFFICES ASSUME NEW j \in 1 .. N + 1
       PROVE  /\ 2 * j \in 1 .. Len(L) /\ 2 * j - 1 \in 1 .. Len(L)
              /\ L[2 * j] = <<S[j], 2>> /\ L[2 * j - 1] = <<S[j], 1>>
    OBVIOUS
  <2> HIDE DEF L
  <2>1. 2 * j \in 1 .. Len(L) /\ 2 * j - 1 \in 1 .. Len(L)
    BY <1>1, <1>6
  <2>2. PICK i \in 1 .. N + 1 : \/ 2 * j = 2 * i - 1 /\ L[2 * j] = <<S[i], 1>>
                                \/ 2 * j = 2 * i /\ L[2 * j] = <<S[i], 2>>
    BY <1>4, <1>6, <2>1
  <2>3. PICK h \in 1 .. N + 1 : \/ 2 * j - 1 = 2 * h - 1 /\ L[2 * j - 1] = <<S[h], 1>>
                                \/ 2 * j - 1 = 2 * h /\ L[2 * j - 1] = <<S[h], 2>>
    BY <1>4, <1>6, <2>1
  <2>4. i = j /\ h = j /\ 2 * j # 2 * i - 1 /\ 2 * j - 1 # 2 * h
    BY <1>1, <2>2, <2>3
  <2>. QED
    BY <2>1, <2>2, <2>3, <2>4
<1> HIDE DEF L
<1>8. \A j \in 1 .. N + 1 : Ends(L[2 * j]) /\ ~Ends(L[2 * j - 1])
  BY <1>1, <1>7 DEF Ends
<1>9. Whole(L)
  <2>1. ASSUME NEW k \in 1 .. Len(L)
        PROVE  IF k = 1 THEN L[1][2] = 1 ELSE Follows(L[k - 1], L[k])
    <3>1. PICK j \in 1 .. N + 1 : \/ k = 2 * j - 1 /\ L[k] = <<S[j], 1>>
                                  \/ k = 2 * j /\ L[k] = <<S[j], 2>>
      BY <1>4, <1>6
    <3>2. CASE k = 1
      <4>1. L[k] = <<S[j], 1>>
        BY <1>1, <3>1, <3>2
      <4>. QED
        BY <3>2, <4>1
    <3>3. CASE k = 2 * j
      <4>1. k # 1 /\ k - 1 = 2 * j - 1
        BY <1>1, <3>3
      <4>2. L[k - 1] = <<S[j], 1>> /\ L[k] = <<S[j], 2>> /\ ~Ends(L[k - 1])
        BY <1>7, <1>8, <3>3, <4>1
      <4>. QED
        BY <4>1, <4>2 DEF Follows
    <3>4. CASE k = 2 * j - 1 /\ k # 1
      <4>1. j - 1 \in 1 .. N + 1 /\ k - 1 = 2 * (j - 1)
        BY <1>1, <3>4
      <4>2. Ends(L[k - 1]) /\ L[k] = <<S[j], 1>>
        BY <1>7, <1>8, <3>4, <4>1
      <4>. QED
        BY <3>4, <4>2 DEF Follows
    <3>. QED
      BY <3>1, <3>2, <3>3, <3>4
  <2>2. Ends(L[Len(L)])
    <3>1. N + 1 \in 1 .. N + 1 /\ Len(L) = 2 * (N + 1)
      BY <1>1, <1>6
    <3>. QED
      BY <1>8, <3>1
  <2>. QED
    BY <2>1, <2>2 DEF Whole, InStep
<1>10. BarTypeOK'
  <2>1. BarTypeOK /\ Connected' = Connected
    BY <1>2 DEF BarInv, Connected
  <2>2. << >> \in Seq(Pieces) /\ Len(<< >>) = 0 /\ DOMAIN << >> = {} /\ 0 <= MaxRead
    BY EmptySeq, LenProperties, BarAssumption
  <2>3. link' \in Seq(Pieces) /\ Len(link') <= MaxLink
    BY <1>1, <1>6 DEF L
  <2>. QED
    BY <1>2, <2>1, <2>2, <2>3 DEF BarTypeOK
<1>11. ASSUME NEW o \in barred
       PROVE  Reads(L, shownActive[o], o) = active[o]
  <2>1. barred \subseteq Connected /\ Connected \subseteq Outputs
    BY ScreenTypes DEF BarInv, BarTypeOK
  <2>2. \E j \in 1 .. N : outputs[j] = o
    <3>1. DOMAIN outputs = 1 .. N
      BY LenProperties DEF WorkspacesInv, WorkspacesTypeOK
    <3>. QED
      BY <2>1, <3>1 DEF Connected, ToSet
  <2>3. \A j \in 1 .. N : /\ j \in 1 .. N + 1 /\ outputs[j] \in Outputs
                          /\ active[outputs[j]] \in Index
    BY <1>1, LenProperties, ElementOfSeq DEF WorkspacesInv, WorkspacesTypeOK
  <2>4. ASSUME NEW k \in News(L, o)
        PROVE  L[k][1].index = active[o]
    <3>1. k \in 1 .. Len(L) /\ L[k][1].event = "workspace" /\ L[k][1].output = o
      BY <1>6 DEF News
    <3>2. PICK j \in 1 .. N + 1 : L[k][1] = S[j]
      BY <1>4, <1>6, <3>1
    <3>3. j # N + 1
      BY <1>1, <3>1, <3>2, EventFacts
    <3>4. j \in 1 .. N
      BY <1>1, <3>3
    <3>. QED
      BY <1>1, <2>3, <3>1, <3>2, <3>4, EventFacts
  <2>5. News(L, o) # {}
    <3>1. PICK j \in 1 .. N : outputs[j] = o
      BY <2>2
    <3>2. j \in 1 .. N + 1 /\ S[j].event = "workspace" /\ S[j].output = o
      BY <1>1, <2>3, <3>1, EventFacts
    <3>3. 2 * j \in DOMAIN L /\ Ends(L[2 * j]) /\ L[2 * j][1] = S[j]
      BY <1>6, <1>7, <1>8, <3>2
    <3>. QED
      BY <3>2, <3>3 DEF News
  <2>6. Max(News(L, o)) \in News(L, o)
    BY <1>6, <2>5, NewsFacts
  <2>. QED
    BY <2>4, <2>5, <2>6 DEF Reads
<1>12. Stream' = L
  <2>1. Stream' = << >> \o L
    BY <1>2 DEF Stream, L
  <2>. QED
    BY <1>6, <2>1, ConcatEmptySeq
<1>13. \A o \in barred' : ActiveRead(o)' = active'[o]
  BY <1>2, <1>11 DEF ActiveRead, Reads, L
<1>. QED
  BY <1>9, <1>10, <1>12, <1>13 DEF BarInv, ActiveFollowed, Whole, InStep

(* A stream cut in two *)
LEMMA CutFacts ==
    ASSUME NEW s \in Seq(Pieces), NEW m \in 0 .. Len(s)
    PROVE  /\ SubSeq(s, 1, m) \in Seq(Pieces) /\ Len(SubSeq(s, 1, m)) = m
           /\ \A k \in 1 .. m : SubSeq(s, 1, m)[k] = s[k]
           /\ SubSeq(s, m + 1, Len(s)) \in Seq(Pieces)
           /\ Len(SubSeq(s, m + 1, Len(s))) = Len(s) - m
           /\ \A k \in 1 .. Len(s) - m : SubSeq(s, m + 1, Len(s))[k] = s[m + k]
<1>1. Len(s) \in Nat /\ m \in Nat /\ m <= Len(s) /\ \A k \in 1 .. Len(s) : s[k] \in Pieces
  BY LenProperties, ElementOfSeq
<1>2. /\ SubSeq(s, 1, m) \in Seq(Pieces) /\ Len(SubSeq(s, 1, m)) = m
      /\ \A k \in 1 .. m : SubSeq(s, 1, m)[k] = s[k]
  <2> DEFINE h == SubSeq(s, 1, m)
  <2>1. 1 \in Int /\ m \in Int /\ \A k \in 1 .. m : s[k] \in Pieces
    BY <1>1
  <2>2. /\ h \in Seq(Pieces) /\ Len(h) = IF 1 <= m THEN m - 1 + 1 ELSE 0
        /\ \A k \in 1 .. m - 1 + 1 : h[k] = s[1 + k - 1]
    BY <2>1, SubSeqProperties
  <2> HIDE DEF h
  <2>3. Len(h) = m
    BY <1>1, <2>2
  <2>4. ASSUME NEW k \in 1 .. m
        PROVE  h[k] = s[k]
    <3>1. k \in 1 .. m - 1 + 1 /\ 1 + k - 1 = k
      BY <1>1
    <3>. QED
      BY <2>2, <3>1
  <2>. QED
    BY <2>2, <2>3, <2>4 DEF h
<1>3. /\ SubSeq(s, m + 1, Len(s)) \in Seq(Pieces)
      /\ Len(SubSeq(s, m + 1, Len(s))) = Len(s) - m
      /\ \A k \in 1 .. Len(s) - m : SubSeq(s, m + 1, Len(s))[k] = s[m + k]
  <2> DEFINE t == SubSeq(s, m + 1, Len(s))
  <2>1. m + 1 \in Int /\ Len(s) \in Int /\ \A k \in m + 1 .. Len(s) : s[k] \in Pieces
    BY <1>1
  <2>2. /\ t \in Seq(Pieces)
        /\ Len(t) = IF m + 1 <= Len(s) THEN Len(s) - (m + 1) + 1 ELSE 0
        /\ \A k \in 1 .. Len(s) - (m + 1) + 1 : t[k] = s[m + 1 + k - 1]
    BY <2>1, SubSeqProperties
  <2> HIDE DEF t
  <2>3. Len(t) = Len(s) - m
    BY <1>1, <2>2
  <2>4. ASSUME NEW k \in 1 .. Len(s) - m
        PROVE  t[k] = s[m + k]
    <3>1. k \in 1 .. Len(s) - (m + 1) + 1 /\ m + 1 + k - 1 = m + k
      BY <1>1
    <3>. QED
      BY <2>2, <3>1
  <2>. QED
    BY <2>2, <2>3, <2>4 DEF t
<1>. QED
  BY <1>2, <1>3

(* kumbar_ipc_dispatch(): how much is read *)
LEMMA RoomFacts ==
    ASSUME NEW len \in Nat, NEW had \in Nat, had <= MaxRead
    PROVE  LET n    == Min({len, MaxRead})
               room == Min({n, MaxRead - had})
           IN  n \in 0 .. len /\ room \in 0 .. n /\ had + room <= MaxRead
<1> DEFINE n == Min({len, MaxRead})
           room == Min({n, MaxRead - had})
<1>1. MaxRead \in Nat
  BY BarAssumption
<1>2. n \in {len, MaxRead} /\ n <= len
  <2>1. {len, MaxRead} \in SUBSET Nat /\ {len, MaxRead} # {} /\ len \in {len, MaxRead}
    BY <1>1
  <2> HIDE DEF n
  <2>. QED
    BY <2>1, MinFacts DEF n
<1> HIDE DEF n
<1>3. n \in Nat /\ MaxRead - had \in Nat
  BY <1>1, <1>2
<1>4. room \in {n, MaxRead - had} /\ room <= n /\ room <= MaxRead - had
  <2>1. /\ {n, MaxRead - had} \in SUBSET Nat /\ {n, MaxRead - had} # {}
        /\ n \in {n, MaxRead - had} /\ MaxRead - had \in {n, MaxRead - had}
    BY <1>3
  <2> HIDE DEF room
  <2>. QED
    BY <2>1, MinFacts DEF room
<1> HIDE DEF room
<1>5. n \in 0 .. len /\ room \in 0 .. n /\ had + room <= MaxRead
  BY <1>1, <1>2, <1>3, <1>4
<1>. QED
  BY <1>5 DEF n, room

LEMMA IpcDispatchInv ==
    ASSUME WorkspacesInv, BarInv, IpcDispatch
    PROVE  BarInv'
<1> DEFINE n == Min({Len(link), MaxRead})
           room == Min({n, MaxRead - Len(ibuf)})
           h == SubSeq(link, 1, room)
           buf == ibuf \o h
           t == link'
<1>1. /\ t = SubSeq(link, n + 1, Len(link))
      /\ ibuf' = RestOf(buf)
      /\ losses' = losses + IF room < n THEN 1 ELSE 0
      /\ shownActive' \in [Outputs -> Index]
      /\ \A o \in Outputs : o \in barred => shownActive'[o] \in Shows(buf, o)
      /\ outputs' = outputs /\ active' = active
      /\ connected' = connected /\ barred' = barred
  BY DEF IpcDispatch, screenVars
<1>2. /\ BarTypeOK /\ link \in Seq(Pieces) /\ ibuf \in Seq(Pieces)
      /\ Len(link) \in Nat /\ Len(ibuf) \in Nat /\ losses \in Nat
      /\ Len(link) <= MaxLink /\ Len(ibuf) <= MaxRead
      /\ DOMAIN ibuf = 1 .. Len(ibuf) /\ \A k \in 1 .. Len(ibuf) : ~Ends(ibuf[k])
      /\ barred \subseteq Connected /\ Connected' = Connected /\ Connected \subseteq Outputs
  <2>1. BarTypeOK /\ Connected \subseteq Outputs /\ Connected' = Connected
    BY <1>1, ScreenTypes DEF BarInv, Connected
  <2>2. link \in Seq(Pieces) /\ ibuf \in Seq(Pieces)
    BY <2>1 DEF BarTypeOK
  <2>3. Len(link) \in Nat /\ Len(ibuf) \in Nat /\ DOMAIN ibuf = 1 .. Len(ibuf)
    BY <2>2, LenProperties
  <2>. QED
    BY <2>1, <2>2, <2>3 DEF BarTypeOK
<1>3. n \in 0 .. Len(link) /\ room \in 0 .. n /\ Len(ibuf) + room <= MaxRead
  BY <1>2, RoomFacts
<1> HIDE DEF n, room
<1>4. room \in 0 .. Len(link) /\ room \in Nat /\ n \in Nat /\ MaxRead \in Nat
  BY <1>2, <1>3, BarAssumption
<1>5. h \in Seq(Pieces) /\ Len(h) = room /\ \A k \in 1 .. room : h[k] = link[k]
  BY <1>2, <1>4, CutFacts
<1>6. /\ t \in Seq(Pieces) /\ Len(t) = Len(link) - n
      /\ \A k \in 1 .. Len(link) - n : t[k] = link[n + k]
  <2> HIDE DEF t
  <2>. QED
    BY <1>1, <1>2, <1>3, CutFacts
<1> HIDE DEF h, t
<1>7. /\ buf \in Seq(Pieces) /\ Len(buf) = Len(ibuf) + room
      /\ \A k \in 1 .. Len(buf) : buf[k] = IF k <= Len(ibuf) THEN ibuf[k] ELSE h[k - Len(ibuf)]
  <2>1. /\ buf \in Seq(Pieces) /\ Len(buf) = Len(ibuf) + Len(h)
        /\ \A k \in 1 .. Len(ibuf) + Len(h) :
              buf[k] = IF k <= Len(ibuf) THEN ibuf[k] ELSE h[k - Len(ibuf)]
    BY <1>2, <1>5, ConcatProperties
  <2> HIDE DEF buf
  <2>. QED
    BY <1>5, <2>1
<1> HIDE DEF buf
<1>8. PICK m \in 0 .. Len(buf) :
         /\ m # 0 => Ends(buf[m])
         /\ \A k \in 1 .. Len(buf) : Ends(buf[k]) => k <= m
         /\ ibuf' \in Seq(Pieces) /\ Len(ibuf') = Len(buf) - m
         /\ \A k \in 1 .. Len(buf) - m : ibuf'[k] = buf[m + k]
  BY <1>1, <1>7, RestFacts
<1>9. BarTypeOK'
  <2>1. Len(link') <= MaxLink
    <3>1. Len(t) <= MaxLink
      BY <1>2, <1>3, <1>6, BarAssumption
    <3>. QED
      BY <3>1 DEF t
  <2>2. Len(ibuf') <= MaxRead
    BY <1>2, <1>3, <1>4, <1>7, <1>8
  <2>3. ASSUME NEW k \in DOMAIN ibuf'
        PROVE  ~Ends(ibuf'[k])
    <3>1. k \in 1 .. Len(buf) - m
      <4>1. DOMAIN ibuf' = 1 .. Len(ibuf')
        BY <1>8, LenProperties
      <4>. QED
        BY <1>8, <4>1
    <3>2. m + k \in 1 .. Len(buf) /\ ~(m + k <= m)
      BY <1>2, <1>4, <1>7, <1>8, <3>1
    <3>. QED
      BY <1>8, <3>1, <3>2
  <2>4. losses' \in Nat
    BY <1>1, <1>2
  <2>5. link' \in Seq(Pieces) /\ connected' \in BOOLEAN
    BY <1>1, <1>2, <1>6 DEF t, BarTypeOK
  <2>6. barred' \subseteq Connected'
    BY <1>1, <1>2
  <2>7. (\A k \in DOMAIN ibuf : ~Ends(ibuf[k]))'
    BY <2>3 DEF Ends, Length, Title
  <2>. QED
    BY <1>1, <1>8, <2>1, <2>2, <2>4, <2>5, <2>6, <2>7 DEF BarTypeOK
<1>10. ASSUME connected', losses' = 0
       PROVE  Whole(Stream') /\ \A o \in barred' : ActiveRead(o)' = active'[o]
  <2>1. losses = 0 /\ room = n
    BY <1>1, <1>2, <1>3, <1>4, <1>10
  <2>2. Whole(Stream) /\ \A o \in barred : ActiveRead(o) = active[o]
    BY <1>1, <1>10, <2>1 DEF BarInv, ActiveFollowed
  <2>3. /\ Stream \in Seq(Pieces) /\ Len(Stream) = Len(ibuf) + Len(link)
        /\ \A k \in 1 .. Len(Stream) :
              Stream[k] = IF k <= Len(ibuf) THEN ibuf[k] ELSE link[k - Len(ibuf)]
    BY <1>2, ConcatProperties DEF Stream
  <2>4. ASSUME NEW k \in 1 .. Len(buf)
        PROVE  k \in 1 .. Len(Stream) /\ Stream[k] = buf[k]
    <3>1. k \in 1 .. Len(Stream)
      BY <1>2, <1>3, <1>4, <1>7, <2>3
    <3>2. CASE k <= Len(ibuf)
      BY <1>7, <2>3, <3>1, <3>2
    <3>3. CASE ~(k <= Len(ibuf))
      <4>1. k - Len(ibuf) \in 1 .. room
        BY <1>2, <1>4, <1>7, <3>3
      <4>. QED
        BY <1>5, <1>7, <2>3, <3>1, <3>3, <4>1
    <3>. QED
      BY <3>1, <3>2, <3>3
  <2>5. ASSUME NEW k \in 1 .. Len(t)
        PROVE  Len(buf) + k \in 1 .. Len(Stream) /\ Stream[Len(buf) + k] = t[k]
    <3>1. /\ Len(buf) + k \in 1 .. Len(Stream) /\ ~(Len(buf) + k <= Len(ibuf))
          /\ Len(buf) + k - Len(ibuf) = n + k
      BY <1>2, <1>3, <1>4, <1>6, <1>7, <2>1, <2>3
    <3>2. Stream[Len(buf) + k] = link[n + k]
      BY <2>3, <3>1
    <3>3. t[k] = link[n + k]
      BY <1>6
    <3>. QED
      BY <3>1, <3>2, <3>3
  <2>6. Whole(Stream')
    <3> DEFINE s == ibuf' \o t
    <3>1. /\ s \in Seq(Pieces) /\ Len(s) = Len(ibuf') + Len(t)
          /\ \A k \in 1 .. Len(s) : s[k] = IF k <= Len(ibuf') THEN ibuf'[k]
                                           ELSE t[k - Len(ibuf')]
      <4>1. /\ s \in Seq(Pieces) /\ Len(s) = Len(ibuf') + Len(t)
            /\ \A k \in 1 .. Len(ibuf') + Len(t) :
                  s[k] = IF k <= Len(ibuf') THEN ibuf'[k] ELSE t[k - Len(ibuf')]
        BY <1>6, <1>8, ConcatProperties
      <4> HIDE DEF s
      <4>. QED
        BY <4>1
    <3> HIDE DEF s
    <3>2. m \in 0 .. Len(Stream) /\ Len(s) = Len(Stream) - m
      BY <1>2, <1>3, <1>4, <1>6, <1>7, <1>8, <2>1, <2>3, <3>1
    <3>3. m # 0 => Ends(Stream[m])
      <4>1. m # 0 => m \in 1 .. Len(buf)
        BY <1>2, <1>4, <1>7
      <4>. QED
        BY <1>8, <2>4, <4>1
    <3>4. ASSUME NEW k \in 1 .. Len(s)
          PROVE  s[k] = Stream[m + k]
      <4>1. CASE k <= Len(ibuf')
        <5>1. k \in 1 .. Len(buf) - m /\ m + k \in 1 .. Len(buf)
          BY <1>2, <1>4, <1>7, <1>8, <4>1
        <5>. QED
          BY <1>8, <2>4, <3>1, <4>1, <5>1
      <4>2. CASE ~(k <= Len(ibuf'))
        <5>1. /\ k - Len(ibuf') \in 1 .. Len(t)
              /\ Len(buf) + (k - Len(ibuf')) = m + k
          BY <1>2, <1>4, <1>6, <1>7, <1>8, <3>1, <3>2, <4>2
        <5>2. Stream[m + k] = t[k - Len(ibuf')]
          BY <2>5, <5>1
        <5>. QED
          BY <3>1, <4>2, <5>2
      <4>. QED
        BY <4>1, <4>2
    <3>5. Whole(s)
      BY ONLY <2>2, <2>3, <3>1, <3>2, <3>3, <3>4, CutWhole
    <3>. QED
      BY <3>5 DEF s, t, Stream
  <2>7. InStep(buf)
    <3>. SUFFICES ASSUME NEW k \in 1 .. Len(buf)
         PROVE  IF k = 1 THEN buf[1][2] = 1 ELSE Follows(buf[k - 1], buf[k])
      BY DEF InStep
    <3>1. k \in 1 .. Len(Stream) /\ Stream[k] = buf[k]
      BY <2>4
    <3>2. k # 1 => Stream[k - 1] = buf[k - 1]
      <4>1. k # 1 => k - 1 \in 1 .. Len(buf)
        BY <1>2, <1>4, <1>7
      <4>. QED
        BY <2>4, <4>1
    <3>3. IF k = 1 THEN Stream[1][2] = 1 ELSE Follows(Stream[k - 1], Stream[k])
      BY <2>2, <3>1 DEF Whole, InStep
    <3>. QED
      BY <3>1, <3>2, <3>3
  <2>8. ASSUME NEW o \in barred
        PROVE  Reads(t, shownActive'[o], o) = active[o]
    <3>1. shownActive'[o] = Reads(buf, shownActive[o], o)
      BY <1>1, <1>2, <1>7, <2>7, ShowsWhatReads
    <3>2. Reads(t, Reads(buf, shownActive[o], o), o) = Reads(link, shownActive[o], o)
      <4>1. Divided(link, h, t)
        BY <1>2, <1>3, <1>5, <1>6, <2>1 DEF Divided
      <4>2. Unended(ibuf)
        BY <1>2 DEF Unended
      <4>. QED
        BY <1>2, <1>5, <1>6, <4>1, <4>2, ReadsInTwo DEF buf
    <3>3. Reads(link, shownActive[o], o) = active[o]
      BY <1>2, <2>2, StreamFacts
    <3>. QED
      BY <3>1, <3>2, <3>3
  <2>9. \A o \in barred' : ActiveRead(o)' = active'[o]
    BY <1>1, <2>8 DEF ActiveRead, Reads, News, t
  <2>. QED
    BY <2>6, <2>9
<1>. QED
  BY <1>9, <1>10 DEF BarInv, ActiveFollowed, Whole, InStep

(* main() of kumbar *)
LEMMA BarStartsInv ==
    ASSUME WorkspacesInv, BarStarts
    PROVE  BarInv'
<1>1. /\ connected' = FALSE /\ link' = << >> /\ ibuf' = << >> /\ losses' = 0
      /\ barred' = Connected /\ outputs' = outputs
      /\ shownActive' = [o \in Outputs |-> 0]
  BY DEF BarStarts, screenVars
<1>2. << >> \in Seq(Pieces) /\ Len(<< >>) = 0 /\ DOMAIN << >> = {}
  BY EmptySeq, LenProperties
<1>3. [o \in Outputs |-> 0] \in [Outputs -> Index] /\ Connected' = Connected
  BY <1>1, ScreenTypes DEF Connected
<1>4. 0 <= MaxLink /\ 0 <= MaxRead
  BY BarAssumption
<1>. QED
  BY <1>1, <1>2, <1>3, <1>4 DEF BarInv, BarTypeOK

LEMMA BarNextInv == WorkspacesInv /\ BarInv /\ [BarNext]_barVars => BarInv'
<1>. SUFFICES ASSUME WorkspacesInv, BarInv, [BarNext]_barVars
     PROVE  BarInv'
  OBVIOUS
<1>1. CASE UNCHANGED barVars
  <2>1. /\ connected' = connected /\ ibuf' = ibuf /\ link' = link /\ losses' = losses
        /\ barred' = barred /\ shownActive' = shownActive
        /\ active' = active /\ outputs' = outputs
    BY <1>1 DEF barVars, mirror, screenVars
  <2>2. barred \subseteq Connected /\ Connected' = Connected
    BY <2>1 DEF BarInv, BarTypeOK, Connected
  <2>. QED
    BY <2>1, <2>2, NothingTold
<1>2. ASSUME NEW o \in Outputs, Plugged(o)
      PROVE  BarInv'
  BY <1>2, PluggedInv
<1>3. ASSUME NEW o \in Outputs, Unplugged(o)
      PROVE  BarInv'
  BY <1>3, UnpluggedInv
<1>4. ASSUME NEW o \in Outputs, NEW i \in Index, Switched(o, i)
      PROVE  BarInv'
  BY <1>4, SwitchedInv
<1>5. CASE WindowsChange
  BY <1>5, WindowsChangeInv
<1>6. CASE BarStarts
  BY <1>6, BarStartsInv
<1>7. CASE IpcConnect
  BY <1>7, IpcConnectInv
<1>8. CASE IpcDispatch
  BY <1>8, IpcDispatchInv
<1>. QED
  BY <1>1, <1>2, <1>3, <1>4, <1>5, <1>6, <1>7, <1>8 DEF BarNext, Kumde
-----------------------------------------------------------------------------
(* The compositor the bar listens to is the one of Workspaces.tla: the     *)
(* events it writes and whatever kumbar does add no step to what outputs   *)
(* and workspaces do, so that all that is proved of them holds here.       *)
LEMMA BarComposition == BarSpec => WorkspacesSpec
<1>1. BarInit => WorkspacesInit
  BY DEF BarInit
<1>2. [BarNext]_barVars => [WorkspacesNext]_screenVars
  <2>. SUFFICES ASSUME [BarNext]_barVars
       PROVE  [WorkspacesNext]_screenVars
    OBVIOUS
  <2>1. CASE UNCHANGED barVars
    BY <2>1 DEF barVars
  <2>2. ASSUME NEW o \in Outputs, Plugged(o) \/ Unplugged(o)
        PROVE  WorkspacesNext
    BY <2>2 DEF Plugged, Unplugged, WorkspacesNext
  <2>3. ASSUME NEW o \in Outputs, NEW i \in Index, Switched(o, i)
        PROVE  WorkspacesNext
    BY <2>3 DEF Switched, WorkspacesNext
  <2>4. CASE WindowsChange \/ BarStarts \/ IpcConnect \/ IpcDispatch
    BY <2>4 DEF WindowsChange, BarStarts, IpcConnect, IpcDispatch
  <2>. QED
    BY <2>1, <2>2, <2>3, <2>4 DEF BarNext, Kumde
<1>. QED
  BY <1>1, <1>2, PTL DEF BarSpec, WorkspacesSpec

LEMMA BarInvariance == BarSpec => []BarInv
<1>1. BarSpec => []WorkspacesInv
  BY BarComposition, Invariance, PTL
<1>. QED
  BY <1>1, BarInitInv, BarNextInv, PTL DEF BarSpec

(* However kumde and kumbar interleave, the socket and kumbar's buffer     *)
(* never hold more than they can, what is left in the buffer between two   *)
(* reads is never a whole line, and a bar is only on an output that is     *)
(* there: output_destroy() takes it away before the next read.             *)
THEOREM BarTypeCorrect == BarSpec => []BarTypeOK
<1>1. BarInv => BarTypeOK
  BY DEF BarInv
<1>. QED
  BY <1>1, BarInvariance, PTL

(* As long as no buffer overflowed since kumbar started, what a bar shows  *)
(* and what is on its way to it end in the workspace its output is on,     *)
(* through swaps, unplugging, and reads that end in the middle of a line.  *)
THEOREM BarsRight == BarSpec => []ActiveFollowed
<1>1. BarInv => ActiveFollowed
  BY DEF BarInv, ActiveFollowed
<1>. QED
  BY <1>1, BarInvariance, PTL
=============================================================================

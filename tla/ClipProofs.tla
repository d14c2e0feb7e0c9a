----------------------------- MODULE ClipProofs -----------------------------
(***************************************************************************)
(* Theorems about KumClip.tla, for any copies and formats: kumclip's guess *)
(* of who owns the selection is right whenever nothing is on its way, and  *)
(* it never reads the selection it owns itself.                            *)
(***************************************************************************)
EXTENDS KumClip, ListLemmas

EventType   == [kind : {"offer", "selection", "cancelled"},
                of : Copies \cup {NoCopy, Kumclip}]
RequestType == [kind : {"receive", "set_selection"},
                of : Copies \cup {NoCopy, Kumclip}]

(* What kumclip asked for and is still owed: the one request of the        *)
(* clip_read() it is in, which is for a copy an application made.          *)
ReadingKept ==
    /\ AtMost1(requests, "receive")
    /\ \A i \in 1 .. Len(requests) : requests[i].kind = "receive" =>
          reading.answer = "asked" /\ requests[i].of = reading.of
    /\ reading # NotReading => reading.of \in made /\ reading.answer # "none"

(* is_owner is set from the request for the selection to the event that    *)
(* ends it: of the request, the selection itself and the event there is    *)
(* always exactly one while it is set, and none while it is not.           *)
OneToken(q, c, e, owner) ==
    /\ AtMost1(q, "set_selection")
    /\ AtMost1(e, "cancelled")
    /\ owner <=> \/ Holds(q, "set_selection")
                 \/ c = Kumclip
                 \/ Holds(e, "cancelled")
    /\ ~(Holds(q, "set_selection") /\ c = Kumclip)
    /\ ~(Holds(q, "set_selection") /\ Holds(e, "cancelled"))
    /\ ~(c = Kumclip /\ Holds(e, "cancelled"))

(* The news of kumclip's own selection reaches it before the news that     *)
(* the selection is over: while is_owner is set.                           *)
NewsInOrder(e, owner, made_) ==
    \A i \in 1 .. Len(e) : e[i].kind = "selection" =>
        /\ e[i].of \in made_ \cup {NoCopy, Kumclip}
        /\ e[i].of = Kumclip =>
              /\ owner
              /\ \A j \in 1 .. Len(e) : e[j].kind = "cancelled" => i < j

ClipInv ==
    /\ KumClipTypeOK
    /\ ReadingKept
    /\ OneToken(requests, clipboard, events, isOwner)
    /\ NewsInOrder(events, isOwner, made)
    /\ clipboard \in made \cup {NoCopy, Kumclip}
    /\ isOwner => held # NoCopy
-----------------------------------------------------------------------------
(* Told() has no cancelled event, and names the owner alone. *)
LEMMA ToldFacts ==
    ASSUME NEW o \in Copies \cup {NoCopy, Kumclip}
    PROVE  /\ Told(o) \in Seq(EventType)
           /\ ~Holds(Told(o), "cancelled") /\ AtMost1(Told(o), "cancelled")
           /\ \A i \in 1 .. Len(Told(o)) : Told(o)[i].of = o
<1>1. CASE o = NoCopy
  <2>1. Told(o) = <<Event("selection", o)>>
    BY <1>1 DEF Told
  <2>2. /\ Event("selection", o) \in EventType
        /\ Event("selection", o).kind # "cancelled"
        /\ Event("selection", o).of = o
    BY DEF Event, EventType
  <2>. QED
    BY <2>1, <2>2, OneHolds
<1>2. CASE o # NoCopy
  <2> DEFINE e == Event("offer", o)
             f == Event("selection", o)
  <2>1. Told(o) = <<e, f>>
    BY <1>2 DEF Told
  <2>2. /\ e \in EventType /\ f \in EventType
        /\ e.kind # "cancelled" /\ f.kind # "cancelled" /\ e.of = o /\ f.of = o
    BY DEF Event, EventType
  <2> HIDE DEF e, f
  <2>3. Len(<<e, f>>) = 2 /\ <<e, f>>[1] = e /\ <<e, f>>[2] = f
    OBVIOUS
  <2>4. \A i \in 1 .. 2 : <<e, f>>[i] \in {e, f}
    BY <2>3
  <2>. QED
    BY <2>1, <2>2, <2>3, <2>4 DEF Holds, AtMost1
<1>. QED
  BY <1>1, <1>2

LEMMA NewsJoin ==
    ASSUME NEW e \in Seq(EventType), NEW n \in Seq(EventType), NEW owner, NEW m,
           NEW m2, m \subseteq m2, NewsInOrder(e, owner, m),
           \A i \in 1 .. Len(n) : n[i].kind = "selection" =>
              /\ n[i].of \in m2 \cup {NoCopy, Kumclip}
              /\ n[i].of = Kumclip =>
                    owner /\ ~Holds(e, "cancelled") /\ ~Holds(n, "cancelled")
    PROVE  NewsInOrder(e \o n, owner, m2)
<1> DEFINE u == e \o n
<1>1. /\ Len(e) \in Nat /\ Len(n) \in Nat /\ Len(u) = Len(e) + Len(n)
      /\ \A i \in 1 .. Len(u) : u[i] = IF i <= Len(e) THEN e[i] ELSE n[i - Len(e)]
  BY LenProperties, ConcatProperties
<1>2. Holds(u, "cancelled") <=> Holds(e, "cancelled") \/ Holds(n, "cancelled")
  BY JoinHolds
<1> HIDE DEF u
<1>. SUFFICES ASSUME NEW i \in 1 .. Len(u), u[i].kind = "selection"
     PROVE  /\ u[i].of \in m2 \cup {NoCopy, Kumclip}
            /\ u[i].of = Kumclip =>
                  owner /\ \A j \in 1 .. Len(u) : u[j].kind = "cancelled" => i < j
  BY DEF NewsInOrder, u
<1>3. CASE i <= Len(e)
  <2>1. i \in 1 .. Len(e) /\ u[i] = e[i]
    BY <1>1, <1>3
  <2>2. ASSUME u[i].of = Kumclip, NEW j \in 1 .. Len(u), u[j].kind = "cancelled"
        PROVE  i < j
    <3>1. CASE j <= Len(e)
      <4>1. j \in 1 .. Len(e) /\ u[j] = e[j]
        BY <1>1, <3>1
      <4>. QED
        BY <2>1, <2>2, <4>1 DEF NewsInOrder
    <3>2. CASE ~(j <= Len(e))
      BY <1>1, <1>3, <3>2
    <3>. QED
      BY <3>1, <3>2
  <2>. QED
    BY <2>1, <2>2 DEF NewsInOrder
<1>4. CASE ~(i <= Len(e))
  <2>1. i - Len(e) \in 1 .. Len(n) /\ u[i] = n[i - Len(e)]
    BY <1>1, <1>4
  <2>2. u[i].of = Kumclip => owner /\ ~Holds(u, "cancelled")
    BY <1>2, <2>1
  <2>. QED
    BY <2>1, <2>2 DEF Holds
<1>. QED
  BY <1>3, <1>4

LEMMA NewsTail ==
    ASSUME NEW e \in Seq(EventType), e # << >>, NEW owner, NEW m,
           NewsInOrder(e, owner, m)
    PROVE  /\ NewsInOrder(Tail(e), owner, m)
           /\ Head(e).kind = "cancelled" => NewsInOrder(Tail(e), FALSE, m)
<1> DEFINE u == Tail(e)
<1>1. /\ Len(e) \in Nat \ {0} /\ Len(u) = Len(e) - 1
      /\ \A i \in 1 .. Len(u) : u[i] = e[i + 1]
  BY EmptySeq, HeadTailProperties
<1>2. Head(e) = e[1] /\ 1 \in 1 .. Len(e)
  BY <1>1
<1> HIDE DEF u
<1>3. \A i \in 1 .. Len(u) : i + 1 \in 1 .. Len(e) /\ u[i] = e[i + 1] /\ ~(i + 1 < 1)
  BY <1>1
<1>4. \A i, j \in 1 .. Len(u) : i + 1 < j + 1 => i < j
  BY <1>1
<1>5. NewsInOrder(u, owner, m)
  BY <1>3, <1>4 DEF NewsInOrder
<1>6. ASSUME Head(e).kind = "cancelled"
      PROVE  NewsInOrder(u, FALSE, m)
  <2>1. \A i \in 1 .. Len(u) : u[i].kind = "selection" =>
            u[i].of \in m \cup {NoCopy, Kumclip} /\ u[i].of # Kumclip
    BY <1>2, <1>3, <1>6 DEF NewsInOrder
  <2>. QED
    BY <2>1 DEF NewsInOrder
<1>. QED
  BY <1>5, <1>6 DEF u

(* The events of SetSelection() *)
News(c, o) == (IF c = Kumclip THEN <<Event("cancelled", NoCopy)>> ELSE << >>) \o Told(o)

LEMMA NewsFacts ==
    ASSUME NEW c, NEW o \in Copies \cup {NoCopy, Kumclip}
    PROVE  /\ News(c, o) \in Seq(EventType)
           /\ AtMost1(News(c, o), "cancelled")
           /\ Holds(News(c, o), "cancelled") <=> c = Kumclip
           /\ \A i \in 1 .. Len(News(c, o)) :
                 News(c, o)[i].kind = "selection" => News(c, o)[i].of = o
<1> DEFINE s == IF c = Kumclip THEN <<Event("cancelled", NoCopy)>> ELSE << >>
           t == Told(o)
<1>1. s \in Seq(EventType) /\ t \in Seq(EventType)
  <2>1. Event("cancelled", NoCopy) \in EventType
    BY DEF Event, EventType
  <2>2. <<Event("cancelled", NoCopy)>> \in Seq(EventType) /\ << >> \in Seq(EventType)
    BY <2>1
  <2>. QED
    BY <2>2, ToldFacts
<1>2. /\ Holds(s, "cancelled") <=> c = Kumclip
      /\ AtMost1(s, "cancelled")
      /\ \A i \in 1 .. Len(s) : s[i].kind = "cancelled"
  <2> DEFINE d == Event("cancelled", NoCopy)
  <2>1. d.kind = "cancelled"
    BY DEF Event
  <2> HIDE DEF d
  <2>2. /\ Len(<<d>>) = 1 /\ <<d>>[1] = d
        /\ \A i \in 1 .. 1 : i = 1
        /\ \A i \in 1 .. Len(<< >>) : FALSE
    OBVIOUS
  <2>3. CASE c = Kumclip
    <3>1. s = <<d>>
      BY <2>3 DEF s, d
    <3>2. \A i \in 1 .. Len(s) : s[i].kind = "cancelled"
      BY <2>1, <2>2, <3>1
    <3>. QED
      BY <2>1, <2>3, <3>1, <3>2, OneHolds
  <2>4. CASE c # Kumclip
    <3>1. s = << >>
      BY <2>4 DEF s
    <3>. QED
      BY <2>2, <2>4, <3>1, OneHolds
  <2>. QED
    BY <2>3, <2>4
<1>3. /\ ~Holds(t, "cancelled") /\ AtMost1(t, "cancelled")
      /\ \A i \in 1 .. Len(t) : t[i].of = o
  BY ToldFacts
<1> HIDE DEF s, t
<1>4. /\ s \o t \in Seq(EventType)
      /\ AtMost1(s \o t, "cancelled")
      /\ Holds(s \o t, "cancelled") <=> c = Kumclip
  BY <1>1, <1>2, <1>3, JoinHolds, ConcatProperties
<1>5. ASSUME NEW i \in 1 .. Len(s \o t), (s \o t)[i].kind = "selection"
      PROVE  (s \o t)[i].of = o
  <2>1. /\ Len(s) \in Nat /\ Len(t) \in Nat /\ Len(s \o t) = Len(s) + Len(t)
        /\ (s \o t)[i] = IF i <= Len(s) THEN s[i] ELSE t[i - Len(s)]
    BY <1>1, LenProperties, ConcatProperties
  <2>2. \/ i \in 1 .. Len(s) /\ (s \o t)[i] = s[i]
        \/ i - Len(s) \in 1 .. Len(t) /\ (s \o t)[i] = t[i - Len(s)]
    BY <2>1
  <2>. QED
    BY <1>2, <1>3, <1>5, <2>2
<1>6. News(c, o) = s \o t
  BY DEF News, s, t
<1>. QED
  BY <1>4, <1>5, <1>6

(* The compositor's selection becomes o, which is not kumclip's. *)
LEMMA OthersSelection ==
    ASSUME NEW q, NEW c, NEW o \in Copies \cup {NoCopy}, NEW e \in Seq(EventType),
           NEW owner, NEW m, NEW m2, m \subseteq m2, o \in m2 \cup {NoCopy},
           OneToken(q, c, e, owner), NewsInOrder(e, owner, m)
    PROVE  /\ e \o News(c, o) \in Seq(EventType)
           /\ OneToken(q, o, e \o News(c, o), owner)
           /\ NewsInOrder(e \o News(c, o), owner, m2)
<1> DEFINE n == News(c, o)
<1>1. /\ n \in Seq(EventType)
      /\ AtMost1(n, "cancelled")
      /\ Holds(n, "cancelled") <=> c = Kumclip
      /\ \A i \in 1 .. Len(n) : n[i].kind = "selection" => n[i].of = o
  BY NewsFacts
<1> HIDE DEF n
<1>2. o # Kumclip
  BY KumClipAssumption
<1>3. /\ Holds(e \o n, "cancelled") <=> Holds(e, "cancelled") \/ Holds(n, "cancelled")
      /\ AtMost1(e, "cancelled") /\ ~(Holds(e, "cancelled") /\ Holds(n, "cancelled"))
           => AtMost1(e \o n, "cancelled")
  BY <1>1, JoinHolds
<1>4. OneToken(q, o, e \o n, owner)
  BY <1>1, <1>2, <1>3 DEF OneToken
<1>5. NewsInOrder(e \o n, owner, m2)
  BY <1>1, <1>2, NewsJoin
<1>6. e \o n \in Seq(EventType)
  BY <1>1, ConcatProperties
<1>. QED
  BY <1>4, <1>5, <1>6 DEF n

(* The compositor takes kumclip's request for the selection. *)
LEMMA OwnSelection ==
    ASSUME NEW q \in Seq(RequestType), q # << >>, Head(q).kind = "set_selection",
           NEW c, NEW e \in Seq(EventType), NEW owner, NEW m,
           OneToken(q, c, e, owner), NewsInOrder(e, owner, m)
    PROVE  /\ owner
           /\ e \o News(c, Kumclip) \in Seq(EventType)
           /\ OneToken(Tail(q), Kumclip, e \o News(c, Kumclip), owner)
           /\ NewsInOrder(e \o News(c, Kumclip), owner, m)
<1> DEFINE n == News(c, Kumclip)
<1>1. /\ n \in Seq(EventType)
      /\ AtMost1(n, "cancelled")
      /\ Holds(n, "cancelled") <=> c = Kumclip
      /\ \A i \in 1 .. Len(n) : n[i].kind = "selection" => n[i].of = Kumclip
  BY NewsFacts
<1> HIDE DEF n
<1>2. /\ Holds(q, "set_selection")
      /\ AtMost1(q, "set_selection") => AtMost1(Tail(q), "set_selection")
      /\ AtMost1(q, "set_selection") => ~Holds(Tail(q), "set_selection")
  BY TailHolds
<1>3. /\ Holds(e \o n, "cancelled") <=> Holds(e, "cancelled") \/ Holds(n, "cancelled")
      /\ AtMost1(e, "cancelled") /\ ~(Holds(e, "cancelled") /\ Holds(n, "cancelled"))
           => AtMost1(e \o n, "cancelled")
  BY <1>1, JoinHolds
<1>4. owner /\ c # Kumclip /\ ~Holds(e, "cancelled") /\ ~Holds(n, "cancelled")
  BY <1>1, <1>2 DEF OneToken
<1>5. OneToken(Tail(q), Kumclip, e \o n, owner)
  BY <1>2, <1>3, <1>4 DEF OneToken
<1>6. NewsInOrder(e \o n, owner, m)
  BY <1>1, <1>4, NewsJoin
<1>7. e \o n \in Seq(EventType)
  BY <1>1, ConcatProperties
<1>. QED
  BY <1>4, <1>5, <1>6, <1>7 DEF n

LEMMA SetSelectionNews ==
    ASSUME events \in Seq(EventType), NEW o \in Copies \cup {NoCopy, Kumclip},
           SetSelection(o)
    PROVE  clipboard' = o /\ events' = events \o News(clipboard, o)
<1> DEFINE s == IF clipboard = Kumclip THEN <<Event("cancelled", NoCopy)>> ELSE << >>
           t == Told(o)
<1>1. Event("cancelled", NoCopy) \in EventType
  BY DEF Event, EventType
<1>2. s \in Seq(EventType) /\ t \in Seq(EventType)
  BY <1>1, ToldFacts
<1>3. events' = (events \o s) \o t /\ News(clipboard, o) = s \o t
  BY DEF SetSelection, News
<1> HIDE DEF s, t
<1>4. (events \o s) \o t = events \o (s \o t)
  BY <1>2, ConcatAssociative
<1>. QED
  BY <1>3, <1>4 DEF SetSelection

(* One message more at the end of a stream. *)
LEMMA AppendHolds ==
    ASSUME NEW S, NEW s \in Seq(S), NEW x \in S, NEW k
    PROVE  /\ Append(s, x) \in Seq(S)
           /\ Holds(Append(s, x), k) <=> Holds(s, k) \/ x.kind = k
           /\ AtMost1(s, k) /\ ~(Holds(s, k) /\ x.kind = k) => AtMost1(Append(s, x), k)
           /\ \A i \in 1 .. Len(Append(s, x)) : Append(s, x)[i] = x \/
                 (i \in 1 .. Len(s) /\ Append(s, x)[i] = s[i])
<1>1. <<x>> \in Seq(S) /\ Append(s, x) = s \o <<x>>
  BY AppendIsConcat
<1>2. /\ Holds(Append(s, x), k) <=> Holds(s, k) \/ x.kind = k
      /\ AtMost1(s, k) /\ ~(Holds(s, k) /\ x.kind = k) => AtMost1(Append(s, x), k)
  <2> DEFINE t == <<x>>
  <2>1. (Holds(t, k) <=> x.kind = k) /\ AtMost1(t, k) /\ t \in Seq(S)
    BY <1>1, OneHolds
  <2> HIDE DEF t
  <2>2. /\ Holds(s \o t, k) <=> Holds(s, k) \/ Holds(t, k)
        /\ AtMost1(s, k) /\ AtMost1(t, k) /\ ~(Holds(s, k) /\ Holds(t, k))
             => AtMost1(s \o t, k)
    BY <2>1, JoinHolds
  <2>3. Append(s, x) = s \o t
    BY <1>1 DEF t
  <2>. QED
    BY <2>1, <2>2, <2>3
<1>3. /\ Append(s, x) \in Seq(S) /\ Len(s) \in Nat
      /\ Len(Append(s, x)) = Len(s) + 1
      /\ \A i \in 1 .. Len(s) : Append(s, x)[i] = s[i]
      /\ Append(s, x)[Len(s) + 1] = x
  BY AppendProperties, LenProperties
<1>4. \A i \in 1 .. Len(s) + 1 : i = Len(s) + 1 \/ i \in 1 .. Len(s)
  BY <1>3
<1>5. \A i \in 1 .. Len(Append(s, x)) : Append(s, x)[i] = x \/
             (i \in 1 .. Len(s) /\ Append(s, x)[i] = s[i])
  BY <1>3, <1>4
<1>. QED
  BY <1>2, <1>3, <1>5

LEMMA SameToken ==
    ASSUME NEW q, NEW q2, NEW c, NEW e, NEW e2, NEW owner, OneToken(q, c, e, owner),
           Holds(q2, "set_selection") <=> Holds(q, "set_selection"),
           AtMost1(q2, "set_selection"),
           Holds(e2, "cancelled") <=> Holds(e, "cancelled"), AtMost1(e2, "cancelled")
    PROVE  OneToken(q2, c, e2, owner)
BY DEF OneToken
-----------------------------------------------------------------------------
(* What the invariant says of the types, in the names used here. *)
LEMMA ClipTypes ==
    ASSUME KumClipTypeOK
    PROVE  /\ events \in Seq(EventType) /\ requests \in Seq(RequestType)
           /\ made \subseteq Copies /\ NoCopy \notin Copies /\ Kumclip \notin Copies
           /\ NoCopy # Kumclip
BY KumClipAssumption DEF KumClipTypeOK, EventType, RequestType

LEMMA ClipStart == KumClipInit => ClipInv
<1>. SUFFICES ASSUME KumClipInit
     PROVE  ClipInv
  OBVIOUS
<1>1. clipboard \in Copies \cup {NoCopy} /\ clipboard # Kumclip
  BY KumClipAssumption DEF KumClipInit
<1>2. /\ events \in Seq(EventType)
      /\ ~Holds(events, "cancelled") /\ AtMost1(events, "cancelled")
      /\ \A i \in 1 .. Len(events) : events[i].of = clipboard
  BY <1>1, ToldFacts DEF KumClipInit
<1>3. ~Holds(requests, "set_selection") /\ AtMost1(requests, "set_selection")
  BY OneHolds DEF KumClipInit
<1>4. Len(requests) = 0 /\ \A i \in 1 .. Len(requests) : FALSE
  BY DEF KumClipInit
<1>5. KumClipTypeOK
  <2>1. requests \in Seq([kind : {"receive", "set_selection"},
                          of : Copies \cup {NoCopy, Kumclip}])
    BY DEF KumClipInit
  <2>2. 0 \in 0 .. Flavours
    BY KumClipAssumption
  <2>3. reading \in [of : Copies \cup {NoCopy, Kumclip}, left : 0 .. Flavours,
                     answer : {"none", "asked", "granted", "data", "eof"}]
    BY <2>2 DEF KumClipInit, NotReading
  <2>4. /\ clipboard \in Copies \cup {NoCopy, Kumclip} /\ last \in Copies \cup {NoCopy}
        /\ made \subseteq Copies
        /\ isOwner \in BOOLEAN /\ held \in Copies \cup {NoCopy}
    BY <1>1 DEF KumClipInit
  <2>. QED
    BY <1>2, <2>1, <2>3, <2>4 DEF KumClipTypeOK, EventType
<1>6. ReadingKept
  BY <1>4 DEF KumClipInit, ReadingKept, AtMost1
<1>7. OneToken(requests, clipboard, events, isOwner)
  BY <1>1, <1>2, <1>3 DEF OneToken, KumClipInit
<1>8. clipboard \in made \cup {NoCopy, Kumclip}
  BY <1>1 DEF KumClipInit
<1>9. NewsInOrder(events, isOwner, made)
  BY <1>1, <1>2, <1>8 DEF NewsInOrder
<1>. QED
  BY <1>5, <1>6, <1>7, <1>8, <1>9 DEF ClipInv, KumClipInit

LEMMA CopyStep ==
    ASSUME ClipInv, NEW k \in Copies, Copy(k)
    PROVE  ClipInv'
<1> USE DEF ClipInv
<1>1. /\ events \in Seq(EventType) /\ made \subseteq made' /\ k \in made'
      /\ k \in Copies \cup {NoCopy, Kumclip} /\ made' \subseteq Copies
  BY ClipTypes DEF Copy
<1>2. clipboard' = k /\ events' = events \o News(clipboard, k)
  BY <1>1, SetSelectionNews DEF Copy
<1>3. /\ events' \in Seq(EventType)
      /\ OneToken(requests, clipboard', events', isOwner)
      /\ NewsInOrder(events', isOwner, made')
  BY <1>1, <1>2, OthersSelection
<1>4. KumClipTypeOK'
  BY <1>1, <1>2, <1>3 DEF Copy, KumClipTypeOK, EventType
<1>5. ReadingKept'
  BY <1>1 DEF Copy, ReadingKept
<1>. QED
  BY <1>1, <1>2, <1>3, <1>4, <1>5 DEF Copy

LEMMA QuitStep ==
    ASSUME ClipInv, NEW k \in Copies, Quit(k)
    PROVE  ClipInv'
<1> USE DEF ClipInv
<1>1. events \in Seq(EventType) /\ made' = made
  BY ClipTypes DEF Quit, apps
<1>2. /\ clipboard' \in {clipboard, NoCopy}
      /\ events' \in Seq(EventType)
      /\ OneToken(requests, clipboard', events', isOwner)
      /\ NewsInOrder(events', isOwner, made)
  <2>1. CASE clipboard = k
    <3>1. clipboard' = NoCopy /\ events' = events \o News(clipboard, NoCopy)
      BY <1>1, <2>1, SetSelectionNews DEF Quit
    <3>. QED
      BY <1>1, <3>1, OthersSelection
  <2>2. CASE clipboard # k
    BY <1>1, <2>2 DEF Quit
  <2>. QED
    BY <2>1, <2>2
<1>3. /\ reading' = reading \/ (reading.answer = "granted" /\
                                  reading' = [reading EXCEPT !.answer = "eof"])
      /\ UNCHANGED <<apps, requests, isOwner, held>>
  BY DEF Quit
<1>4. KumClipTypeOK'
  BY <1>1, <1>2, <1>3 DEF apps, KumClipTypeOK, EventType
<1>5. ReadingKept'
  BY <1>1, <1>3 DEF KumClipTypeOK, ReadingKept, NotReading
<1>. QED
  BY <1>1, <1>2, <1>3, <1>4, <1>5

LEMMA AnswerStep ==
    ASSUME ClipInv, Answer
    PROVE  ClipInv'
<1> USE DEF ClipInv
<1>1. PICK a \in {"data", "eof"} : reading' = [reading EXCEPT !.answer = a]
  BY DEF Answer
<1>2. /\ reading.answer = "granted"
      /\ UNCHANGED <<clipboard, apps, events, requests, isOwner, held>>
  BY DEF Answer
<1>3. KumClipTypeOK'
  BY <1>1, <1>2 DEF apps, KumClipTypeOK
<1>4. ReadingKept'
  BY <1>1, <1>2 DEF apps, KumClipTypeOK, ReadingKept, NotReading
<1>. QED
  BY <1>2, <1>3, <1>4 DEF apps

LEMMA TakeRequestStep ==
    ASSUME ClipInv, TakeRequest
    PROVE  ClipInv'
<1> USE DEF ClipInv
<1> DEFINE q == requests
<1>1. /\ events \in Seq(EventType) /\ q \in Seq(RequestType) /\ q # << >>
      /\ q' = Tail(q) /\ UNCHANGED <<made, isOwner, held>>
  BY ClipTypes DEF TakeRequest, apps
<1>2. /\ Len(q) \in Nat \ {0} /\ Len(Tail(q)) = Len(q) - 1 /\ Head(q) = q[1]
      /\ Head(q) \in RequestType /\ Tail(q) \in Seq(RequestType)
      /\ \A i \in 1 .. Len(Tail(q)) : Tail(q)[i] = q[i + 1]
  BY <1>1, EmptySeq, HeadTailProperties, TailHolds
<1>3. /\ AtMost1(Tail(q), "receive")
      /\ AtMost1(q, "set_selection") => AtMost1(Tail(q), "set_selection")
      /\ Head(q).kind = "receive" => ~Holds(Tail(q), "receive")
      /\ Holds(q, "set_selection") <=>
            Head(q).kind = "set_selection" \/ Holds(Tail(q), "set_selection")
  BY <1>1, TailHolds DEF ReadingKept
<1>4. \A i \in 1 .. Len(Tail(q)) : i + 1 \in 1 .. Len(q) /\ Tail(q)[i] = q[i + 1]
  BY <1>2
<1>5. CASE Head(q).kind = "set_selection" /\ SetSelection(Kumclip) /\ UNCHANGED reading
  <2>1. clipboard' = Kumclip /\ events' = events \o News(clipboard, Kumclip)
    BY <1>1, <1>5, SetSelectionNews
  <2>2. /\ isOwner
        /\ events' \in Seq(EventType)
        /\ OneToken(Tail(q), Kumclip, events', isOwner)
        /\ NewsInOrder(events', isOwner, made)
    BY <1>1, <1>5, <2>1, OwnSelection
  <2>3. KumClipTypeOK'
    BY <1>1, <1>2, <1>5, <2>1, <2>2
       DEF TakeRequest, apps, KumClipTypeOK, EventType, RequestType
  <2>4. ReadingKept'
    BY <1>1, <1>3, <1>4, <1>5 DEF ReadingKept
  <2>. QED
    BY <1>1, <2>1, <2>2, <2>3, <2>4
<1>6. CASE /\ Head(q).kind = "receive"
           /\ reading' = [reading EXCEPT
                 !.answer = IF clipboard = Head(q).of THEN "granted" ELSE "eof"]
           /\ UNCHANGED <<clipboard, events>>
  <2>1. OneToken(Tail(q), clipboard, events, isOwner)
    BY <1>3, <1>6 DEF OneToken
  <2>2. KumClipTypeOK'
    BY <1>1, <1>2, <1>6 DEF TakeRequest, apps, KumClipTypeOK, RequestType
  <2>3. reading.answer = "asked" /\ Head(q).of = reading.of
    BY <1>2, <1>6 DEF ReadingKept
  <2>4. \A i \in 1 .. Len(Tail(q)) : Tail(q)[i].kind # "receive"
    BY <1>3, <1>6 DEF Holds
  <2>5. ReadingKept'
    BY <1>1, <1>3, <1>6, <2>3, <2>4 DEF ReadingKept, KumClipTypeOK, NotReading
  <2>. QED
    BY <1>1, <1>6, <2>1, <2>2, <2>5
<1>. QED
  BY <1>5, <1>6 DEF TakeRequest

(* kumclip is not waiting for an answer: no request of its is for one. *)
LEMMA NothingAsked ==
    ASSUME ReadingKept, reading.answer # "asked"
    PROVE  ~Holds(requests, "receive")
BY DEF ReadingKept, Holds

(* kumclip asks for the content of a copy that was made. *)
LEMMA AskStep ==
    ASSUME ClipInv, NEW k \in made, Ask(k), reading.answer # "asked",
           UNCHANGED <<clipboard, made, isOwner, held>>,
           reading'.of = k, reading'.answer = "asked",
           NewsInOrder(events', isOwner, made), OneToken(requests, clipboard, events', isOwner)
    PROVE  /\ requests' \in Seq(RequestType)
           /\ ReadingKept'
           /\ OneToken(requests, clipboard, events, isOwner)'
<1> USE DEF ClipInv
<1> DEFINE r == Request("receive", k)
<1>1. r \in RequestType /\ r.kind = "receive" /\ r.of = k
  BY ClipTypes DEF Request, RequestType
<1>2. requests \in Seq(RequestType) /\ requests' = Append(requests, r)
  BY ClipTypes DEF Ask
<1> HIDE DEF r
<1>3. ~Holds(requests, "receive")
  BY NothingAsked
<1>4. /\ requests' \in Seq(RequestType)
      /\ AtMost1(requests', "receive")
      /\ \A i \in 1 .. Len(requests') :
            requests'[i] = r \/ (i \in 1 .. Len(requests) /\ requests'[i] = requests[i])
  BY <1>1, <1>2, <1>3, AppendHolds DEF ReadingKept
<1>5. /\ Holds(requests', "set_selection") <=> Holds(requests, "set_selection")
      /\ AtMost1(requests', "set_selection")
  BY <1>1, <1>2, AppendHolds DEF OneToken
<1>6. OneToken(requests', clipboard, events', isOwner)
  BY <1>5 DEF OneToken
<1>7. ReadingKept'
  BY <1>1, <1>3, <1>4 DEF ReadingKept, Holds
<1>. QED
  BY <1>4, <1>6, <1>7

LEMMA DispatchStep ==
    ASSUME ClipInv, Dispatch
    PROVE  ClipInv'
<1> USE DEF ClipInv
<1> DEFINE e == Head(events)
<1>1. /\ events \in Seq(EventType) /\ events # << >> /\ events' = Tail(events)
      /\ reading = NotReading
  BY ClipTypes DEF Dispatch
<1>2. /\ e = events[1] /\ e \in EventType /\ Tail(events) \in Seq(EventType)
      /\ 1 \in 1 .. Len(events)
  BY <1>1, EmptySeq, HeadTailProperties, TailHolds
<1>3. /\ Holds(events, "cancelled") <=> e.kind = "cancelled" \/ Holds(events', "cancelled")
      /\ AtMost1(events', "cancelled")
      /\ e.kind = "cancelled" => ~Holds(events', "cancelled")
  BY <1>1, TailHolds DEF OneToken
<1>4. /\ NewsInOrder(events', isOwner, made)
      /\ e.kind = "cancelled" => NewsInOrder(events', FALSE, made)
  BY <1>1, NewsTail
<1>5. e.kind = "selection" =>
         /\ e.of \in made \cup {NoCopy, Kumclip}
         /\ e.of = Kumclip => isOwner
  BY <1>2 DEF NewsInOrder
<1>6. e.kind # "cancelled" => OneToken(requests, clipboard, events', isOwner)
  BY <1>3 DEF OneToken
<1>7. events' \in Seq(EventType)
  BY <1>1, <1>2
<1>8. CASE e.kind = "offer" /\ DataOffer
  <2>1. KumClipTypeOK'
    BY <1>7, <1>8 DEF DataOffer, apps, KumClipTypeOK, EventType
  <2>2. ReadingKept'
    BY <1>8 DEF DataOffer, apps, ReadingKept
  <2>. QED
    BY <1>4, <1>6, <1>8, <2>1, <2>2 DEF DataOffer, apps
<1>9. CASE e.kind = "selection" /\ DdSelection(e.of)
  <2>1. UNCHANGED <<clipboard, apps, isOwner, held>>
    BY <1>9 DEF DdSelection
  <2>2. CASE UNCHANGED <<requests, reading>>
    <3>1. KumClipTypeOK'
      BY <1>7, <2>1, <2>2 DEF apps, KumClipTypeOK, EventType
    <3>2. ReadingKept'
      BY <2>1, <2>2 DEF apps, ReadingKept
    <3>. QED
      BY <1>4, <1>6, <1>9, <2>1, <2>2, <3>1, <3>2 DEF apps
  <2>3. CASE ~UNCHANGED <<requests, reading>>
    <3>1. /\ ~isOwner /\ e.of # NoCopy /\ Ask(e.of)
          /\ reading' = [of |-> e.of, left |-> Flavours - 1, answer |-> "asked"]
      BY <1>9, <2>3 DEF DdSelection
    <3>2. e.of \in made
      BY <1>5, <1>9, <3>1
    <3>3. reading.answer # "asked"
      BY <1>1 DEF NotReading
    <3>4. /\ requests' \in Seq(RequestType) /\ ReadingKept'
          /\ OneToken(requests, clipboard, events, isOwner)'
      BY <1>4, <1>6, <1>9, <2>1, <3>1, <3>2, <3>3, AskStep DEF apps
    <3>5. Flavours - 1 \in 0 .. Flavours
      BY KumClipAssumption
    <3>6. KumClipTypeOK'
      BY <1>2, <1>7, <2>1, <3>1, <3>4, <3>5
         DEF apps, KumClipTypeOK, EventType, RequestType
    <3>. QED
      BY <1>4, <2>1, <3>4, <3>6 DEF apps
  <2>. QED
    BY <2>2, <2>3
<1>10. CASE e.kind = "cancelled" /\ SourceCancelled
  <2>1. KumClipTypeOK'
    BY <1>7, <1>10 DEF SourceCancelled, apps, KumClipTypeOK, EventType
  <2>2. ReadingKept'
    BY <1>10 DEF SourceCancelled, apps, ReadingKept
  <2>3. OneToken(requests, clipboard, events', FALSE)
    BY <1>3, <1>10 DEF OneToken
  <2>. QED
    BY <1>4, <1>10, <2>1, <2>2, <2>3 DEF SourceCancelled, apps
<1>. QED
  BY <1>8, <1>9, <1>10 DEF Dispatch

(* claim() asks for the selection only while is_owner is not set. *)
LEMMA ClaimStep ==
    ASSUME ClipInv, NEW k \in Copies, Claim(k), UNCHANGED <<clipboard, made, events>>,
           reading' = NotReading, reading.answer # "asked"
    PROVE  /\ requests' \in Seq(RequestType) /\ isOwner' \in BOOLEAN
           /\ held' = k /\ held' # NoCopy
           /\ ReadingKept'
           /\ OneToken(requests, clipboard, events, isOwner)'
           /\ NewsInOrder(events, isOwner, made)'
<1> USE DEF ClipInv
<1> DEFINE r == Request("set_selection", NoCopy)
<1>1. r \in RequestType /\ r.kind = "set_selection"
  BY DEF Request, RequestType
<1>2. /\ requests \in Seq(RequestType) /\ held' = k /\ held' # NoCopy
      /\ ~Holds(requests, "receive")
  BY ClipTypes, NothingAsked DEF Claim
<1>3. CASE isOwner
  <2>1. UNCHANGED <<requests, isOwner>>
    BY <1>3 DEF Claim
  <2>2. ReadingKept'
    BY <1>2, <2>1 DEF ReadingKept, Holds
  <2>. QED
    BY <1>2, <1>3, <2>1, <2>2
<1>4. CASE ~isOwner
  <2>1. requests' = Append(requests, r) /\ isOwner' = TRUE
    BY <1>4 DEF Claim
  <2> HIDE DEF r
  <2>2. /\ ~Holds(requests, "set_selection") /\ clipboard # Kumclip
        /\ ~Holds(events, "cancelled") /\ AtMost1(events, "cancelled")
        /\ AtMost1(requests, "set_selection")
    BY <1>4 DEF OneToken
  <2>3. /\ requests' \in Seq(RequestType)
        /\ Holds(requests', "set_selection") /\ AtMost1(requests', "set_selection")
    BY <1>1, <1>2, <2>1, <2>2, AppendHolds
  <2>4. ~Holds(requests', "receive") /\ AtMost1(requests', "receive")
    BY <1>1, <1>2, <2>1, AppendHolds DEF ReadingKept
  <2>5. ReadingKept'
    BY <2>4 DEF ReadingKept, Holds
  <2>6. OneToken(requests', clipboard, events, TRUE)
    BY <2>2, <2>3 DEF OneToken
  <2>7. NewsInOrder(events, TRUE, made)
    BY <1>4 DEF NewsInOrder
  <2>. QED
    BY <1>2, <2>1, <2>3, <2>5, <2>6, <2>7
<1>. QED
  BY <1>3, <1>4

LEMMA ReadReturnsStep ==
    ASSUME ClipInv, ReadReturns
    PROVE  ClipInv'
<1> USE DEF ClipInv
<1>1. /\ reading.answer \in {"data", "eof"} /\ reading.answer # "asked"
      /\ UNCHANGED <<clipboard, apps, events>>
  BY DEF ReadReturns
<1>2. reading.of \in made /\ reading.of \in Copies
  BY <1>1 DEF ReadingKept, KumClipTypeOK, NotReading
<1>3. CASE reading.answer = "eof" /\ reading.left > 0
  <2>1. /\ Ask(reading.of) /\ UNCHANGED <<isOwner, held>>
        /\ reading' = [reading EXCEPT !.left = @ - 1, !.answer = "asked"]
    BY <1>3 DEF ReadReturns
  <2>2. reading'.of = reading.of /\ reading'.answer = "asked"
    BY <2>1 DEF KumClipTypeOK
  <2>3. /\ requests' \in Seq(RequestType) /\ ReadingKept'
        /\ OneToken(requests, clipboard, events, isOwner)'
    BY <1>1, <1>2, <2>1, <2>2, AskStep DEF apps
  <2>4. reading.left - 1 \in 0 .. Flavours
    BY <1>3, KumClipAssumption DEF KumClipTypeOK
  <2>5. KumClipTypeOK'
    BY <1>1, <2>1, <2>3, <2>4 DEF apps, KumClipTypeOK, RequestType
  <2>. QED
    BY <1>1, <2>1, <2>3, <2>5 DEF apps
<1>4. CASE ~(reading.answer = "eof" /\ reading.left > 0) /\ reading.answer = "data"
  <2>1. Claim(reading.of) /\ reading' = NotReading
    BY <1>4 DEF ReadReturns
  <2>2. /\ requests' \in Seq(RequestType) /\ isOwner' \in BOOLEAN
        /\ held' = reading.of /\ held' # NoCopy
        /\ ReadingKept'
        /\ OneToken(requests, clipboard, events, isOwner)'
        /\ NewsInOrder(events, isOwner, made)'
    BY <1>1, <1>2, <2>1, ClaimStep DEF apps
  <2>3. 0 \in 0 .. Flavours
    BY KumClipAssumption
  <2>4. KumClipTypeOK'
    BY <1>1, <1>2, <2>1, <2>2, <2>3 DEF apps, KumClipTypeOK, RequestType, NotReading
  <2>. QED
    BY <1>1, <2>2, <2>4 DEF apps
<1>5. CASE ~(reading.answer = "eof" /\ reading.left > 0) /\ reading.answer # "data"
  <2>1. UNCHANGED <<requests, isOwner, held>> /\ reading' = NotReading
    BY <1>5 DEF ReadReturns
  <2>2. ~Holds(requests, "receive")
    BY <1>1, NothingAsked
  <2>3. ReadingKept'
    BY <2>1, <2>2 DEF ReadingKept, Holds
  <2>4. 0 \in 0 .. Flavours
    BY KumClipAssumption
  <2>5. KumClipTypeOK'
    BY <1>1, <2>1, <2>4 DEF apps, KumClipTypeOK, NotReading
  <2>. QED
    BY <1>1, <2>1, <2>3, <2>5 DEF apps
<1>. QED
  BY <1>3, <1>4, <1>5
-----------------------------------------------------------------------------
LEMMA ClipStep == ClipInv /\ [KumClipNext]_clipVars => ClipInv'
<1>. SUFFICES ASSUME ClipInv, [KumClipNext]_clipVars
     PROVE  ClipInv'
  OBVIOUS
<1>1. CASE UNCHANGED clipVars
  BY <1>1 DEF clipVars, ClipInv, KumClipTypeOK, ReadingKept
<1>2. CASE KumClipNext
  <2>1. ASSUME NEW k \in Copies, Copy(k)
        PROVE  ClipInv'
    BY <2>1, CopyStep
  <2>2. ASSUME NEW k \in Copies, Quit(k)
        PROVE  ClipInv'
    BY <2>2, QuitStep
  <2>. QED
    BY <1>2, <2>1, <2>2, AnswerStep, TakeRequestStep, DispatchStep,
       ReadReturnsStep DEF KumClipNext, Applications
<1>. QED
  BY <1>1, <1>2

(* What keeps kumclip's guess of the compositor right, for any copies: the *)
(* selection it was given, the request for it or the event that ends it is *)
(* one thing that travels, and is_owner says that there is one.            *)
THEOREM ClipKept == KumClipSpec => []ClipInv
<1>1. KumClipInit => ClipInv
  BY ClipStart
<1>2. ClipInv /\ [KumClipNext]_clipVars => ClipInv'
  BY ClipStep
<1>. QED
  BY <1>1, <1>2, PTL DEF KumClipSpec

(* The variables of kumclip keep their types: clip_read() never asks under *)
(* more names than there are.                                              *)
THEOREM ClipTypeCorrect == KumClipSpec => []KumClipTypeOK
<1>1. ClipInv => KumClipTypeOK
  BY DEF ClipInv
<1>. QED
  BY <1>1, ClipKept, PTL

(* main.c:93 and main.c:118: with nothing on its way is_owner is set       *)
(* exactly when the compositor's selection is kumclip's, and there is      *)
(* content to send behind the selection it owns.                           *)
THEOREM OwnershipRight == KumClipSpec => []OwnershipAgrees
<1>1. ClipInv => OwnershipAgrees
  <2>. SUFFICES ASSUME ClipInv
       PROVE  OwnershipAgrees
    OBVIOUS
  <2>1. isOwner <=> \/ Holds(requests, "set_selection")
                    \/ clipboard = Kumclip
                    \/ Holds(events, "cancelled")
    BY DEF ClipInv, OneToken
  <2>2. Settled => ~Holds(requests, "set_selection") /\ ~Holds(events, "cancelled")
    BY OneHolds DEF Settled
  <2>3. isOwner => held # NoCopy
    BY DEF ClipInv
  <2>. QED
    BY <2>1, <2>2, <2>3 DEF OwnershipAgrees
<1>. QED
  BY <1>1, ClipKept, PTL

(* main.c:152: dd_selection() only ever reads what an application copied,  *)
(* and so never waits for its own source_send().                           *)
THEOREM OwnSelectionUnread == KumClipSpec => []NeverReadsItself
<1>1. ClipInv => NeverReadsItself
  BY DEF ClipInv, ReadingKept, NeverReadsItself, NotReading
<1>. QED
  BY <1>1, ClipKept, PTL
=============================================================================

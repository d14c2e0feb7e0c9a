---------------------------- MODULE NotifyProofs ----------------------------
(***************************************************************************)
(* Theorems about KumNotify.tla, for any messages, slots, times and bounds: *)
(* notifications neither overlap nor leave a gap, a click dismisses the    *)
(* notification it was made on and no other, and a notification that       *)
(* leaves does so for a reason.                                            *)
(***************************************************************************)
EXTENDS KumNotify, ListLemmas, FiniteSetTheorems

Note      == [id : Nat, left : Int, configured : BOOLEAN, top : Nat]
EventType == [kind : {"enter", "leave", "button", "configure", "closed"}, note : Nat]
Moves     == {"enter", "leave"}

(* The slots of ns that are taken, and the ids that take them. *)
Live(ns)  == {i \in Places : ns[i].id # 0}
Names(ns) == {ns[i].id : i \in Live(ns)}

(* The slots of ns hold ids already given, each in one slot, and the loop  *)
(* is not later for any than it may be.                                    *)
Apart(ns, given) ==
    /\ ns \in [Places -> Note]
    /\ \A i \in Places : ns[i].id <= given /\ ns[i].left >= -MaxLate
    /\ \A i, j \in Places : ns[i].id # 0 /\ ns[i].id = ns[j].id => i = j

(* Where restack() puts a notification: above those in the slots after it. *)
Above(ns, i) == Cardinality({j \in Places : j > i /\ ns[j].id # 0})
Placed(ns)   == \A i \in Places : ns[i].id # 0 => ns[i].top = Above(ns, i)

(* kumnotify, whose notifications are act and whose pointer is p, takes    *)
(* notification n to be under the pointer once it has handled the first k  *)
(* events of e: they end in the pointer's entering n, or do not move it.   *)
(* It may be wrong about a notification that it has destroyed.             *)
Feels(e, k, n, act, p) ==
    \/ \E i \in 1 .. k : /\ e[i].kind = "enter" /\ e[i].note = n
                         /\ \A j \in 1 .. k : i < j => e[j].kind \notin Moves
    \/ /\ \A j \in 1 .. k : e[j].kind \notin Moves
       /\ n \in act => p = n

(* Every button event finds the pointer on the notification it is about,   *)
(* and so will the next one, on the notification o the pointer is on.      *)
Stream(e, o, act, p) ==
    /\ \A k \in 1 .. Len(e) :
          e[k].kind = "button" => Feels(e, k - 1, e[k].note, act, p)
    /\ o # 0 => Feels(e, Len(e), o, act, p)

(* No notification later than the last one given is heard of: the ones the *)
(* compositor knows, and those its events are about, have been shown.      *)
Heard(e, o, shown, given) ==
    /\ o <= given
    /\ \A n \in Ids : shown[n] # "none" => n <= given
    /\ \A k \in 1 .. Len(e) : e[k].note <= given

(* The variables that the others are read through have their types, and no *)
(* more messages are shown or waiting than were sent.                      *)
LoopTypes ==
    /\ nextId \in Nat /\ pointer \in Nat /\ over \in Nat /\ batch \in Nat
    /\ sent \in 0 .. MaxSent /\ inbox \in Seq(Messages) /\ events \in Seq(EventType)
    /\ screen \in [Ids -> {"none", "asked", "mapped", "closed"}]
    /\ nextId + Len(inbox) <= sent
    /\ batch <= Len(events)
    /\ loop # "dispatch" => batch = 0
    /\ readable /\ loop = "dispatch" => inbox # << >>

NotifyInv ==
    /\ Apart(notifs, nextId)
    /\ Placed(notifs)
    /\ LoopTypes
    /\ Heard(events, over, screen, nextId)
    /\ Stream(events, over, Active, pointer)
-----------------------------------------------------------------------------
LEMMA PlacesFinite ==
    /\ IsFiniteSet(Places) /\ Places \subseteq Nat
    /\ \A S \in SUBSET Places : IsFiniteSet(S) /\ Cardinality(S) \in Nat
<1>1. 0 \in Int /\ Slots - 1 \in Int
  BY NotifyAssumption
<1>2. IsFiniteSet(Places)
  BY <1>1, FS_Interval DEF Places
<1>3. Places \subseteq Nat
  BY NotifyAssumption DEF Places
<1>. QED
  BY <1>2, <1>3, FS_Subset, FS_CardinalityType

LEMMA ActiveNames == Shown = Live(notifs) /\ Active = Names(notifs)
BY DEF Shown, Active, Live, Names

(* restack() changes where a notification is and nothing else of it. *)
LEMMA RestackFacts ==
    ASSUME NEW ns, NEW g \in Nat, Apart(ns, g)
    PROVE  /\ Apart(Restack(ns), g) /\ Placed(Restack(ns))
           /\ \A i \in Places : /\ Restack(ns)[i].id = ns[i].id
                                /\ Restack(ns)[i].left = ns[i].left
           /\ Live(Restack(ns)) = Live(ns) /\ Names(Restack(ns)) = Names(ns)
<1> DEFINE rs == Restack(ns)
<1>1. \A i \in Places : Above(ns, i) \in Nat
  BY PlacesFinite DEF Above
<1>2. \A i \in Places : /\ ns[i].id = 0 => rs[i] = ns[i]
                        /\ ns[i].id # 0 => rs[i] = [ns[i] EXCEPT !.top = Above(ns, i)]
  BY DEF Restack, Above
<1>3. DOMAIN rs = Places /\ rs = [i \in Places |-> rs[i]]
  BY DEF Restack
<1> HIDE DEF rs
<1>4. \A i \in Places : /\ rs[i] \in Note /\ rs[i].id = ns[i].id /\ rs[i].left = ns[i].left
                        /\ ns[i].id # 0 => rs[i].top = Above(ns, i)
  BY ZenonT(60), <1>1, <1>2 DEF Apart, Note
<1>5. \A i \in Places : Above(rs, i) = Above(ns, i)
  <2>. SUFFICES ASSUME NEW i \in Places
       PROVE  Above(rs, i) = Above(ns, i)
    OBVIOUS
  <2>1. {j \in Places : j > i /\ rs[j].id # 0} = {j \in Places : j > i /\ ns[j].id # 0}
    BY <1>4
  <2>. QED
    BY <2>1 DEF Above
<1>6. rs \in [Places -> Note]
  BY <1>3, <1>4
<1>7. Apart(rs, g)
  BY <1>4, <1>6 DEF Apart
<1>8. Placed(rs)
  BY <1>4, <1>5 DEF Placed
<1>9. Live(rs) = Live(ns)
  BY <1>4 DEF Live
<1>10. Names(rs) = Names(ns)
  BY <1>4, <1>9 DEF Names, Live
<1>. QED
  BY <1>4, <1>7, <1>8, <1>9, <1>10 DEF rs

LEMMA DismissFacts ==
    ASSUME NEW ns, NEW g \in Nat, Apart(ns, g), NEW i \in Places
    PROVE  /\ Apart(Dismissed(ns, i), g) /\ Placed(Dismissed(ns, i))
           /\ Dismissed(ns, i)[i].id = 0
           /\ \A j \in Places \ {i} : /\ Dismissed(ns, i)[j].id = ns[j].id
                                      /\ Dismissed(ns, i)[j].left = ns[j].left
           /\ ns[i].id # 0 => Names(Dismissed(ns, i)) = Names(ns) \ {ns[i].id}
           /\ Names(Dismissed(ns, i)) \subseteq Names(ns)
<1> DEFINE ks == [ns EXCEPT ![i] = Empty]
<1>1. Empty \in Note /\ Empty.id = 0 /\ Empty.left = 0 /\ 0 >= -MaxLate
  BY NotifyAssumption DEF Empty, Note
<1>2. /\ ks \in [Places -> Note] /\ ks[i] = Empty
      /\ \A j \in Places \ {i} : ks[j] = ns[j]
  BY <1>1 DEF Apart
<1> HIDE DEF ks
<1>3. Apart(ks, g)
  BY <1>1, <1>2 DEF Apart, Note
<1>4. Dismissed(ns, i) = Restack(ks)
  BY DEF Dismissed, ks
<1>5. Live(ks) = Live(ns) \ {i}
  BY <1>1, <1>2 DEF Live
<1>6. Names(ks) \subseteq Names(ns)
  <2>1. \A j \in Live(ks) : j \in Live(ns) /\ ks[j] = ns[j]
    BY <1>2, <1>5 DEF Live
  <2>. QED
    BY <2>1 DEF Names
<1>7. ns[i].id # 0 => Names(ks) = Names(ns) \ {ns[i].id}
  <2>. SUFFICES ASSUME ns[i].id # 0
       PROVE  Names(ks) = Names(ns) \ {ns[i].id}
    OBVIOUS
  <2>1. \A j \in Live(ks) : ks[j].id = ns[j].id /\ ns[j].id # ns[i].id
    BY <1>2, <1>5 DEF Apart, Live
  <2>2. \A j \in Live(ns) : ns[j].id # ns[i].id => j \in Live(ks)
    BY <1>5
  <2>. QED
    BY <1>6, <2>1, <2>2 DEF Names
<1>8. /\ Apart(Restack(ks), g) /\ Placed(Restack(ks)) /\ Names(Restack(ks)) = Names(ks)
      /\ \A j \in Places : /\ Restack(ks)[j].id = ks[j].id
                           /\ Restack(ks)[j].left = ks[j].left
  BY <1>3, RestackFacts
<1>. QED
  BY <1>1, <1>2, <1>4, <1>6, <1>7, <1>8

(* A slot is given to a notification of a new id. *)
LEMMA PutFacts ==
    ASSUME NEW ns, NEW g \in Nat, Apart(ns, g), NEW i \in Places, ns[i].id = 0,
           NEW ks \in [Places -> Note], ks[i].id = g + 1, ks[i].left >= -MaxLate,
           \A j \in Places \ {i} : ks[j] = ns[j]
    PROVE  Apart(ks, g + 1) /\ Names(ks) = Names(ns) \cup {g + 1}
<1>2. \A j \in Places : ns[j].id \in Nat /\ ns[j].id <= g /\ ns[j].id # g + 1
  BY DEF Apart, Note
<1>3. \A j \in Places : ks[j].id <= g + 1 /\ ks[j].left >= -MaxLate
  BY <1>2 DEF Apart
<1>4. \A j, k \in Places : ks[j].id # 0 /\ ks[j].id = ks[k].id => j = k
  BY <1>2 DEF Apart
<1>5. Live(ks) = Live(ns) \cup {i} /\ i \notin Live(ns)
  BY DEF Live
<1>6. Names(ks) = Names(ns) \cup {g + 1}
  BY <1>5 DEF Names, Live
<1>. QED
  BY <1>3, <1>4, <1>6 DEF Apart

LEMMA LeastFacts ==
    ASSUME NEW S \in SUBSET Nat, S # {}
    PROVE  Least(S) \in S
BY LeastNatural DEF Least

(* One of the slots has the least time left: show() finds one to empty. *)
LEMMA OldestFacts ==
    ASSUME NEW ns, NEW g \in Nat, Apart(ns, g)
    PROVE  Oldest(ns) \in Places /\ \A j \in Places : ns[Oldest(ns)].left <= ns[j].left
<1> DEFINE T == {ns[i].left + MaxLate : i \in Places}
<1>1. \A i \in Places : ns[i].left \in Int /\ ns[i].left + MaxLate \in Nat
  BY NotifyAssumption DEF Apart, Note
<1>2. 0 \in Places
  BY NotifyAssumption DEF Places
<1>3. T \in SUBSET Nat /\ T # {}
  BY <1>1, <1>2
<1>4. PICK m \in T : \A k \in T : m <= k
  BY <1>3, LeastNatural
<1>5. PICK i \in Places : m = ns[i].left + MaxLate
  BY <1>4
<1>6. ASSUME NEW j \in Places
      PROVE  ns[i].left <= ns[j].left
  <2>1. m <= ns[j].left + MaxLate
    BY <1>4
  <2>. QED
    BY <1>1, <1>5, <2>1, NotifyAssumption
<1> DEFINE O == {k \in Places : \A j \in Places : ns[k].left <= ns[j].left}
<1>7. O \in SUBSET Nat /\ O # {}
  <2>1. i \in O
    BY <1>6
  <2>2. O \in SUBSET Places
    OBVIOUS
  <2>. QED
    BY <2>1, <2>2, PlacesFinite
<1>8. Least(O) \in O
  BY <1>7, LeastFacts
<1>. QED
  BY <1>8 DEF Oldest

LEMMA PlaceFacts ==
    ASSUME NEW n \in Active
    PROVE  Place(n) \in Places /\ notifs[Place(n)].id = n /\ n # 0
<1>1. \E i \in Places : notifs[i].id = n
  BY DEF Active, Shown
<1>. QED
  BY <1>1 DEF Place, Active, Shown
-----------------------------------------------------------------------------
(* What kumnotify feels is the same while no notification that was gone is *)
(* back, and the pointer stays on the one it is on, as long as it is there. *)
LEMMA FeelsOn ==
    ASSUME NEW e, NEW k, NEW n, NEW act, NEW act2, NEW p, NEW p2,
           Feels(e, k, n, act, p),
           n \in act2 => n \in act /\ (p = n => p2 = n)
    PROVE  Feels(e, k, n, act2, p2)
BY DEF Feels

LEMMA FeelsSame ==
    ASSUME NEW e, NEW f, NEW k, NEW n, NEW act, NEW p, Feels(e, k, n, act, p),
           \A i \in 1 .. k : f[i] = e[i]
    PROVE  Feels(f, k, n, act, p)
BY DEF Feels

(* One event more, which is not a move. *)
LEMMA FeelsMore ==
    ASSUME NEW e, NEW k \in Nat, NEW n, NEW act, NEW p, Feels(e, k, n, act, p),
           e[k + 1].kind \notin Moves
    PROVE  Feels(e, k + 1, n, act, p)
<1>1. \A j \in 1 .. k + 1 : j \in 1 .. k \/ j = k + 1
  OBVIOUS
<1>2. CASE \E i \in 1 .. k : /\ e[i].kind = "enter" /\ e[i].note = n
                             /\ \A j \in 1 .. k : i < j => e[j].kind \notin Moves
  <2>1. PICK i \in 1 .. k : /\ e[i].kind = "enter" /\ e[i].note = n
                            /\ \A j \in 1 .. k : i < j => e[j].kind \notin Moves
    BY <1>2
  <2>2. i \in 1 .. k + 1 /\ \A j \in 1 .. k + 1 : i < j => e[j].kind \notin Moves
    BY <1>1, <2>1
  <2>. QED
    BY <2>1, <2>2 DEF Feels
<1>3. CASE (\A j \in 1 .. k : e[j].kind \notin Moves) /\ (n \in act => p = n)
  <2>1. \A j \in 1 .. k + 1 : e[j].kind \notin Moves
    BY <1>1, <1>3
  <2>. QED
    BY <1>3, <2>1 DEF Feels
<1>. QED
  BY <1>2, <1>3 DEF Feels

(* One event fewer: what was felt of the events is felt of the others once *)
(* the first has been handled.                                             *)
LEMMA FeelsTail ==
    ASSUME NEW e \in Seq(EventType), NEW k \in 1 .. Len(e), NEW n, NEW act, NEW act2,
           NEW p, NEW p2, Feels(e, k, n, act, p),
           \/ e[1].kind \notin Moves /\ (n \in act2 => n \in act /\ (p = n => p2 = n))
           \/ e[1].kind = "enter" /\ (e[1].note = n /\ n \in act2 => p2 = n)
           \/ e[1].kind = "leave"
    PROVE  Feels(Tail(e), k - 1, n, act2, p2)
<1> DEFINE t == Tail(e)
<1>1. Len(e) \in Nat /\ e # << >>
  BY LenProperties, EmptySeq
<1>2. Len(t) = Len(e) - 1 /\ \A i \in 1 .. Len(t) : t[i] = e[i + 1]
  BY <1>1, HeadTailProperties
<1> HIDE DEF t
<1>3. /\ \A j \in 1 .. k - 1 : j + 1 \in 1 .. k /\ t[j] = e[j + 1]
      /\ \A i, j \in 1 .. k - 1 : i < j => i + 1 < j + 1
      /\ \A i \in 1 .. k : i # 1 => i - 1 \in 1 .. k - 1 /\ (i - 1) + 1 = i /\ 1 < i
      /\ 1 \in 1 .. k
  BY <1>1, <1>2
<1>4. CASE \E i \in 1 .. k : /\ e[i].kind = "enter" /\ e[i].note = n
                             /\ \A j \in 1 .. k : i < j => e[j].kind \notin Moves
  <2>1. PICK i \in 1 .. k : /\ e[i].kind = "enter" /\ e[i].note = n
                            /\ \A j \in 1 .. k : i < j => e[j].kind \notin Moves
    BY <1>4
  <2>2. CASE i = 1
    <3>1. \A j \in 1 .. k - 1 : t[j].kind \notin Moves
      <4>1. \A j \in 1 .. k - 1 : 1 < j + 1
        OBVIOUS
      <4>. QED
        BY <1>3, <2>1, <2>2, <4>1
    <3>2. n \in act2 => p2 = n
      BY <2>1, <2>2 DEF Moves
    <3>. QED
      BY <3>1, <3>2 DEF Feels, t
  <2>3. CASE i # 1
    <3>1. /\ i - 1 \in 1 .. k - 1 /\ t[i - 1].kind = "enter" /\ t[i - 1].note = n
      BY <1>3, <2>1, <2>3
    <3>2. \A j \in 1 .. k - 1 : i - 1 < j => i < j + 1
      BY <2>1
    <3>3. \A j \in 1 .. k - 1 : i - 1 < j => t[j].kind \notin Moves
      BY <1>3, <2>1, <3>2
    <3>. QED
      BY <3>1, <3>3 DEF Feels, t
  <2>. QED
    BY <2>2, <2>3
<1>5. CASE (\A j \in 1 .. k : e[j].kind \notin Moves) /\ (n \in act => p = n)
  <2>1. e[1].kind \notin Moves /\ (n \in act2 => p2 = n)
    BY <1>3, <1>5 DEF Moves
  <2>2. \A j \in 1 .. k - 1 : t[j].kind \notin Moves
    BY <1>3, <1>5
  <2>. QED
    BY <2>1, <2>2 DEF Feels, t
<1>. QED
  BY <1>4, <1>5 DEF Feels

(* The notifications change, and the events do not. *)
LEMMA StreamOn ==
    ASSUME NEW e \in Seq(EventType), NEW o, NEW act, NEW act2, NEW p, NEW p2, NEW g,
           Stream(e, o, act, p), o <= g, \A k \in 1 .. Len(e) : e[k].note <= g,
           \A n \in act2 : n <= g => n \in act /\ (p = n => p2 = n)
    PROVE  Stream(e, o, act2, p2)
<1>1. ASSUME NEW k \in 1 .. Len(e), e[k].kind = "button"
      PROVE  Feels(e, k - 1, e[k].note, act2, p2)
  BY <1>1, FeelsOn DEF Stream
<1>2. ASSUME o # 0
      PROVE  Feels(e, Len(e), o, act2, p2)
  BY <1>2, FeelsOn DEF Stream
<1>. QED
  BY <1>1, <1>2 DEF Stream

(* The compositor sends one event more. *)
LEMMA StreamMore ==
    ASSUME NEW e \in Seq(EventType), NEW x \in EventType, NEW o, NEW o2, NEW act, NEW p,
           Stream(e, o, act, p),
           x.kind = "button" => o # 0 /\ x.note = o,
           o2 # 0 => \/ x.kind = "enter" /\ x.note = o2
                     \/ x.kind \notin Moves /\ o2 = o
    PROVE  Stream(Append(e, x), o2, act, p)
<1> DEFINE f == Append(e, x)
<1>1. /\ Len(e) \in Nat /\ Len(f) = Len(e) + 1 /\ f[Len(e) + 1] = x
      /\ \A i \in 1 .. Len(e) : f[i] = e[i]
  BY AppendProperties, LenProperties
<1> HIDE DEF f
<1>2. \A i \in 1 .. Len(f) : i = Len(e) + 1 \/ i \in 1 .. Len(e)
  BY <1>1
<1>3. ASSUME NEW k \in 1 .. Len(f), f[k].kind = "button"
      PROVE  Feels(f, k - 1, f[k].note, act, p)
  <2>1. CASE k \in 1 .. Len(e)
    <3>1. Feels(e, k - 1, e[k].note, act, p) /\ f[k] = e[k]
      BY <1>1, <1>3, <2>1 DEF Stream
    <3>2. \A i \in 1 .. k - 1 : f[i] = e[i]
      BY <1>1, <2>1
    <3>. QED
      BY <3>1, <3>2, FeelsSame
  <2>2. CASE k = Len(e) + 1
    <3>1. k - 1 = Len(e) /\ f[k].note = o /\ o # 0
      BY <1>1, <1>3, <2>2
    <3>2. Feels(e, Len(e), o, act, p)
      BY <3>1 DEF Stream
    <3>. QED
      BY <1>1, <3>1, <3>2, FeelsSame
  <2>. QED
    BY <1>2, <2>1, <2>2
<1>4. ASSUME o2 # 0
      PROVE  Feels(f, Len(f), o2, act, p)
  <2>1. CASE x.kind = "enter" /\ x.note = o2
    <3>1. /\ Len(f) \in 1 .. Len(f) /\ f[Len(f)] = x
          /\ \A j \in 1 .. Len(f) : ~(Len(f) < j)
      BY <1>1
    <3>. QED
      BY <2>1, <3>1 DEF Feels
  <2>2. CASE x.kind \notin Moves /\ o2 = o
    <3>1. Feels(f, Len(e), o, act, p)
      BY <1>1, <1>4, <2>2, FeelsSame DEF Stream
    <3>. QED
      BY <1>1, <2>2, <3>1, FeelsMore
  <2>. QED
    BY <1>4, <2>1, <2>2
<1>. QED
  BY <1>3, <1>4 DEF Stream, f

(* The compositor sends events which neither move nor press the pointer. *)
LEMMA StreamQuiet ==
    ASSUME NEW e \in Seq(EventType), NEW q \in Seq(EventType), NEW o, NEW act, NEW p,
           Stream(e, o, act, p),
           \A i \in 1 .. Len(q) : q[i].kind \notin Moves \cup {"button"}
    PROVE  Stream(e \o q, o, act, p)
<1> DEFINE f == e \o q
<1>1. /\ Len(e) \in Nat /\ Len(q) \in Nat /\ Len(f) = Len(e) + Len(q)
      /\ \A i \in 1 .. Len(f) : f[i] = IF i <= Len(e) THEN e[i] ELSE q[i - Len(e)]
  BY LenProperties, ConcatProperties
<1> HIDE DEF f
<1>2. /\ \A i \in 1 .. Len(e) : i \in 1 .. Len(f) /\ f[i] = e[i]
      /\ \A i \in 1 .. Len(f) : i \in 1 .. Len(e) \/
            (i - Len(e) \in 1 .. Len(q) /\ f[i] = q[i - Len(e)])
  BY <1>1
<1>3. \A i \in 1 .. Len(f) : i \in 1 .. Len(e) \/ f[i].kind \notin Moves \cup {"button"}
  BY <1>2
<1>4. ASSUME NEW k \in 1 .. Len(f), f[k].kind = "button"
      PROVE  Feels(f, k - 1, f[k].note, act, p)
  <2>1. k \in 1 .. Len(e) /\ f[k] = e[k]
    BY <1>2, <1>3, <1>4
  <2>2. Feels(e, k - 1, f[k].note, act, p)
    BY <1>4, <2>1 DEF Stream
  <2>3. \A i \in 1 .. k - 1 : f[i] = e[i]
    BY <1>1, <1>2, <2>1
  <2>. QED
    BY <2>2, <2>3, FeelsSame
<1>5. ASSUME o # 0
      PROVE  Feels(f, Len(f), o, act, p)
  <2>1. CASE \E i \in 1 .. Len(e) :
               /\ e[i].kind = "enter" /\ e[i].note = o
               /\ \A j \in 1 .. Len(e) : i < j => e[j].kind \notin Moves
    BY <1>2, <1>3, <2>1 DEF Feels
  <2>2. CASE (\A j \in 1 .. Len(e) : e[j].kind \notin Moves) /\ (o \in act => p = o)
    BY <1>2, <1>3, <2>2 DEF Feels
  <2>. QED
    BY <1>5, <2>1, <2>2 DEF Stream, Feels
<1>. QED
  BY <1>4, <1>5 DEF Stream, f

(* kumnotify has handled the first event. *)
LEMMA StreamTail ==
    ASSUME NEW e \in Seq(EventType), e # << >>, NEW o, NEW act, NEW act2, NEW p, NEW p2,
           NEW g, Stream(e, o, act, p), o <= g, \A k \in 1 .. Len(e) : e[k].note <= g,
           \/ /\ e[1].kind \notin Moves
              /\ \A n \in act2 : n <= g => n \in act /\ (p = n => p2 = n)
           \/ e[1].kind = "enter" /\ (e[1].note \in act2 => p2 = e[1].note)
           \/ e[1].kind = "leave"
    PROVE  Stream(Tail(e), o, act2, p2)
<1> DEFINE t == Tail(e)
<1>1. /\ Len(e) \in Nat \ {0} /\ Len(t) = Len(e) - 1
      /\ \A i \in 1 .. Len(t) : t[i] = e[i + 1]
  BY EmptySeq, LenProperties, HeadTailProperties
<1>2. ASSUME NEW k \in 1 .. Len(t), t[k].kind = "button"
      PROVE  Feels(t, k - 1, t[k].note, act2, p2)
  <2>1. /\ k + 1 \in 1 .. Len(e) /\ k \in 1 .. Len(e) /\ (k + 1) - 1 = k
        /\ t[k] = e[k + 1]
    BY <1>1, <1>2
  <2> HIDE DEF t
  <2>2. Feels(e, k, e[k + 1].note, act, p) /\ e[k + 1].note <= g
    BY <1>2, <2>1 DEF Stream
  <2>3. Feels(Tail(e), k - 1, e[k + 1].note, act2, p2)
    BY <2>1, <2>2, FeelsTail
  <2>. QED
    BY <2>1, <2>3 DEF t
<1>3. ASSUME o # 0
      PROVE  Feels(t, Len(t), o, act2, p2)
  <2>1. Len(e) \in 1 .. Len(e) /\ Len(t) = Len(e) - 1
    BY <1>1
  <2>2. Feels(Tail(e), Len(e) - 1, o, act2, p2)
    BY <1>3, <2>1, FeelsTail DEF Stream
  <2>. QED
    BY <2>1, <2>2
<1>. QED
  BY <1>2, <1>3 DEF Stream
-----------------------------------------------------------------------------
(* show(): the notification that is new, and the one that had to go.       *)
LEMMA ShowFacts ==
    ASSUME Apart(notifs, nextId), nextId \in Nat, pointer \in Nat,
           NEW m \in Messages, Show(m)
    PROVE  /\ Apart(notifs', nextId') /\ Placed(notifs') /\ nextId' = nextId + 1
           /\ pointer' \in Nat
           /\ \A n \in Active' : n <= nextId =>
                 n \in Active /\ (pointer = n => pointer' = n)
           /\ \A n \in Active \ Active' :
                 /\ Shown = Places
                 /\ \A i \in Places : notifs[Place(n)].left <= notifs[i].left
<1> DEFINE free == Places \ Shown
           kept == IF free = {} THEN Dismissed(notifs, Oldest(notifs)) ELSE notifs
           i    == IF free = {} THEN Oldest(notifs) ELSE Least(free)
           new  == [id |-> nextId + 1, left |-> TimeFor(m), configured |-> FALSE, top |-> 0]
           stale == pointer # 0 /\ \A j \in Places : kept[j].id # pointer
<1>1. /\ notifs' = Restack([kept EXCEPT ![i] = new])
      /\ nextId' = nextId + 1
      /\ pointer' \in {pointer} \cup (IF stale THEN {nextId + 1} ELSE {})
  BY DEF Show
<1>2. new \in Note /\ new.id = nextId + 1 /\ new.left >= -MaxLate
  <2>1. TimeFor(m) \in Int /\ TimeFor(m) > 0
    BY NotifyAssumption DEF TimeFor
  <2>. QED
    BY <2>1, NotifyAssumption DEF Note
<1>3. /\ Apart(kept, nextId) /\ i \in Places /\ kept[i].id = 0
      /\ Names(kept) \subseteq Active
      /\ \A n \in Active \ Names(kept) :
            /\ Shown = Places
            /\ \A j \in Places : notifs[Place(n)].left <= notifs[j].left
  <2>1. CASE free = {}
    <3> DEFINE o == Oldest(notifs)
    <3>1. kept = Dismissed(notifs, o) /\ i = o /\ Shown = Places
      BY <2>1 DEF Shown
    <3>2. o \in Places /\ \A j \in Places : notifs[o].left <= notifs[j].left
      BY OldestFacts
    <3> HIDE DEF o, kept, i
    <3>3. notifs[o].id # 0
      BY <3>1, <3>2 DEF Shown
    <3>4. /\ Apart(kept, nextId) /\ kept[i].id = 0
          /\ Names(kept) = Active \ {notifs[o].id}
      BY <3>1, <3>2, <3>3, DismissFacts, ActiveNames
    <3>5. ASSUME NEW n \in Active \ Names(kept)
          PROVE  Place(n) = o
      <4>1. n = notifs[o].id
        BY <3>4
      <4>2. Place(n) \in Places /\ notifs[Place(n)].id = n /\ n # 0
        BY PlaceFacts
      <4>. QED
        BY <3>2, <4>1, <4>2 DEF Apart
    <3>. QED
      BY <3>1, <3>2, <3>4, <3>5
  <2>2. CASE free # {}
    <3>1. kept = notifs /\ i = Least(free)
      BY <2>2
    <3>2. free \in SUBSET Nat
      BY PlacesFinite
    <3>3. Least(free) \in free
      BY <2>2, <3>2, LeastFacts
    <3>4. Least(free) \in Places /\ notifs[Least(free)].id = 0
      BY <3>3 DEF Shown
    <3> HIDE DEF kept, i, free
    <3>5. Names(kept) = Active
      BY <3>1, ActiveNames
    <3>. QED
      BY <3>1, <3>4, <3>5
  <2>. QED
    BY <2>1, <2>2
<1>4. stale => pointer # 0 /\ pointer \notin Names(kept)
  BY DEF Names, Live
<1>5. \A j \in Places : kept[j].id <= nextId
  BY <1>3 DEF Apart
<1> DEFINE ks == [kept EXCEPT ![i] = new]
<1> HIDE DEF kept, i, new, stale, free
<1>6. Apart(ks, nextId + 1) /\ Names(ks) = Names(kept) \cup {nextId + 1}
  <2>1. /\ ks \in [Places -> Note] /\ ks[i] = new
        /\ \A j \in Places \ {i} : ks[j] = kept[j]
    BY <1>2, <1>3 DEF Apart
  <2> HIDE DEF ks
  <2>2. ks[i].id = nextId + 1 /\ ks[i].left >= -MaxLate
    BY <1>2, <2>1
  <2>. QED
    BY <1>3, <2>1, <2>2, PutFacts
<1> HIDE DEF ks
<1>7. /\ Apart(notifs', nextId + 1) /\ Placed(notifs') /\ Names(notifs') = Names(ks)
  <2>1. notifs' = Restack(ks) /\ nextId + 1 \in Nat
    BY <1>1 DEF ks
  <2>2. /\ Apart(Restack(ks), nextId + 1) /\ Placed(Restack(ks))
        /\ Names(Restack(ks)) = Names(ks)
    BY <1>6, <2>1, RestackFacts
  <2>. QED
    BY <2>1, <2>2
<1>8. Active' = Names(kept) \cup {nextId + 1}
  BY <1>6, <1>7 DEF Active, Shown, Names, Live
<1>9. pointer' \in Nat
  BY <1>1
<1>10. ASSUME NEW n \in Active', n <= nextId
       PROVE  n \in Active /\ (pointer = n => pointer' = n)
  <2>1. n \in Names(kept)
    BY <1>8, <1>10
  <2>. QED
    BY <1>1, <1>3, <1>4, <2>1
<1>. QED
  BY <1>1, <1>3, <1>7, <1>8, <1>9, <1>10

(* Neither the id nor the place of a notification changes. *)
LEMMA SamePlaces ==
    ASSUME NEW ns, NEW g, Apart(ns, g), Placed(ns), NEW ks \in [Places -> Note],
           \A i \in Places : /\ ks[i].id = ns[i].id /\ ks[i].top = ns[i].top
                             /\ ks[i].left >= -MaxLate
    PROVE  Apart(ks, g) /\ Placed(ks) /\ Live(ks) = Live(ns) /\ Names(ks) = Names(ns)
<1>1. Apart(ks, g)
  BY DEF Apart
<1>2. \A i \in Places : Above(ks, i) = Above(ns, i)
  <2>. SUFFICES ASSUME NEW i \in Places
       PROVE  Above(ks, i) = Above(ns, i)
    OBVIOUS
  <2>1. {j \in Places : j > i /\ ks[j].id # 0} = {j \in Places : j > i /\ ns[j].id # 0}
    OBVIOUS
  <2>. QED
    BY <2>1 DEF Above
<1>3. Placed(ks)
  BY <1>2 DEF Placed
<1>4. Live(ks) = Live(ns)
  BY DEF Live
<1>5. Names(ks) = Names(ns)
  BY <1>4 DEF Names, Live
<1>. QED
  BY <1>1, <1>3, <1>4, <1>5

(* One event: which notifications it takes away, and what becomes of the   *)
(* pointer.                                                                *)
LEMMA DispatchFacts ==
    ASSUME NotifyInv, Dispatch
    PROVE  /\ Apart(notifs', nextId) /\ Placed(notifs') /\ pointer' \in Nat
           /\ Active' \subseteq Active
           /\ Head(events).kind = "button" /\ Head(events).note \in Active
                => Active' = Active \ {Head(events).note}
           /\ \A n \in Active \ Active' :
                 Head(events) = Event("closed", n) \/ Head(events).kind = "button"
           /\ \/ /\ Head(events).kind \notin Moves
                 /\ \A n \in Active' : pointer = n => pointer' = n
              \/ /\ Head(events).kind = "enter"
                 /\ Head(events).note \in Active' => pointer' = Head(events).note
              \/ Head(events).kind = "leave"
<1> DEFINE e == Head(events)
<1> USE DEF NotifyInv, LoopTypes
<1>1. events # << >> /\ batch > 0
  <2>1. batch > 0 /\ Len(events) # 0
    BY LenProperties DEF Dispatch
  <2>. QED
    BY <2>1, EmptySeq
<1>2. e = events[1] /\ e \in EventType /\ 1 \in 1 .. Len(events)
  BY <1>1, EmptySeq, HeadTailProperties, LenProperties
<1>3. /\ Active = Names(notifs) /\ Active' = Names(notifs')
      /\ \A n \in Active : Place(n) \in Places /\ notifs[Place(n)].id = n /\ n # 0
  BY ActiveNames, PlaceFacts DEF Active, Shown, Names, Live
<1>4. e.kind = "button" /\ e.note \in Active => pointer = e.note
  <2>. SUFFICES ASSUME e.kind = "button", e.note \in Active
       PROVE  pointer = e.note
    OBVIOUS
  <2>1. Feels(events, 0, e.note, Active, pointer)
    BY <1>2 DEF Stream
  <2>. QED
    BY <2>1 DEF Feels
<1>5. CASE UNCHANGED notifs
  <2>1. Active' = Active
    BY <1>3, <1>5
  <2>2. CASE e.kind = "enter" /\ Entered(e.note)
    BY <1>2, <1>5, <2>1, <2>2 DEF Entered, Moves, EventType
  <2>3. CASE e.kind = "leave" /\ Left
    BY <1>5, <2>1, <2>3 DEF Left, Moves
  <2>4. CASE e.kind = "button" /\ pointer \notin Active /\ UNCHANGED pointer
    BY <1>4, <1>5, <2>1, <2>4 DEF Moves
  <2>5. CASE e.kind \in {"configure", "closed"} /\ UNCHANGED pointer
    BY <1>5, <2>1, <2>5 DEF Moves
  <2>6. e.kind = "button" /\ Pressed => pointer \in Active \/ UNCHANGED pointer
    BY DEF Pressed
  <2>7. CASE e.kind = "button" /\ Pressed /\ pointer \in Active
    <3>1. notifs' = Dismissed(notifs, Place(pointer))
      BY <2>7 DEF Pressed
    <3>2. Names(notifs') = Active \ {pointer}
      BY <1>3, <2>7, <3>1, DismissFacts
    <3>. QED
      BY <1>3, <2>1, <2>7, <3>2
  <2>. QED
    BY <1>5, <2>2, <2>3, <2>4, <2>5, <2>6, <2>7 DEF Dispatch
<1>6. CASE e.kind = "button" /\ Pressed /\ pointer \in Active
  <2>1. notifs' = Dismissed(notifs, Place(pointer)) /\ pointer' = 0
    BY <1>6 DEF Pressed
  <2>2. /\ Apart(notifs', nextId) /\ Placed(notifs')
        /\ Names(notifs') = Active \ {pointer}
    BY <1>3, <1>6, <2>1, DismissFacts
  <2>. QED
    BY <1>3, <1>4, <1>6, <2>1, <2>2 DEF Moves
<1>7. CASE e.kind = "configure" /\ e.note \in Active /\ Configured(e.note) /\ UNCHANGED pointer
  <2>1. notifs' = [notifs EXCEPT ![Place(e.note)].configured = TRUE]
    BY <1>7 DEF Configured
  <2>2. /\ notifs' \in [Places -> Note]
        /\ \A i \in Places : /\ notifs'[i].id = notifs[i].id
                              /\ notifs'[i].top = notifs[i].top
                              /\ notifs'[i].left = notifs[i].left
    <3> DEFINE p == Place(e.note)
    <3>1. p \in Places
      BY <1>3, <1>7
    <3> HIDE DEF p
    <3>2. /\ notifs'[p] = [notifs[p] EXCEPT !.configured = TRUE]
          /\ \A i \in Places \ {p} : notifs'[i] = notifs[i]
          /\ DOMAIN notifs' = Places /\ notifs' = [i \in Places |-> notifs'[i]]
      BY <2>1, <3>1 DEF p, Apart
    <3>3. \A i \in Places : notifs[i] \in Note
      BY DEF Apart
    <3>4. /\ notifs'[p] \in Note /\ notifs'[p].id = notifs[p].id
          /\ notifs'[p].top = notifs[p].top /\ notifs'[p].left = notifs[p].left
      BY <3>1, <3>2, <3>3 DEF Note
    <3>5. \A i \in Places : notifs'[i] \in Note
      BY <3>2, <3>3, <3>4
    <3>. QED
      BY <3>2, <3>4, <3>5
  <2>3. \A i \in Places : notifs'[i].left >= -MaxLate
    BY <2>2 DEF Apart
  <2>4. Apart(notifs', nextId) /\ Placed(notifs') /\ Names(notifs') = Names(notifs)
    BY <2>2, <2>3, SamePlaces
  <2>. QED
    BY <1>3, <1>7, <2>4 DEF Moves
<1>8. CASE e.kind = "closed" /\ e.note \in Active /\ Closed(e.note) /\ UNCHANGED pointer
  <2>1. notifs' = Dismissed(notifs, Place(e.note))
    BY <1>8 DEF Closed
  <2>2. /\ Apart(notifs', nextId) /\ Placed(notifs')
        /\ Names(notifs') = Active \ {e.note}
    BY <1>3, <1>8, <2>1, DismissFacts
  <2>3. e = Event("closed", e.note)
    BY <1>2, <1>8 DEF Event, EventType
  <2>. QED
    BY <1>3, <1>8, <2>2, <2>3 DEF Moves
<1>. QED
  BY <1>5, <1>6, <1>7, <1>8 DEF Dispatch, Pressed, Left, Entered

(* The end of the loop takes away what has no time left, and no more. *)
LEMMA ExpireFacts ==
    ASSUME NotifyInv, Expire
    PROVE  /\ Apart(notifs', nextId) /\ Placed(notifs') /\ Active' \subseteq Active
           /\ \A n \in Active \ Active' : notifs[Place(n)].left <= 0
<1> DEFINE ns == [i \in Places |-> IF notifs[i].id # 0 /\ notifs[i].left <= 0
                                  THEN Empty ELSE notifs[i]]
<1>1. notifs' = Restack(ns)
  BY DEF Expire
<1>2. Empty \in Note /\ Empty.id = 0 /\ Empty.left = 0 /\ 0 >= -MaxLate
  BY NotifyAssumption DEF Empty, Note
<1>3. \A i \in Places : /\ ns[i] \in {Empty, notifs[i]}
                        /\ ns[i] # notifs[i] => notifs[i].left <= 0
  OBVIOUS
<1>4. ns \in [Places -> Note]
  BY <1>2 DEF NotifyInv, Apart
<1> HIDE DEF ns
<1>5. nextId \in Nat /\ Apart(notifs, nextId)
  BY DEF NotifyInv, LoopTypes
<1>6. Apart(ns, nextId)
  BY <1>2, <1>3, <1>4, <1>5 DEF Apart
<1>7. /\ Apart(notifs', nextId) /\ Placed(notifs') /\ Names(notifs') = Names(ns)
  <2>1. Apart(Restack(ns), nextId) /\ Placed(Restack(ns)) /\ Names(Restack(ns)) = Names(ns)
    BY <1>5, <1>6, RestackFacts
  <2>. QED
    BY <1>1, <2>1
<1>8. Active = Names(notifs) /\ Active' = Names(ns)
  BY <1>7, ActiveNames DEF Active, Shown, Names, Live
<1>9. Names(ns) \subseteq Names(notifs)
  <2>1. \A i \in Live(ns) : i \in Live(notifs) /\ ns[i] = notifs[i]
    BY <1>2, <1>3 DEF Live
  <2>. QED
    BY <2>1 DEF Names
<1>10. ASSUME NEW n \in Active \ Active'
       PROVE  notifs[Place(n)].left <= 0
  <2>1. Place(n) \in Places /\ notifs[Place(n)].id = n /\ n # 0
    BY PlaceFacts
  <2>2. ns[Place(n)] # notifs[Place(n)]
    BY <1>8, <1>10, <2>1 DEF Names, Live
  <2>. QED
    BY <1>3, <2>1, <2>2
<1>. QED
  BY <1>7, <1>8, <1>9, <1>10

LEMMA DispatchStep ==
    ASSUME NotifyInv, Dispatch
    PROVE  NotifyInv'
<1> USE DEF NotifyInv, LoopTypes
<1>1. events # << >> /\ batch > 0 /\ batch' = batch - 1 /\ events' = Tail(events)
  <2>1. batch > 0 /\ Len(events) # 0
    BY LenProperties DEF Dispatch
  <2>. QED
    BY <2>1, EmptySeq DEF Dispatch
<1>2. /\ UNCHANGED <<nextId, sent, inbox, loop, readable, screen, over>>
      /\ loop = "dispatch"
  BY DEF Dispatch, compositor
<1>3. /\ Head(events) = events[1] /\ Tail(events) \in Seq(EventType)
      /\ Len(events) \in Nat \ {0} /\ Len(Tail(events)) = Len(events) - 1
      /\ \A i \in 1 .. Len(Tail(events)) : Tail(events)[i] = events[i + 1]
  BY <1>1, EmptySeq, HeadTailProperties, LenProperties
<1>4. /\ Apart(notifs', nextId) /\ Placed(notifs') /\ pointer' \in Nat
      /\ Active' \subseteq Active
      /\ \/ /\ events[1].kind \notin Moves
            /\ \A n \in Active' : pointer = n => pointer' = n
         \/ events[1].kind = "enter" /\ (events[1].note \in Active' => pointer' = events[1].note)
         \/ events[1].kind = "leave"
  BY <1>3, DispatchFacts
<1>5. Heard(events', over, screen, nextId)
  <2>1. \A k \in 1 .. Len(Tail(events)) : k + 1 \in 1 .. Len(events)
    BY <1>3
  <2>. QED
    BY <1>1, <1>3, <2>1 DEF Heard
<1>6. Stream(Tail(events), over, Active', pointer')
  BY <1>1, <1>4, StreamTail DEF Heard
<1>7. LoopTypes'
  BY <1>1, <1>2, <1>3, <1>4
<1>. QED
  BY <1>1, <1>2, <1>4, <1>5, <1>6, <1>7

LEMMA ReceiveStep ==
    ASSUME NotifyInv, Receive
    PROVE  NotifyInv'
<1> USE DEF NotifyInv, LoopTypes
<1>1. /\ UNCHANGED <<sent, events, batch, readable, screen, over>>
      /\ loop = "dispatch" /\ loop' = "expire" /\ batch = 0
  BY DEF Receive, compositor
<1>2. CASE UNCHANGED <<notifs, nextId, pointer, inbox>>
  <2>1. Active' = Active
    BY <1>2 DEF Active, Shown
  <2>. QED
    BY <1>1, <1>2, <2>1
<1>3. CASE readable /\ inbox' = Tail(inbox)
  <2>1. inbox # << >>
    BY <1>1, <1>3
  <2>2. /\ Len(inbox) \in Nat \ {0} /\ Len(inbox') = Len(inbox) - 1
        /\ inbox' \in Seq(Messages) /\ Head(inbox) \in Messages
    BY <1>3, <2>1, EmptySeq, HeadTailProperties, LenProperties
  <2>3. CASE UNCHANGED <<notifs, nextId, pointer>>
    <3>1. Active' = Active
      BY <2>3 DEF Active, Shown
    <3>2. LoopTypes'
      BY <1>1, <2>2, <2>3
    <3>. QED
      BY <1>1, <2>3, <3>1, <3>2
  <2>4. CASE Show(Head(inbox))
    <3>1. /\ Apart(notifs', nextId') /\ Placed(notifs') /\ nextId' = nextId + 1
          /\ pointer' \in Nat
          /\ \A n \in Active' : n <= nextId => n \in Active /\ (pointer = n => pointer' = n)
      BY <2>2, <2>4, ShowFacts
    <3>2. LoopTypes'
      BY <1>1, <2>2, <3>1
    <3>3. /\ over <= nextId /\ \A k \in 1 .. Len(events) : events[k].note <= nextId
      BY DEF Heard
    <3>4. Stream(events, over, Active', pointer')
      BY <3>1, <3>3, StreamOn
    <3>5. Heard(events, over, screen, nextId + 1)
      <4>1. \A n \in Nat : n <= nextId => n <= nextId + 1
        OBVIOUS
      <4>2. \A n \in Ids : n \in Nat
        BY NotifyAssumption DEF Ids
      <4>3. \A k \in 1 .. Len(events) : events[k].note \in Nat
        <5>1. \A k \in 1 .. Len(events) : events[k] \in EventType
          BY ElementOfSeq
        <5>. QED
          BY <5>1 DEF EventType
      <4>. QED
        BY <4>1, <4>2, <4>3 DEF Heard
    <3>. QED
      BY <1>1, <3>1, <3>2, <3>4, <3>5
  <2>. QED
    BY <1>3, <2>3, <2>4 DEF Receive
<1>. QED
  BY <1>2, <1>3 DEF Receive

LEMMA ExpireStep ==
    ASSUME NotifyInv, Expire
    PROVE  NotifyInv'
<1> USE DEF NotifyInv, LoopTypes
<1>1. /\ UNCHANGED <<nextId, pointer, sent, inbox, events, batch, readable, screen, over>>
      /\ loop = "expire" /\ loop' = "poll"
  BY DEF Expire, compositor
<1>2. Apart(notifs', nextId) /\ Placed(notifs') /\ Active' \subseteq Active
  BY ExpireFacts
<1>3. Stream(events, over, Active', pointer)
  BY <1>2, StreamOn DEF Heard
<1>4. LoopTypes'
  BY <1>1
<1>. QED
  BY <1>1, <1>2, <1>3, <1>4

(* Time goes on for all alike. *)
LEMMA TickFacts ==
    ASSUME NotifyInv, Tick
    PROVE  Apart(notifs', nextId) /\ Placed(notifs') /\ Active' = Active
<1>1. \A i \in Places : notifs'[i] = IF notifs[i].id # 0
                                     THEN [notifs[i] EXCEPT !.left = @ - 1] ELSE notifs[i]
  BY DEF Tick, Shown
<1>2. notifs' = [i \in Places |-> notifs'[i]]
  BY DEF Tick
<1>3. \A i \in Places : /\ notifs[i] \in Note /\ notifs[i].left >= -MaxLate
                        /\ notifs[i].id # 0 => notifs[i].left > -MaxLate
  BY DEF NotifyInv, Apart, Tick, Shown
<1>4. ASSUME NEW i \in Places
      PROVE  /\ notifs'[i] \in Note
             /\ notifs'[i].id = notifs[i].id /\ notifs'[i].top = notifs[i].top
             /\ notifs'[i].left >= -MaxLate
  <2> DEFINE m == notifs[i]
  <2>1. m \in Note /\ m.left >= -MaxLate /\ (m.id # 0 => m.left > -MaxLate)
    BY <1>3
  <2>2. notifs'[i] = IF m.id # 0 THEN [m EXCEPT !.left = @ - 1] ELSE m
    BY <1>1
  <2> HIDE DEF m
  <2>3. m.left \in Int /\ m.left - 1 \in Int /\ (m.left > -MaxLate => m.left - 1 >= -MaxLate)
    BY <2>1, NotifyAssumption DEF Note
  <2>4. /\ notifs'[i] \in Note /\ notifs'[i].id = m.id /\ notifs'[i].top = m.top
        /\ notifs'[i].left >= -MaxLate
    <3>1. CASE m.id # 0
      <4>1. notifs'[i] = [m EXCEPT !.left = m.left - 1]
        BY <2>2, <3>1
      <4>2. /\ [m EXCEPT !.left = m.left - 1] \in Note
            /\ [m EXCEPT !.left = m.left - 1].id = m.id
            /\ [m EXCEPT !.left = m.left - 1].top = m.top
            /\ [m EXCEPT !.left = m.left - 1].left = m.left - 1
        BY <2>1, <2>3 DEF Note
      <4>. QED
        BY <2>1, <2>3, <3>1, <4>1, <4>2
    <3>2. CASE m.id = 0
      BY <2>1, <2>2, <3>2
    <3>. QED
      BY <3>1, <3>2
  <2>. QED
    BY <2>4 DEF m
<1>5. notifs' \in [Places -> Note]
  BY <1>2, <1>4
<1>6. Apart(notifs', nextId) /\ Placed(notifs') /\ Names(notifs') = Names(notifs)
  BY <1>4, <1>5, SamePlaces DEF NotifyInv
<1>. QED
  BY <1>6, ActiveNames DEF Active, Shown, Names, Live

(* What the compositor tells, whichever notification it is about. *)
LEMMA TellFacts ==
    ASSUME NotifyInv, NEW es \in Seq(EventType),
           \A i \in 1 .. Len(es) : es[i].note <= nextId, Tell(es)
    PROVE  /\ Apart(notifs', nextId') /\ Placed(notifs')
           /\ events' = events \o es /\ events' \in Seq(EventType)
           /\ batch' <= Len(events')
           /\ \A k \in 1 .. Len(events') : events'[k].note <= nextId
           /\ Active' = Active
           /\ UNCHANGED <<notifs, nextId, pointer, sent, inbox, loop, batch, readable>>
<1> USE DEF NotifyInv, LoopTypes
<1>1. /\ UNCHANGED <<notifs, nextId, pointer, sent, inbox, loop, batch, readable>>
      /\ events' = events \o es
  BY DEF Tell
<1>2. /\ events' \in Seq(EventType) /\ Len(events') = Len(events) + Len(es)
      /\ Len(events) \in Nat /\ Len(es) \in Nat
      /\ \A i \in 1 .. Len(events') :
            events'[i] = IF i <= Len(events) THEN events[i] ELSE es[i - Len(events)]
  BY <1>1, LenProperties, ConcatProperties
<1>3. ASSUME NEW k \in 1 .. Len(events')
      PROVE  events'[k].note <= nextId
  <2>1. \/ k \in 1 .. Len(events) /\ events'[k] = events[k]
        \/ k - Len(events) \in 1 .. Len(es) /\ events'[k] = es[k - Len(events)]
    BY <1>2
  <2>. QED
    BY <2>1 DEF Heard
<1>4. Active' = Active
  BY <1>1 DEF Active, Shown
<1>5. batch' <= Len(events')
  BY <1>1, <1>2
<1>. QED
  BY <1>1, <1>2, <1>3, <1>4, <1>5

(* The compositor tells one thing. *)
LEMMA TellOne ==
    ASSUME events \in Seq(EventType), NEW x \in EventType
    PROVE  /\ <<x>> \in Seq(EventType) /\ events \o <<x>> = Append(events, x)
           /\ \A i \in 1 .. Len(<<x>>) : <<x>>[i] = x
<1>1. events \o <<x>> = Append(events, x)
  BY AppendIsConcat
<1>2. Len(<<x>>) = 1 /\ <<x>>[1] = x /\ \A i \in 1 .. 1 : i = 1
  OBVIOUS
<1>. QED
  BY <1>1, <1>2

LEMMA CatchUpStep ==
    ASSUME NotifyInv, CatchUp
    PROVE  NotifyInv'
<1> DEFINE new == {n \in Active : screen[n] = "none"}
<1> USE DEF NotifyInv, LoopTypes
<1>1. /\ \A n \in Active : n \in Nat /\ n <= nextId
      /\ Active \subseteq 1 .. nextId
  BY PlaceFacts DEF Apart, Note, Active, Shown
<1>2. Cardinality(new) \in Nat
  <2>1. new \subseteq 1 .. nextId
    BY <1>1
  <2> HIDE DEF new
  <2>2. 1 \in Int /\ nextId \in Int
    OBVIOUS
  <2>3. IsFiniteSet(1 .. nextId)
    BY <2>2, FS_Interval
  <2>4. IsFiniteSet(new)
    BY <2>1, <2>3, FS_Subset
  <2>. QED
    BY <2>4, FS_CardinalityType
<1>3. PICK es \in Seq(EventType) :
         /\ Tell(es)
         /\ \A i \in 1 .. Len(es) : es[i].kind = "configure" /\ es[i].note \in new
  <2>1. CASE new = {} /\ Tell(<< >>)
    <3>1. << >> \in Seq(EventType) /\ \A i \in 1 .. Len(<< >>) : FALSE
      OBVIOUS
    <3>. QED
      BY <2>1, <3>1
  <2>2. CASE new # {}
    <3>1. PICK order \in [1 .. Cardinality(new) -> new] :
             Tell([i \in DOMAIN order |-> Event("configure", order[i])])
      BY <2>2 DEF CatchUp
    <3> DEFINE es == [i \in 1 .. Cardinality(new) |-> Event("configure", order[i])]
    <3>2. \A i \in 1 .. Cardinality(new) :
             /\ Event("configure", order[i]) \in EventType
             /\ Event("configure", order[i]).kind = "configure"
             /\ Event("configure", order[i]).note \in new
      BY <1>1 DEF Event, EventType
    <3>3. es \in Seq(EventType) /\ Len(es) = Cardinality(new)
      <4> DEFINE c == Cardinality(new)
      <4>1. c \in Nat /\ es \in [1 .. c -> EventType]
        BY <1>2, <3>2
      <4> HIDE DEF new, c, es
      <4>. QED
        BY <4>1 DEF c
    <3>4. Tell(es)
      BY <3>1
    <3>. QED
      BY <3>2, <3>3, <3>4
  <2>. QED
    BY <2>1, <2>2 DEF CatchUp
<1> HIDE DEF new
<1>4. \A i \in 1 .. Len(es) : es[i].note <= nextId /\ es[i].kind \notin Moves \cup {"button"}
  <2>1. \A n \in new : n <= nextId
    BY <1>1 DEF new
  <2>. QED
    BY <1>3, <2>1 DEF Moves
<1>5. /\ Apart(notifs', nextId') /\ Placed(notifs')
      /\ events' = events \o es /\ events' \in Seq(EventType)
      /\ batch' <= Len(events')
      /\ \A k \in 1 .. Len(events') : events'[k].note <= nextId
      /\ Active' = Active
      /\ UNCHANGED <<notifs, nextId, pointer, sent, inbox, loop, batch, readable>>
  BY <1>3, <1>4, TellFacts
<1>6. Stream(events', over, Active, pointer)
  BY <1>3, <1>4, <1>5, StreamQuiet
<1>7. over' \in {over, 0}
  BY DEF CatchUp
<1>8. Stream(events', over', Active, pointer)
  BY <1>6, <1>7 DEF Stream
<1>9. /\ screen' \in [Ids -> {"none", "asked", "mapped", "closed"}]
      /\ \A n \in Ids : screen'[n] # "none" => n \in Active
  BY DEF CatchUp
<1>10. Heard(events', over', screen', nextId)
  <2>1. over' <= nextId
    BY <1>7 DEF Heard
  <2>2. \A n \in Ids : screen'[n] # "none" => n <= nextId
    BY <1>1, <1>9
  <2>. QED
    BY <1>5, <2>1, <2>2 DEF Heard
<1>11. LoopTypes'
  BY <1>5, <1>7, <1>9 DEF CatchUp
<1>. QED
  BY <1>5, <1>8, <1>10, <1>11

LEMMA PressStep ==
    ASSUME NotifyInv, Press
    PROVE  NotifyInv'
<1> DEFINE x == Event("button", over)
<1> USE DEF NotifyInv, LoopTypes
<1>1. over # 0 /\ Tell(<<x>>) /\ UNCHANGED <<screen, over>>
  BY DEF Press, compositor
<1>2. x \in EventType /\ x.kind = "button" /\ x.note = over /\ over <= nextId
  BY DEF Event, EventType, Heard
<1> HIDE DEF x
<1>3. /\ <<x>> \in Seq(EventType) /\ events \o <<x>> = Append(events, x)
      /\ \A i \in 1 .. Len(<<x>>) : <<x>>[i].note <= nextId
  BY <1>2, TellOne
<1>4. /\ Apart(notifs', nextId') /\ Placed(notifs')
      /\ events' = Append(events, x) /\ events' \in Seq(EventType)
      /\ batch' <= Len(events')
      /\ \A k \in 1 .. Len(events') : events'[k].note <= nextId
      /\ Active' = Active
      /\ UNCHANGED <<notifs, nextId, pointer, sent, inbox, loop, batch, readable>>
  BY <1>1, <1>3, TellFacts
<1>5. Stream(events', over, Active, pointer)
  BY <1>1, <1>2, <1>4, StreamMore DEF Moves
<1>6. Heard(events', over, screen, nextId)
  BY <1>4 DEF Heard
<1>7. LoopTypes'
  BY <1>1, <1>4
<1>. QED
  BY <1>1, <1>4, <1>5, <1>6, <1>7

LEMMA CloseStep ==
    ASSUME NotifyInv, NEW n \in Ids, Close(n)
    PROVE  NotifyInv'
<1> DEFINE x == Event("closed", n)
<1> USE DEF NotifyInv, LoopTypes
<1>1. /\ Tell(<<x>>) /\ UNCHANGED over /\ screen[n] # "none"
      /\ screen' = [screen EXCEPT ![n] = "closed"]
  BY DEF Close
<1>2. n \in Nat /\ n <= nextId
  BY <1>1, NotifyAssumption DEF Heard, Ids
<1>3. x \in EventType /\ x.kind = "closed" /\ x.note = n
  BY <1>2 DEF Event, EventType
<1> HIDE DEF x
<1>4. /\ <<x>> \in Seq(EventType) /\ events \o <<x>> = Append(events, x)
      /\ \A i \in 1 .. Len(<<x>>) : <<x>>[i].note <= nextId
  BY <1>2, <1>3, TellOne
<1>5. /\ Apart(notifs', nextId') /\ Placed(notifs')
      /\ events' = Append(events, x) /\ events' \in Seq(EventType)
      /\ batch' <= Len(events')
      /\ \A k \in 1 .. Len(events') : events'[k].note <= nextId
      /\ Active' = Active
      /\ UNCHANGED <<notifs, nextId, pointer, sent, inbox, loop, batch, readable>>
  BY <1>1, <1>4, TellFacts
<1>6. Stream(events', over, Active, pointer)
  BY <1>3, <1>5, StreamMore DEF Moves
<1>7. Heard(events', over, screen', nextId)
  BY <1>1, <1>5 DEF Heard
<1>8. LoopTypes'
  BY <1>1, <1>5
<1>. QED
  BY <1>1, <1>5, <1>6, <1>7, <1>8

LEMMA PointerMovesStep ==
    ASSUME NotifyInv, NEW n \in Ids \cup {0}, PointerMoves(n)
    PROVE  NotifyInv'
<1> DEFINE x == Event("leave", over)
           y == Event("enter", n)
           a == IF over = 0 THEN << >> ELSE <<x>>
           b == IF n = 0 THEN << >> ELSE <<y>>
<1> USE DEF NotifyInv, LoopTypes
<1>1. /\ Tell(a \o b) /\ over' = n /\ UNCHANGED screen
      /\ n # 0 => screen[n] = "mapped"
  BY DEF PointerMoves
<1>2. n \in Nat /\ n <= nextId /\ over <= nextId
  BY <1>1, NotifyAssumption DEF Heard, Ids
<1>3. /\ x \in EventType /\ x.kind = "leave" /\ x.note = over
      /\ y \in EventType /\ y.kind = "enter" /\ y.note = n
  BY <1>2 DEF Event, EventType
<1> HIDE DEF x, y
<1>4. /\ a \in Seq(EventType) /\ events \o a \in Seq(EventType)
      /\ \A i \in 1 .. Len(a) : a[i].note <= nextId
      /\ Stream(events \o a, 0, Active, pointer)
  <2>1. CASE over = 0
    <3>1. a = << >> /\ << >> \in Seq(EventType) /\ \A i \in 1 .. Len(<< >>) : FALSE
      BY <2>1
    <3>2. events \o << >> = events
      BY ConcatEmptySeq
    <3> HIDE DEF a
    <3>. QED
      BY <2>1, <3>1, <3>2
  <2>2. CASE over # 0
    <3>1. a = <<x>>
      BY <2>2
    <3>2. /\ <<x>> \in Seq(EventType) /\ events \o <<x>> = Append(events, x)
          /\ \A i \in 1 .. Len(<<x>>) : <<x>>[i] = x
      BY <1>3, TellOne
    <3>3. Stream(Append(events, x), 0, Active, pointer)
      BY <1>3, StreamMore
    <3>4. Append(events, x) \in Seq(EventType)
      BY <1>3, AppendProperties
    <3> HIDE DEF a
    <3>. QED
      BY <1>2, <1>3, <3>1, <3>2, <3>3, <3>4
  <2>. QED
    BY <2>1, <2>2
<1> DEFINE e == events \o a
<1>5. /\ b \in Seq(EventType)
      /\ \A i \in 1 .. Len(b) : b[i].note <= nextId
      /\ Stream(e \o b, n, Active, pointer)
  <2> HIDE DEF a, e
  <2>0. e \in Seq(EventType) /\ Stream(e, 0, Active, pointer)
    BY <1>4 DEF e
  <2>1. CASE n = 0
    <3>1. b = << >> /\ << >> \in Seq(EventType) /\ \A i \in 1 .. Len(<< >>) : FALSE
      BY <2>1
    <3>2. e \o << >> = e
      BY <2>0, ConcatEmptySeq
    <3> HIDE DEF b
    <3>. QED
      BY <2>0, <2>1, <3>1, <3>2
  <2>2. CASE n # 0
    <3>1. b = <<y>>
      BY <2>2
    <3>2. /\ <<y>> \in Seq(EventType)
          /\ \A i \in 1 .. Len(<<y>>) : <<y>>[i] = y
      BY <1>3, TellOne
    <3>3. e \o <<y>> = Append(e, y)
      BY <1>3, <2>0, AppendIsConcat
    <3>4. Stream(Append(e, y), n, Active, pointer)
      BY <1>3, <2>0, StreamMore
    <3> HIDE DEF b
    <3>. QED
      BY <1>2, <1>3, <3>1, <3>2, <3>3, <3>4
  <2>. QED
    BY <2>1, <2>2
<1> HIDE DEF a, b, e
<1> DEFINE es == a \o b
<1>6. /\ es \in Seq(EventType)
      /\ \A i \in 1 .. Len(es) : es[i].note <= nextId
  <2>1. /\ es \in Seq(EventType) /\ Len(es) = Len(a) + Len(b)
        /\ Len(a) \in Nat /\ Len(b) \in Nat
        /\ \A i \in 1 .. Len(es) : es[i] = IF i <= Len(a) THEN a[i] ELSE b[i - Len(a)]
    BY <1>4, <1>5, LenProperties, ConcatProperties
  <2>2. ASSUME NEW i \in 1 .. Len(es)
        PROVE  es[i].note <= nextId
    <3> HIDE DEF es
    <3>1. \/ i \in 1 .. Len(a) /\ es[i] = a[i]
          \/ i - Len(a) \in 1 .. Len(b) /\ es[i] = b[i - Len(a)]
      BY <2>1
    <3>. QED
      BY <1>4, <1>5, <3>1
  <2>. QED
    BY <2>1, <2>2
<1>7. events \o es = e \o b
  <2>1. /\ events \in Seq(EventType) /\ a \in Seq(EventType) /\ b \in Seq(EventType)
    BY <1>4, <1>5
  <2>2. (events \o a) \o b = events \o (a \o b)
    BY ONLY <2>1, ConcatAssociative
  <2>. QED
    BY <2>2 DEF e
<1>8. Tell(es)
  BY <1>1
<1> HIDE DEF es
<1>9. /\ Apart(notifs', nextId') /\ Placed(notifs')
      /\ events' = events \o es /\ events' \in Seq(EventType)
      /\ batch' <= Len(events')
      /\ \A k \in 1 .. Len(events') : events'[k].note <= nextId
      /\ Active' = Active
      /\ UNCHANGED <<notifs, nextId, pointer, sent, inbox, loop, batch, readable>>
  BY <1>6, <1>8, TellFacts
<1>10. Stream(events', n, Active, pointer)
  BY <1>5, <1>7, <1>9
<1>11. Heard(events', n, screen, nextId)
  BY <1>2, <1>9 DEF Heard
<1>12. LoopTypes'
  BY <1>1, <1>2, <1>9
<1>. QED
  BY <1>1, <1>9, <1>10, <1>11, <1>12

LEMMA SendStep ==
    ASSUME NotifyInv, NEW m \in Messages, Send(m)
    PROVE  NotifyInv'
<1> USE DEF NotifyInv, LoopTypes
<1>1. /\ sent < MaxSent /\ sent' = sent + 1 /\ inbox' = Append(inbox, m)
      /\ UNCHANGED <<notifs, nextId, pointer, events, loop, batch, readable, screen, over>>
  BY DEF Send, compositor
<1>2. /\ inbox' \in Seq(Messages) /\ Len(inbox') = Len(inbox) + 1 /\ inbox' # << >>
      /\ Len(inbox) \in Nat
  BY <1>1, AppendProperties, LenProperties
<1>3. Active' = Active
  BY <1>1 DEF Active, Shown
<1>4. LoopTypes'
  BY <1>1, <1>2, NotifyAssumption
<1>. QED
  BY <1>1, <1>3, <1>4

LEMMA PollStep ==
    ASSUME NotifyInv, Poll
    PROVE  NotifyInv'
<1> USE DEF NotifyInv, LoopTypes
<1>1. /\ loop' = "dispatch" /\ batch' = Len(events) /\ readable' = (inbox # << >>)
      /\ UNCHANGED <<notifs, nextId, pointer, sent, inbox, events, screen, over>>
  BY DEF Poll, compositor
<1>2. Active' = Active
  BY <1>1 DEF Active, Shown
<1>3. Len(events) \in Nat /\ (readable' => inbox # << >>)
  BY LenProperties DEF Poll
<1>4. LoopTypes'
  <2>1. readable' /\ loop' = "dispatch" => inbox' # << >>
    BY <1>1, <1>3
  <2>2. batch' \in Nat /\ batch' <= Len(events') /\ (loop' # "dispatch" => batch' = 0)
    BY <1>1, <1>3
  <2>. QED
    BY <1>1, <2>1, <2>2
<1>. QED
  BY <1>1, <1>2, <1>4

LEMMA TickStep ==
    ASSUME NotifyInv, Tick
    PROVE  NotifyInv'
<1> USE DEF NotifyInv, LoopTypes
<1>1. UNCHANGED <<nextId, pointer, sent, inbox, events, loop, batch, readable, screen, over>>
  BY DEF Tick, compositor
<1>2. Apart(notifs', nextId) /\ Placed(notifs') /\ Active' = Active
  BY TickFacts
<1>3. LoopTypes'
  BY <1>1
<1>. QED
  BY <1>1, <1>2, <1>3

LEMMA NotifyStart == NotifyInit => NotifyInv
<1>. SUFFICES ASSUME NotifyInit
     PROVE  NotifyInv
  OBVIOUS
<1>1. Empty \in Note /\ Empty.id = 0 /\ Empty.left = 0 /\ 0 >= -MaxLate
  BY NotifyAssumption DEF Empty, Note
<1>2. notifs \in [Places -> Note] /\ \A i \in Places : notifs[i] = Empty
  BY <1>1 DEF NotifyInit
<1>3. Apart(notifs, nextId) /\ Placed(notifs)
  BY <1>1, <1>2 DEF Apart, Placed, NotifyInit
<1>4. /\ events = << >> /\ inbox = << >> /\ Len(<< >>) = 0
      /\ << >> \in Seq(EventType) /\ << >> \in Seq(Messages)
      /\ \A k \in 1 .. 0 : FALSE
  BY DEF NotifyInit
<1>5. LoopTypes
  BY <1>4, NotifyAssumption DEF LoopTypes, NotifyInit
<1>6. Heard(events, over, screen, nextId)
  BY <1>4 DEF Heard, NotifyInit
<1>7. Stream(events, over, Active, pointer)
  BY <1>4 DEF Stream, NotifyInit
<1>. QED
  BY <1>3, <1>5, <1>6, <1>7 DEF NotifyInv

LEMMA NotifyStep == NotifyInv /\ [NotifyNext]_notifyVars => NotifyInv'
<1>. SUFFICES ASSUME NotifyInv, [NotifyNext]_notifyVars
     PROVE  NotifyInv'
  OBVIOUS
<1>1. CASE UNCHANGED notifyVars
  <2>1. Active' = Active
    BY <1>1 DEF notifyVars, Active, Shown
  <2>. QED
    BY <1>1, <2>1 DEF notifyVars, compositor, NotifyInv, LoopTypes
<1>2. CASE NotifyNext
  <2>1. ASSUME NEW m \in Messages, Send(m)
        PROVE  NotifyInv'
    BY <2>1, SendStep
  <2>2. ASSUME NEW n \in Ids, Close(n)
        PROVE  NotifyInv'
    BY <2>2, CloseStep
  <2>3. ASSUME NEW n \in Ids \cup {0}, PointerMoves(n)
        PROVE  NotifyInv'
    BY <2>3, PointerMovesStep
  <2>. QED
    BY <1>2, <2>1, <2>2, <2>3, PollStep, DispatchStep, ReceiveStep, ExpireStep,
       TickStep, CatchUpStep, PressStep DEF NotifyNext, Daemon
<1>. QED
  BY <1>1, <1>2

(* What the loop keeps between its calls, for any number of slots and any  *)
(* lateness: the slots are restacked, and every button event still on its  *)
(* way will find app.pointer_surface on the notification it was made on.   *)
THEOREM NotifyKept == NotifySpec => []NotifyInv
<1>1. NotifyInit => NotifyInv
  BY NotifyStart
<1>2. NotifyInv /\ [NotifyNext]_notifyVars => NotifyInv'
  BY NotifyStep
<1>. QED
  BY <1>1, <1>2, PTL DEF NotifySpec

(* The taken slots after a slot, and that one with them. *)
LEMMA AboveFacts ==
    ASSUME NEW ns, NEW i \in Live(ns), NEW S \in SUBSET Places, i \in S,
           {k \in Places : k > i /\ ns[k].id # 0} \subseteq S
    PROVE  Above(ns, i) \in Nat /\ Cardinality(S) \in Nat /\ Above(ns, i) < Cardinality(S)
<1> DEFINE A == {k \in Places : k > i /\ ns[k].id # 0}
<1>1. i \in Nat /\ i \notin A /\ A \in SUBSET Places /\ A \cup {i} \subseteq S
  BY PlacesFinite DEF Live
<1> HIDE DEF A
<1>2. IsFiniteSet(A) /\ IsFiniteSet(S) /\ Cardinality(A) \in Nat /\ Cardinality(S) \in Nat
  BY <1>1, PlacesFinite
<1>3. Cardinality(A \cup {i}) = Cardinality(A) + 1
  BY <1>1, <1>2, FS_AddElement
<1>4. Cardinality(A \cup {i}) <= Cardinality(S)
  BY <1>1, <1>2, FS_Subset
<1>5. Above(ns, i) = Cardinality(A)
  BY DEF Above, A
<1>. QED
  BY <1>2, <1>3, <1>4, <1>5

(* restack(), main.c: the notifications shown neither overlap nor leave a  *)
(* gap, whichever were evicted, clicked, closed or expired.                *)
THEOREM StackedKept == NotifySpec => []Stacked
<1>1. NotifyInv => Stacked
  <2>. SUFFICES ASSUME NotifyInv, NEW i \in Shown, NEW j \in Shown
       PROVE  /\ notifs[i].id = notifs[j].id => i = j
              /\ i < j => notifs[i].top > notifs[j].top
              /\ notifs[i].top < Cardinality(Shown)
    BY DEF Stacked
  <2>1. /\ i \in Live(notifs) /\ j \in Live(notifs) /\ Shown \in SUBSET Places
        /\ i \in Places /\ j \in Places /\ notifs[i].id # 0 /\ notifs[j].id # 0
        /\ i \in Nat /\ j \in Nat
    BY PlacesFinite DEF Shown, Live
  <2>2. notifs[i].id = notifs[j].id => i = j
    BY <2>1 DEF NotifyInv, Apart
  <2>3. notifs[i].top = Above(notifs, i) /\ notifs[j].top = Above(notifs, j)
    BY <2>1 DEF NotifyInv, Placed
  <2>4. notifs[i].top < Cardinality(Shown)
    <3>1. {k \in Places : k > i /\ notifs[k].id # 0} \subseteq Shown
      BY DEF Shown
    <3>. QED
      BY <2>1, <2>3, <3>1, AboveFacts
  <2>5. ASSUME i < j
        PROVE  notifs[i].top > notifs[j].top
    <3> DEFINE S == {k \in Places : k > i /\ notifs[k].id # 0}
    <3>1. S \in SUBSET Places /\ j \in S
      BY <2>1, <2>5
    <3>2. {k \in Places : k > j /\ notifs[k].id # 0} \subseteq S
      BY <2>1, <2>5 DEF Places
    <3> HIDE DEF S
    <3>3. Above(notifs, j) \in Nat /\ Cardinality(S) \in Nat /\ Above(notifs, j) < Cardinality(S)
      BY <2>1, <3>1, <3>2, AboveFacts
    <3>4. Above(notifs, i) = Cardinality(S)
      BY DEF Above, S
    <3>. QED
      BY <2>3, <3>3, <3>4
  <2>. QED
    BY <2>2, <2>4, <2>5
<1>. QED
  BY <1>1, NotifyKept, PTL

(* Only an event, a message or the end of the loop takes one away. *)
LEMMA OthersKeep ==
    ASSUME NotifyInv, [NotifyNext]_notifyVars, ~Dispatch, ~Receive, ~Expire
    PROVE  Active' = Active /\ ~(loop = "dispatch" /\ batch' < batch)
<1>1. batch \in Nat
  BY DEF NotifyInv, LoopTypes
<1>2. CASE Tick
  BY <1>1, <1>2, TickFacts DEF Tick
<1>3. CASE UNCHANGED notifs /\ (UNCHANGED batch \/ loop = "poll")
  BY <1>1, <1>3 DEF Active, Shown
<1>. QED
  BY <1>2, <1>3 DEF NotifyNext, Daemon, notifyVars, Poll, Send, CatchUp, Press, Close,
                    PointerMoves, Tell

(* ptr_enter(), ptr_leave() and ptr_button(), main.c: a click dismisses    *)
(* the notification it was made on and no other, whatever the pointer has  *)
(* entered since, and whichever notifications have come and gone.          *)
THEOREM ClicksHit == NotifySpec => ClickDismisses
<1>1. NotifyInv /\ [NotifyNext]_notifyVars
        => [loop = "dispatch" /\ batch > 0 /\ batch' < batch
              /\ Head(events).kind = "button" /\ Head(events).note \in Active
            => Active' = Active \ {Head(events).note}]_notifyVars
  <2>. SUFFICES ASSUME NotifyInv, [NotifyNext]_notifyVars,
                       loop = "dispatch", batch > 0, batch' < batch,
                       Head(events).kind = "button", Head(events).note \in Active
       PROVE  Active' = Active \ {Head(events).note}
    OBVIOUS
  <2>1. batch \in Nat
    BY DEF NotifyInv, LoopTypes
  <2>2. ~Receive /\ ~Expire
    BY <2>1 DEF Receive, Expire
  <2>. QED
    BY <2>2, DispatchFacts, OthersKeep
<1>. QED
  BY <1>1, NotifyKept, PTL DEF NotifySpec, ClickDismisses

(* show(), dismiss() and the end of the loop, main.c: a notification only  *)
(* goes because it was closed, in answer to a click, when its time is up,  *)
(* or when every slot is taken and none of the others has less time left.  *)
THEOREM LeaversHaveReason == NotifySpec => LeavesForReason
<1> DEFINE Reason(n) ==
          \/ /\ loop = "dispatch" /\ batch > 0
             /\ Head(events) = Event("closed", n) \/ Head(events).kind = "button"
          \/ notifs[Place(n)].left <= 0
          \/ /\ Shown = Places
             /\ \A i \in Places : notifs[Place(n)].left <= notifs[i].left
<1>1. NotifyInv /\ [NotifyNext]_notifyVars => \A n \in Active \ Active' : Reason(n)
  <2>. SUFFICES ASSUME NotifyInv, [NotifyNext]_notifyVars, NEW n \in Active \ Active'
       PROVE  Reason(n)
    OBVIOUS
  <2>1. CASE Dispatch
    <3>1. loop = "dispatch" /\ batch > 0
      BY <2>1 DEF Dispatch
    <3>. QED
      BY <2>1, <3>1, DispatchFacts
  <2>2. CASE Receive
    <3>1. Active' # Active
      OBVIOUS
    <3>2. ~UNCHANGED notifs
      BY <3>1 DEF Active, Shown
    <3>3. readable /\ inbox # << >> /\ Show(Head(inbox))
      BY <2>2, <3>2 DEF Receive, NotifyInv, LoopTypes
    <3>4. Head(inbox) \in Messages
      BY <3>3, EmptySeq, HeadTailProperties DEF NotifyInv, LoopTypes
    <3>. QED
      BY <3>3, <3>4, ShowFacts DEF NotifyInv, LoopTypes
  <2>3. CASE Expire
    BY <2>3, ExpireFacts
  <2>. QED
    BY <2>1, <2>2, <2>3, OthersKeep
<1>2. NotifyInv /\ [NotifyNext]_notifyVars
        => [\A n \in Active \ Active' : Reason(n)]_notifyVars
  BY <1>1
<1>. QED
  BY <1>2, NotifyKept, PTL DEF NotifySpec, LeavesForReason
=============================================================================

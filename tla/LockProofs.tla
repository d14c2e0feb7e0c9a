----------------------------- MODULE LockProofs -----------------------------
(***************************************************************************)
(* Theorems about KumLock.tla, for any lockers, outputs, passwords and     *)
(* keys: the prompts of the locker that holds the lock stay on the outputs *)
(* there are, no other locker disturbs them, and, since nothing flushes    *)
(* what a locker writes when it is told to leave, no password ever unlocks *)
(* the session.                                                            *)
(***************************************************************************)
EXTENDS KumLock, ListLemmas, FiniteSetTheorems

Stages == {"none", "starting", "running", "leaving", "gone", "closed"}

(* Messages of the kinds K, about the outputs P where they are about one.  *)
AboutOutputs == {"bind", "surface", "global", "done"}

Msgs(K, P) ==
    [kind : K \cap AboutOutputs, of : P]
        \cup [kind : K \cap {"key"}, of : KeyNames]
        \cup [kind : K \ (AboutOutputs \cup {"key"}), of : {NoOutput}]

(* What a locker in state s may have on its way to kumde, written and not  *)
(* flushed, and on its way from kumde: until the second roundtrip of       *)
(* main() is over it has not asked for the lock, and to unlock is written  *)
(* by one that leaves, which flushes nothing any more.                     *)
WireKinds(s) ==
    CASE s = "none" -> {}
      [] s = "starting" -> {"bind", "sync", "void"}
      [] s \in {"running", "leaving"} -> {"bind", "lock", "surface", "void"}
      [] OTHER -> {"bind", "sync", "lock", "surface", "void"}

OutKinds(s) ==
    CASE s = "none" -> {}
      [] s = "starting" -> {"bind", "void"}
      [] s = "running" -> {"bind", "lock", "surface", "void"}
      [] OTHER -> {"bind", "lock", "surface", "unlock", "void"}

InKinds(s) ==
    CASE s = "none" -> {}
      [] s = "starting" -> {"global", "done", "synced", "void"}
      [] s \in {"running", "leaving"} ->
            {"global", "done", "key", "locked", "finished", "void"}
      [] OTHER -> {"global", "done", "synced", "key", "locked", "finished", "void"}

(* The streams of a locker in state s, w to kumde, o unflushed and i to    *)
(* the locker, with the outputs P plugged in.  Of the roundtrip there is   *)
(* the request or the answer, one at most.                                 *)
Talk(s, w, o, i, P) ==
    /\ w \in Seq(Msgs(WireKinds(s), P))
    /\ o \in Seq(Msgs(OutKinds(s), P))
    /\ i \in Seq(Msgs(InKinds(s), P))
    /\ s = "starting" =>
          /\ AtMost1(w, "sync") /\ AtMost1(i, "synced")
          /\ ~(Holds(w, "sync") /\ Holds(i, "synced"))

(* Nor has it the lock before that.                                        *)
Sane(k) ==
    /\ Talk(state[k], wire[k], outbox[k], inbox[k], present)
    /\ state[k] \in {"none", "starting"} => k \notin lock /\ holder # k

AreStreams(s) == s = [k \in Lockers |-> s[k]]

LockInv ==
    /\ KumLockTypeOK
    /\ input \in [Lockers -> Seq(Nat)]
    /\ AreStreams(wire) /\ AreStreams(outbox) /\ AreStreams(inbox)
    /\ \A k \in Lockers : Sane(k)
-----------------------------------------------------------------------------
LEMMA MsgsGrow ==
    ASSUME NEW K, NEW L, K \subseteq L, NEW P, NEW Q, P \subseteq Q
    PROVE  Msgs(K, P) \subseteq Msgs(L, Q)
BY DEF Msgs

LEMMA MsgFacts ==
    ASSUME NEW K, NEW P, NEW m \in Msgs(K, P)
    PROVE  /\ m.kind \in K
           /\ m.kind \in AboutOutputs => m.of \in P
           /\ m.kind = "key" => m.of \in KeyNames
           /\ \A L, Q : m.kind \in L /\ (m.kind \in AboutOutputs => m.of \in Q)
                           => m \in Msgs(L, Q)
BY DEF Msgs, AboutOutputs

LEMMA MsgIn ==
    ASSUME NEW K, NEW n \in K, NEW P
    PROVE  /\ n \in AboutOutputs => \A o \in P : Msg(n, o) \in Msgs(K, P)
           /\ n = "key" => \A c \in KeyNames : Msg(n, c) \in Msgs(K, P)
           /\ n \notin AboutOutputs \cup {"key"} => Plain(n) \in Msgs(K, P)
           /\ \A o : Msg(n, o).kind = n /\ Msg(n, o).of = o
           /\ Plain(n).kind = n
BY DEF Msgs, Msg, Plain

LEMMA StreamOf ==
    ASSUME NEW T, NEW n \in Nat, NEW s \in [1 .. n -> T]
    PROVE  s \in Seq(T) /\ Len(s) = n
<1>1. s \in Seq(T)
  BY SeqDef
<1>. QED
  BY <1>1, LenProperties

(* A stream without messages of kind k *)
LEMMA Without ==
    ASSUME NEW K, NEW P, NEW s \in Seq(Msgs(K, P)), NEW k, ~Holds(s, k)
    PROVE  s \in Seq(Msgs(K \ {k}, P))
<1>1. /\ Len(s) \in Nat /\ s \in [1 .. Len(s) -> Msgs(K, P)]
  BY LenProperties
<1>2. \A i \in 1 .. Len(s) : s[i] \in Msgs(K \ {k}, P)
  <2>. SUFFICES ASSUME NEW i \in 1 .. Len(s)
       PROVE  s[i] \in Msgs(K \ {k}, P)
    OBVIOUS
  <2>1. s[i] \in Msgs(K, P) /\ s[i].kind # k
    BY <1>1 DEF Holds
  <2>. QED
    BY <2>1, MsgFacts
<1>3. s \in [1 .. Len(s) -> Msgs(K \ {k}, P)]
  BY <1>1, <1>2
<1>. QED
  BY <1>1, <1>3, StreamOf

(* What becomes of a stream when output o goes *)
LEMMA IgnoredFacts ==
    ASSUME NEW K, "void" \in K \/ K = {}, NEW P, NEW s \in Seq(Msgs(K, P)), NEW o
    PROVE  /\ Ignored(s, o) \in Seq(Msgs(K, P \ {o}))
           /\ \A k : k # "void" =>
                 /\ Holds(Ignored(s, o), k) => Holds(s, k)
                 /\ AtMost1(s, k) => AtMost1(Ignored(s, o), k)
<1> DEFINE r == Ignored(s, o)
<1>1. /\ Len(s) \in Nat /\ DOMAIN s = 1 .. Len(s)
      /\ \A i \in 1 .. Len(s) : s[i] \in Msgs(K, P)
  BY LenProperties
<1>2. Plain("void").kind = "void" /\ ("void" \in K => Plain("void") \in Msgs(K, P \ {o}))
  BY MsgIn DEF Plain, Msg, AboutOutputs
<1>3. r = [i \in 1 .. Len(s) |-> IF s[i].of = o THEN Plain("void") ELSE s[i]]
  BY <1>1 DEF Ignored
<1>4. \A i \in 1 .. Len(s) : /\ r[i] \in Msgs(K, P \ {o})
                             /\ r[i].kind # "void" => r[i] = s[i]
  <2>. SUFFICES ASSUME NEW i \in 1 .. Len(s)
       PROVE  r[i] \in Msgs(K, P \ {o}) /\ (r[i].kind # "void" => r[i] = s[i])
    OBVIOUS
  <2>1. s[i] \in Msgs(K, P) /\ s[i].kind \in K
    BY <1>1, MsgFacts
  <2>2. CASE s[i].of = o
    <3>1. r[i] = Plain("void")
      BY <1>3, <2>2
    <3>. QED
      BY <1>2, <2>1, <3>1
  <2>3. CASE s[i].of # o
    <3>1. r[i] = s[i]
      BY <1>3, <2>3
    <3>2. s[i] \in Msgs(K, P \ {o})
      BY <2>1, <2>3, MsgFacts
    <3>. QED
      BY <3>1, <3>2
  <2>. QED
    BY <2>2, <2>3
<1> HIDE DEF r
<1>5. r \in [1 .. Len(s) -> Msgs(K, P \ {o})]
  BY <1>3, <1>4
<1>6. r \in Seq(Msgs(K, P \ {o})) /\ Len(r) = Len(s)
  BY <1>1, <1>5, StreamOf
<1>7. ASSUME NEW k, k # "void"
      PROVE  /\ Holds(r, k) => Holds(s, k)
             /\ AtMost1(s, k) => AtMost1(r, k)
  BY <1>4, <1>6, <1>7 DEF Holds, AtMost1
<1>. QED
  BY <1>6, <1>7 DEF r

(* Each() asks about the outputs of S, once each. *)
LEMMA EachFacts ==
    ASSUME NEW S, S \subseteq Outputs, NEW n \in AboutOutputs, NEW K, n \in K
    PROVE  /\ Each(n, S) \in Seq(Msgs(K, S))
           /\ \A k : k # n => ~Holds(Each(n, S), k)
<1> DEFINE c == Cardinality(S)
           f == SetToSeq(S)
<1>1. IsFiniteSet(S) /\ c \in Nat /\ ExistsBijection(1 .. c, S)
  BY KumLockAssumption, FS_Subset, FS_CardinalityType
<1>2. \E g \in [1 .. c -> S] : IsInjective(g)
  BY <1>1 DEF ExistsBijection, Bijection, Injection, IsInjective
<1>3. f \in [1 .. c -> S]
  BY <1>2 DEF SetToSeq
<1> HIDE DEF c, f
<1>4. Each(n, S) = [i \in 1 .. c |-> Msg(n, f[i])]
  BY DEF Each, c, f
<1>5. \A i \in 1 .. c : Msg(n, f[i]) \in Msgs(K, S) /\ Msg(n, f[i]).kind = n
  BY <1>3, MsgIn
<1>6. Each(n, S) \in [1 .. c -> Msgs(K, S)]
  BY <1>4, <1>5
<1>7. Each(n, S) \in Seq(Msgs(K, S)) /\ Len(Each(n, S)) = c
  BY <1>1, <1>6, StreamOf DEF c
<1>8. \A i \in 1 .. c : Each(n, S)[i].kind = n
  BY <1>4, <1>5
<1>. QED
  BY <1>7, <1>8 DEF Holds

-----------------------------------------------------------------------------
(* What may happen to the streams of a locker *)
LEMMA TalkTaken ==
    ASSUME NEW s, NEW w, NEW o, NEW i, NEW P, Talk(s, w, o, i, P), w # << >>
    PROVE  /\ Talk(s, Tail(w), o, i, P)
           /\ Head(w) \in Msgs(WireKinds(s), P)
           /\ s = "starting" /\ Head(w).kind = "sync" =>
                 ~Holds(Tail(w), "sync") /\ ~Holds(i, "synced")
<1>1. w \in Seq(Msgs(WireKinds(s), P))
  BY DEF Talk
<1>2. Head(w) \in Msgs(WireKinds(s), P) /\ Tail(w) \in Seq(Msgs(WireKinds(s), P))
  BY <1>1, HeadTailProperties
<1>3. /\ Holds(w, "sync") <=> Head(w).kind = "sync" \/ Holds(Tail(w), "sync")
      /\ AtMost1(w, "sync") => AtMost1(Tail(w), "sync")
      /\ AtMost1(w, "sync") /\ Head(w).kind = "sync" => ~Holds(Tail(w), "sync")
  BY <1>1, TailHolds
<1>. QED
  BY <1>2, <1>3 DEF Talk

LEMMA TalkHeard ==
    ASSUME NEW s, NEW w, NEW o, NEW i, NEW P, Talk(s, w, o, i, P), i # << >>
    PROVE  /\ Talk(s, w, o, Tail(i), P)
           /\ Head(i) \in Msgs(InKinds(s), P)
           /\ s = "starting" /\ Head(i).kind = "synced" =>
                 ~Holds(w, "sync") /\ ~Holds(Tail(i), "synced")
<1>1. i \in Seq(Msgs(InKinds(s), P))
  BY DEF Talk
<1>2. Head(i) \in Msgs(InKinds(s), P) /\ Tail(i) \in Seq(Msgs(InKinds(s), P))
  BY <1>1, HeadTailProperties
<1>3. /\ Holds(i, "synced") <=> Head(i).kind = "synced" \/ Holds(Tail(i), "synced")
      /\ AtMost1(i, "synced") => AtMost1(Tail(i), "synced")
      /\ AtMost1(i, "synced") /\ Head(i).kind = "synced" => ~Holds(Tail(i), "synced")
  BY <1>1, TailHolds
<1>. QED
  BY <1>2, <1>3 DEF Talk

LEMMA TalkTold ==
    ASSUME NEW s, NEW w, NEW o, NEW i, NEW P, Talk(s, w, o, i, P),
           NEW e \in Msgs(InKinds(s), P),
           s = "starting" /\ e.kind = "synced" =>
              ~Holds(w, "sync") /\ ~Holds(i, "synced")
    PROVE  Talk(s, w, o, Append(i, e), P)
<1>1. i \in Seq(Msgs(InKinds(s), P))
  BY DEF Talk
<1>2. Append(i, e) \in Seq(Msgs(InKinds(s), P)) /\ Append(i, e) = i \o <<e>>
  BY <1>1, AppendProperties, AppendIsConcat
<1>3. <<e>> \in Seq(Msgs(InKinds(s), P))
  OBVIOUS
<1>4. (Holds(<<e>>, "synced") <=> e.kind = "synced") /\ AtMost1(<<e>>, "synced")
  BY OneHolds
<1>5. /\ Holds(Append(i, e), "synced") <=> Holds(i, "synced") \/ e.kind = "synced"
      /\ AtMost1(i, "synced") /\ ~(Holds(i, "synced") /\ e.kind = "synced")
           => AtMost1(Append(i, e), "synced")
  <2>1. /\ Holds(i \o <<e>>, "synced") <=> Holds(i, "synced") \/ Holds(<<e>>, "synced")
        /\ AtMost1(i, "synced") /\ AtMost1(<<e>>, "synced")
             /\ ~(Holds(i, "synced") /\ Holds(<<e>>, "synced"))
             => AtMost1(i \o <<e>>, "synced")
    BY <1>1, <1>3, JoinHolds
  <2>. QED
    BY <1>2, <1>4, <2>1
<1>. QED
  BY <1>2, <1>5 DEF Talk

LEMMA TalkWritten ==
    ASSUME NEW s, NEW w, NEW o, NEW i, NEW P, Talk(s, w, o, i, P),
           NEW ms \in Seq(Msgs(OutKinds(s), P))
    PROVE  Talk(s, w, o \o ms, i, P)
BY ConcatProperties DEF Talk

LEMMA TalkFlushed ==
    ASSUME NEW s \in {"starting", "running"}, NEW w, NEW o, NEW i, NEW P,
           Talk(s, w, o, i, P)
    PROVE  Talk(s, w \o o, << >>, i, P)
<1>1. OutKinds(s) \subseteq WireKinds(s) /\ "sync" \notin OutKinds(s)
  BY DEF OutKinds, WireKinds
<1>2. w \in Seq(Msgs(WireKinds(s), P)) /\ o \in Seq(Msgs(OutKinds(s), P))
  BY DEF Talk
<1>3. o \in Seq(Msgs(WireKinds(s), P))
  <2>1. Msgs(OutKinds(s), P) \subseteq Msgs(WireKinds(s), P)
    BY <1>1, MsgsGrow
  <2>. QED
    BY <1>2, <2>1, SeqMonotonic
<1>4. w \o o \in Seq(Msgs(WireKinds(s), P))
  BY <1>2, <1>3, ConcatProperties
<1>5. ~Holds(o, "sync")
  <2>1. \A j \in 1 .. Len(o) : o[j] \in Msgs(OutKinds(s), P)
    BY <1>2, ElementOfSeq
  <2>2. \A j \in 1 .. Len(o) : o[j].kind \in OutKinds(s)
    BY <2>1, MsgFacts
  <2>. QED
    BY <1>1, <2>2 DEF Holds
<1>6. AtMost1(o, "sync")
  BY <1>5 DEF AtMost1, Holds
<1>7. /\ Holds(w \o o, "sync") <=> Holds(w, "sync")
      /\ AtMost1(w, "sync") => AtMost1(w \o o, "sync")
  BY <1>2, <1>3, <1>5, <1>6, JoinHolds
<1>. QED
  BY <1>4, <1>7, EmptySeq DEF Talk

LEMMA TalkMore ==
    ASSUME NEW s, NEW w, NEW o, NEW i, NEW P, Talk(s, w, o, i, P),
           NEW Q, P \subseteq Q
    PROVE  Talk(s, w, o, i, Q)
<1>1. \A K : Seq(Msgs(K, P)) \subseteq Seq(Msgs(K, Q))
  BY MsgsGrow, SeqMonotonic
<1>. QED
  BY <1>1 DEF Talk

LEMMA TalkIgnored ==
    ASSUME NEW s, NEW w, NEW o, NEW i, NEW P, Talk(s, w, o, i, P), NEW p
    PROVE  Talk(s, Ignored(w, p), Ignored(o, p), Ignored(i, p), P \ {p})
<1>1. \A K \in {WireKinds(s), OutKinds(s), InKinds(s)} : "void" \in K \/ K = {}
  BY DEF WireKinds, OutKinds, InKinds
<1>2. /\ Ignored(w, p) \in Seq(Msgs(WireKinds(s), P \ {p}))
      /\ Holds(Ignored(w, p), "sync") => Holds(w, "sync")
      /\ AtMost1(w, "sync") => AtMost1(Ignored(w, p), "sync")
  BY <1>1, IgnoredFacts DEF Talk
<1>3. Ignored(o, p) \in Seq(Msgs(OutKinds(s), P \ {p}))
  BY <1>1, IgnoredFacts DEF Talk
<1>4. /\ Ignored(i, p) \in Seq(Msgs(InKinds(s), P \ {p}))
      /\ Holds(Ignored(i, p), "synced") => Holds(i, "synced")
      /\ AtMost1(i, "synced") => AtMost1(Ignored(i, p), "synced")
  BY <1>1, IgnoredFacts DEF Talk
<1>. QED
  BY <1>2, <1>3, <1>4 DEF Talk

(* From one state of a locker to another, in which it may say and be told  *)
(* as much as in the one before *)
LEMMA TalkMoved ==
    ASSUME NEW s, NEW w, NEW o, NEW i, NEW P, Talk(s, w, o, i, P), NEW t,
           \/ s \in {"starting", "running", "leaving"} /\ t = "gone"
           \/ s \in {"running", "leaving"} /\ t = "leaving"
    PROVE  Talk(t, w, o, i, P)
<1>1. /\ WireKinds(s) \subseteq WireKinds(t) /\ OutKinds(s) \subseteq OutKinds(t)
      /\ InKinds(s) \subseteq InKinds(t) /\ t # "starting"
  BY DEF WireKinds, OutKinds, InKinds
<1>2. \A K, L : K \subseteq L => Seq(Msgs(K, P)) \subseteq Seq(Msgs(L, P))
  BY MsgsGrow, SeqMonotonic
<1>. QED
  BY <1>1, <1>2 DEF Talk

(* The end of the second roundtrip *)
LEMMA TalkSynced ==
    ASSUME NEW w, NEW o, NEW i, NEW P, Talk("starting", w, o, i, P),
           ~Holds(w, "sync"), ~Holds(i, "synced")
    PROVE  Talk("running", w, o, i, P)
<1>1. w \in Seq(Msgs(WireKinds("starting") \ {"sync"}, P))
  BY Without DEF Talk
<1>2. i \in Seq(Msgs(InKinds("starting") \ {"synced"}, P))
  BY Without DEF Talk
<1>3. /\ WireKinds("starting") \ {"sync"} \subseteq WireKinds("running")
      /\ OutKinds("starting") \subseteq OutKinds("running")
      /\ InKinds("starting") \ {"synced"} \subseteq InKinds("running")
  BY DEF WireKinds, OutKinds, InKinds
<1>4. \A K, L : K \subseteq L => Seq(Msgs(K, P)) \subseteq Seq(Msgs(L, P))
  BY MsgsGrow, SeqMonotonic
<1>. QED
  BY <1>1, <1>2, <1>3, <1>4 DEF Talk

LEMMA TalkNothing ==
    ASSUME NEW s, NEW P
    PROVE  Talk(s, << >>, << >>, << >>, P)
BY EmptySeq, OneHolds DEF Talk

-----------------------------------------------------------------------------
(* A locker that a step says nothing of is as sane as before. *)
LEMMA OtherSane ==
    ASSUME NEW j \in Lockers, Sane(j), present \subseteq present',
           state'[j] = state[j], wire'[j] = wire[j], outbox'[j] = outbox[j],
           inbox'[j] = inbox[j], j \in lock' => j \in lock, holder' = j => holder = j
    PROVE  Sane(j)'
BY TalkMore DEF Sane

LEMMA Posted ==
    ASSUME NEW ks, NEW e, Post(ks, e)
    PROVE  /\ AreStreams(inbox)'
           /\ \A j \in Lockers :
                 /\ j \in ks => inbox'[j] = Append(inbox[j], e)
                 /\ j \notin ks => inbox'[j] = inbox[j]
BY DEF Post, AreStreams

LEMMA LockStart == KumLockInit => LockInv
<1>. SUFFICES ASSUME KumLockInit PROVE LockInv
  OBVIOUS
<1>1. KumLockTypeOK
  <2>1. \A k \in Lockers : input[k] = << >> /\ Len(input[k]) = 0
    BY DEF KumLockInit
  <2>2. InputMax - 1 > 0 /\ 0 \in 0 .. MaxKeys /\ 0 \in 0 .. MaxChanges
    BY KumLockAssumption
  <2>3. \A k \in Lockers : Len(input[k]) < InputMax - 1
    BY <2>1, <2>2, KumLockAssumption
  <2>4. bound \in [Lockers -> SUBSET present] /\ surfaces \in [Lockers -> SUBSET present]
    BY DEF KumLockInit
  <2>. QED
    BY <2>2, <2>3, <2>4 DEF KumLockInit, KumLockTypeOK
<1>2. input \in [Lockers -> Seq(Nat)]
  BY EmptySeq DEF KumLockInit
<1>3. AreStreams(wire) /\ AreStreams(outbox) /\ AreStreams(inbox)
  BY DEF KumLockInit, AreStreams
<1>4. ASSUME NEW k \in Lockers PROVE Sane(k)
  <2>1. wire[k] = << >> /\ outbox[k] = << >> /\ inbox[k] = << >>
    BY DEF KumLockInit
  <2>2. lock = {} /\ holder # k
    BY KumLockAssumption DEF KumLockInit
  <2>. QED
    BY <2>1, <2>2, TalkNothing DEF Sane
<1>. QED
  BY <1>1, <1>2, <1>3, <1>4 DEF LockInv

LEMMA StartKeeps ==
    ASSUME LockInv, NEW k \in Lockers, Start(k)
    PROVE  LockInv'
<1>1. /\ state[k] = "none" /\ state' = [state EXCEPT ![k] = "starting"]
      /\ surfaces' = [surfaces EXCEPT ![k] = present]
      /\ wire' = [wire EXCEPT ![k] = Append(Each("bind", present), Plain("sync"))]
      /\ UNCHANGED <<present, session, bound, lock, input, unlocking, outbox, inbox,
                     counts>>
  BY DEF Start
<1>2. KumLockTypeOK'
  BY <1>1 DEF LockInv, KumLockTypeOK, session, counts
<1>3. present \subseteq Outputs /\ \A j \in Lockers : Sane(j)
  BY DEF LockInv, KumLockTypeOK
<1>4. Talk("starting", wire'[k], outbox[k], inbox[k], present)
  <2> DEFINE e == Each("bind", present)
             q == Plain("sync")
             K == WireKinds("starting")
  <2>1. e \in Seq(Msgs(K, present)) /\ ~Holds(e, "sync")
    BY <1>3, EachFacts DEF AboutOutputs, WireKinds
  <2>2. q \in Msgs(K, present) /\ q.kind = "sync"
    BY MsgIn DEF AboutOutputs, WireKinds
  <2>3. AtMost1(e, "sync")
    BY <2>1 DEF AtMost1, Holds
  <2>4. wire'[k] = Append(e, q)
    BY <1>1 DEF LockInv, AreStreams
  <2> HIDE DEF e, q, K
  <2>5. Append(e, q) \in Seq(Msgs(K, present)) /\ Append(e, q) = e \o <<q>>
    BY <2>1, <2>2, AppendProperties, AppendIsConcat
  <2>6. <<q>> \in Seq(Msgs(K, present)) /\ AtMost1(<<q>>, "sync")
    BY <2>2, OneHolds
  <2>7. AtMost1(e \o <<q>>, "sync")
    BY <2>1, <2>3, <2>6, JoinHolds
  <2>8. Talk("none", wire[k], outbox[k], inbox[k], present)
    BY <1>1, <1>3 DEF Sane
  <2>9. OutKinds("none") \subseteq OutKinds("starting") /\ InKinds("none") = {}
    BY DEF OutKinds, InKinds
  <2>10. outbox[k] \in Seq(Msgs(OutKinds("starting"), present))
    <3>1. Msgs(OutKinds("none"), present) \subseteq Msgs(OutKinds("starting"), present)
      BY <2>9, MsgsGrow
    <3>. QED
      BY <2>8, <3>1, SeqMonotonic DEF Talk
  <2>11. inbox[k] \in Seq(Msgs({}, present))
    BY <2>8, <2>9 DEF Talk
  <2>12. inbox[k] \in Seq(Msgs(InKinds("starting"), present))
    <3>1. Msgs({}, present) \subseteq Msgs(InKinds("starting"), present)
      BY MsgsGrow
    <3>. QED
      BY <2>11, <3>1, SeqMonotonic
  <2>13. \A n \in 1 .. Len(inbox[k]) : FALSE
    BY <2>11, ElementOfSeq, MsgFacts
  <2>. QED
    BY <2>4, <2>5, <2>7, <2>10, <2>12, <2>13 DEF Talk, K, Holds, AtMost1
<1>5. Sane(k)'
  <2>1. state'[k] = "starting"
    BY <1>1 DEF LockInv, KumLockTypeOK
  <2>. QED
    BY <1>1, <1>3, <1>4, <2>1 DEF Sane, session
<1>6. ASSUME NEW j \in Lockers, j # k
      PROVE  Sane(j)'
  <2>1. state'[j] = state[j] /\ wire'[j] = wire[j]
    BY <1>1, <1>6 DEF LockInv, KumLockTypeOK, AreStreams
  <2>. QED
    BY <1>1, <1>3, <2>1, OtherSane DEF session
<1>7. AreStreams(wire)' /\ AreStreams(outbox)' /\ AreStreams(inbox)'
  BY <1>1 DEF LockInv, AreStreams
<1>. QED
  BY <1>1, <1>2, <1>5, <1>6, <1>7 DEF LockInv


LEMMA PlugKeeps ==
    ASSUME LockInv, NEW o \in Outputs, Plug(o)
    PROVE  LockInv'
<1> DEFINE e == Msg("global", o)
           ks == {k \in Lockers : Alive(k)}
<1>1. /\ present' = present \cup {o} /\ Post(ks, e) /\ changes < MaxChanges
      /\ changes' = changes + 1
      /\ UNCHANGED <<session, bound, app, outbox, wire, keys>>
  BY DEF Plug, OutputChange
<1>2. /\ AreStreams(inbox)'
      /\ \A j \in Lockers : /\ j \in ks => inbox'[j] = Append(inbox[j], e)
                            /\ j \notin ks => inbox'[j] = inbox[j]
  BY <1>1, Posted
<1>3. KumLockTypeOK'
  BY <1>1, KumLockAssumption DEF LockInv, KumLockTypeOK, session, app
<1>4. ASSUME NEW j \in Lockers
      PROVE  Sane(j)'
  <2>1. Talk(state[j], wire[j], outbox[j], inbox[j], present \cup {o})
    BY <1>4, TalkMore DEF LockInv, Sane
  <2>2. CASE j \in ks
    <3>1. "global" \in InKinds(state[j])
      BY <2>2 DEF Alive, InKinds
    <3>2. e \in Msgs(InKinds(state[j]), present \cup {o}) /\ e.kind = "global"
      BY <3>1, MsgIn DEF AboutOutputs
    <3> HIDE DEF e, ks
    <3>3. Talk(state[j], wire[j], outbox[j], Append(inbox[j], e), present \cup {o})
      BY <2>1, <3>2, TalkTold
    <3>. QED
      BY <1>1, <1>2, <1>4, <2>2, <3>3 DEF LockInv, Sane, session, app
  <2>3. CASE j \notin ks
    <3> HIDE DEF e, ks
    <3>. QED
      BY <1>1, <1>2, <1>4, <2>1, <2>3 DEF LockInv, Sane, session, app
  <2>. QED
    BY <2>2, <2>3
<1>. QED
  BY <1>1, <1>2, <1>3, <1>4 DEF LockInv, AreStreams, app

LEMMA ChangeModeKeeps ==
    ASSUME LockInv, NEW o \in Outputs, ChangeMode(o)
    PROVE  LockInv'
<1> DEFINE e == Msg("done", o)
           ks == {k \in Lockers : Alive(k) /\ o \in bound[k]}
<1>1. /\ o \in present /\ Post(ks, e) /\ changes < MaxChanges /\ changes' = changes + 1
      /\ UNCHANGED <<present, session, bound, app, outbox, wire, keys>>
  BY DEF ChangeMode, OutputChange
<1>2. /\ AreStreams(inbox)'
      /\ \A j \in Lockers : /\ j \in ks => inbox'[j] = Append(inbox[j], e)
                            /\ j \notin ks => inbox'[j] = inbox[j]
  BY <1>1, Posted
<1>3. KumLockTypeOK'
  BY <1>1, KumLockAssumption DEF LockInv, KumLockTypeOK, session, app
<1>4. ASSUME NEW j \in Lockers
      PROVE  Sane(j)'
  <2>1. Talk(state[j], wire[j], outbox[j], inbox[j], present)
    BY <1>4 DEF LockInv, Sane
  <2>2. CASE j \in ks
    <3>1. "done" \in InKinds(state[j])
      BY <2>2 DEF Alive, InKinds
    <3>2. e \in Msgs(InKinds(state[j]), present) /\ e.kind = "done"
      BY <1>1, <3>1, MsgIn DEF AboutOutputs
    <3> HIDE DEF e, ks
    <3>3. Talk(state[j], wire[j], outbox[j], Append(inbox[j], e), present)
      BY <2>1, <3>2, TalkTold
    <3>. QED
      BY <1>1, <1>2, <1>4, <2>2, <3>3 DEF LockInv, Sane, session, app
  <2>3. CASE j \notin ks
    <3> HIDE DEF e, ks
    <3>. QED
      BY <1>1, <1>2, <1>4, <2>1, <2>3 DEF LockInv, Sane, session, app
  <2>. QED
    BY <2>2, <2>3
<1>. QED
  BY <1>1, <1>2, <1>3, <1>4 DEF LockInv, AreStreams, app

LEMMA UnplugKeeps ==
    ASSUME LockInv, NEW o \in Outputs, Unplug(o)
    PROVE  LockInv'
<1>1. /\ present' = present \ {o} /\ changes < MaxChanges /\ changes' = changes + 1
      /\ prompts' = prompts \ {o}
      /\ bound' = [k \in Lockers |-> bound[k] \ {o}]
      /\ surfaces' = [k \in Lockers |-> surfaces[k] \ {o}]
      /\ outbox' = [k \in Lockers |-> Ignored(outbox[k], o)]
      /\ wire' = [k \in Lockers |-> Ignored(wire[k], o)]
      /\ inbox' = [k \in Lockers |-> Ignored(inbox[k], o)]
      /\ UNCHANGED <<holder, locked, typing, state, lock, input, unlocking, keys>>
  BY DEF Unplug, OutputChange
<1>2. KumLockTypeOK'
  <2>1. /\ bound' \in [Lockers -> SUBSET present']
        /\ surfaces' \in [Lockers -> SUBSET present']
    BY <1>1 DEF LockInv, KumLockTypeOK
  <2>2. /\ prompts' \subseteq present' /\ typing' \in Outputs \cup {NoOutput}
        /\ holder' = NoLocker => prompts' = {} /\ typing' = NoOutput
    BY <1>1 DEF LockInv, KumLockTypeOK
  <2>3. present' \subseteq Outputs /\ changes' \in 0 .. MaxChanges
    BY <1>1, KumLockAssumption DEF LockInv, KumLockTypeOK
  <2>. QED
    BY <1>1, <2>1, <2>2, <2>3 DEF LockInv, KumLockTypeOK
<1>3. ASSUME NEW j \in Lockers
      PROVE  Sane(j)'
  <2>1. Talk(state[j], Ignored(wire[j], o), Ignored(outbox[j], o),
             Ignored(inbox[j], o), present \ {o})
    BY <1>3, TalkIgnored DEF LockInv, Sane
  <2>2. /\ wire'[j] = Ignored(wire[j], o) /\ outbox'[j] = Ignored(outbox[j], o)
        /\ inbox'[j] = Ignored(inbox[j], o)
    BY <1>1, <1>3
  <2>. QED
    BY <1>1, <1>3, <2>1, <2>2 DEF LockInv, Sane
<1>. QED
  BY <1>1, <1>2, <1>3 DEF LockInv, AreStreams

LEMMA PressKeyKeeps ==
    ASSUME LockInv, NEW c \in KeyNames, PressKey(c)
    PROVE  LockInv'
<1> DEFINE e == Msg("key", c)
<1>1. /\ typing # NoOutput /\ keys < MaxKeys /\ keys' = keys + 1 /\ Post({holder}, e)
      /\ UNCHANGED <<present, session, bound, app, outbox, wire, changes>>
  BY DEF PressKey
<1>2. /\ AreStreams(inbox)'
      /\ inbox'[holder] = Append(inbox[holder], e)
      /\ \A j \in Lockers \ {holder} : inbox'[j] = inbox[j]
  <2>1. holder \in Lockers
    BY <1>1 DEF LockInv, KumLockTypeOK
  <2>. QED
    BY <1>1, <2>1, Posted
<1>3. KumLockTypeOK'
  BY <1>1, KumLockAssumption DEF LockInv, KumLockTypeOK, session, app
<1>4. ASSUME NEW j \in Lockers
      PROVE  Sane(j)'
  <2>1. Sane(j)
    BY <1>4 DEF LockInv
  <2>2. CASE j = holder
    <3>1. /\ state[j] \notin {"none", "starting"}
          /\ Talk(state[j], wire[j], outbox[j], inbox[j], present)
      BY <2>1, <2>2 DEF Sane
    <3>2. "key" \in InKinds(state[j])
      BY <3>1 DEF InKinds
    <3>3. e \in Msgs(InKinds(state[j]), present) /\ e.kind = "key"
      BY <3>2, MsgIn
    <3> HIDE DEF e
    <3>4. Talk(state[j], wire[j], outbox[j], Append(inbox[j], e), present)
      BY <3>1, <3>3, TalkTold
    <3>. QED
      BY <1>1, <1>2, <2>1, <2>2, <3>4 DEF Sane, session, app
  <2>3. CASE j # holder
    <3> HIDE DEF e
    <3>. QED
      BY <1>1, <1>2, <1>4, <2>1, <2>3 DEF Sane, session, app
  <2>. QED
    BY <2>2, <2>3
<1>. QED
  BY <1>1, <1>2, <1>3, <1>4 DEF LockInv, AreStreams, app


LEMMA TakeRequestKeeps ==
    ASSUME LockInv, NEW k \in Lockers, TakeRequest(k)
    PROVE  LockInv' /\ (locked => locked')
<1> DEFINE m == Head(wire[k])
           s == state[k]
<1>1. /\ wire[k] # << >> /\ s # "closed"
      /\ wire' = [wire EXCEPT ![k] = Tail(@)]
      /\ bound' = IF m.kind = "bind" THEN [bound EXCEPT ![k] = @ \cup {m.of}] ELSE bound
      /\ UNCHANGED <<present, state, surfaces, lock, input, outbox, counts>>
  BY DEF TakeRequest
<1>2. \/ m.kind = "bind" /\ Post({k}, Msg("done", m.of)) /\ UNCHANGED session
      \/ m.kind = "sync" /\ Post({k}, Plain("synced")) /\ UNCHANGED session
      \/ m.kind = "lock" /\ NewLock(k)
      \/ m.kind = "void" /\ UNCHANGED <<session, inbox>>
      \/ /\ m.kind \in {"surface", "unlock"}
         /\ IF m.kind = "unlock" THEN UnlockAndDestroy(k)
            ELSE NewSurface(k, m.of) /\ UNCHANGED <<holder, locked>>
         /\ UNCHANGED inbox
  BY DEF TakeRequest
<1>3. /\ Talk(s, Tail(wire[k]), outbox[k], inbox[k], present)
      /\ m \in Msgs(WireKinds(s), present)
      /\ s = "starting" /\ m.kind = "sync" =>
            ~Holds(Tail(wire[k]), "sync") /\ ~Holds(inbox[k], "synced")
  BY <1>1, TalkTaken DEF LockInv, Sane
<1>4. /\ m.kind \in WireKinds(s)
      /\ m.kind \in AboutOutputs => m.of \in present
  BY <1>3, MsgFacts
<1>5. s \in {"none", "starting", "running", "leaving", "gone", "closed"}
  BY DEF LockInv, KumLockTypeOK
<1> HIDE DEF m, s
<1>6. /\ m.kind # "unlock"
      /\ m.kind \in {"lock", "surface"} => s \in {"running", "leaving", "gone"}
      /\ m.kind = "sync" => s \in {"starting", "gone"}
      /\ s # "none"
  BY <1>1, <1>4, <1>5 DEF WireKinds
<1>7. /\ holder' \in {holder, k}
      /\ holder' # holder => m.kind = "lock" /\ holder = NoLocker
      /\ locked' \in {locked, TRUE} /\ (locked => locked')
      /\ holder' # holder => locked'
      /\ \/ prompts' = prompts
         \/ m.kind = "surface" /\ holder = k /\ prompts' = prompts \cup {m.of}
      /\ \/ typing' = typing
         \/ m.kind = "surface" /\ typing' = m.of /\ holder = k
      /\ prompts \subseteq prompts'
  BY <1>2, <1>6 DEF NewLock, NewSurface, session
<1>8. KumLockTypeOK'
  <2>1. m.kind = "surface" => m.of \in present
    BY <1>4 DEF AboutOutputs
  <2>2. bound' \in [Lockers -> SUBSET present]
    BY <1>1, <1>4 DEF LockInv, KumLockTypeOK, AboutOutputs
  <2>3. /\ holder' \in Lockers \cup {NoLocker} /\ locked' \in BOOLEAN
        /\ holder' # NoLocker => locked'
    <3>1. /\ holder \in Lockers \cup {NoLocker} /\ locked \in BOOLEAN
          /\ holder # NoLocker => locked
      BY DEF LockInv, KumLockTypeOK
    <3>. QED
      BY <1>7, <3>1
  <2>4. prompts' \subseteq present /\ typing' \in Outputs \cup {NoOutput}
    BY <1>7, <2>1 DEF LockInv, KumLockTypeOK
  <2>5. holder' = NoLocker => prompts' = {} /\ typing' = NoOutput
    BY <1>7, KumLockAssumption DEF LockInv, KumLockTypeOK
  <2>. QED
    BY <1>1, <2>2, <2>3, <2>4, <2>5 DEF LockInv, KumLockTypeOK, counts
<1>9. /\ AreStreams(wire)'
      /\ wire'[k] = Tail(wire[k])
      /\ \A j \in Lockers \ {k} : wire'[j] = wire[j]
  BY <1>1 DEF LockInv, AreStreams
<1>10. /\ AreStreams(inbox)'
       /\ \A j \in Lockers \ {k} : inbox'[j] = inbox[j]
       /\ \/ inbox'[k] = inbox[k]
          \/ \E e : /\ inbox'[k] = Append(inbox[k], e)
                    /\ \/ m.kind = "bind" /\ e = Msg("done", m.of)
                       \/ m.kind = "sync" /\ e = Plain("synced")
                       \/ m.kind = "lock" /\ e \in {Plain("locked"), Plain("finished")}
  <2>1. CASE UNCHANGED inbox
    BY <2>1 DEF LockInv, AreStreams
  <2>2. CASE m.kind = "bind" /\ Post({k}, Msg("done", m.of))
    BY <2>2, Posted
  <2>3. CASE m.kind = "sync" /\ Post({k}, Plain("synced"))
    BY <2>3, Posted
  <2>4. CASE m.kind = "lock" /\ Post({k}, Plain("locked"))
    BY <2>4, Posted
  <2>5. CASE m.kind = "lock" /\ Post({k}, Plain("finished"))
    BY <2>5, Posted
  <2>. QED
    BY <1>2, <2>1, <2>2, <2>3, <2>4, <2>5 DEF NewLock
<1>11. Sane(k)'
  <2>1. Talk(s, Tail(wire[k]), outbox[k], inbox'[k], present)
    <3>1. ASSUME NEW e, inbox'[k] = Append(inbox[k], e), e \in Msgs(InKinds(s), present),
                 e.kind = "synced" => m.kind = "sync"
          PROVE  Talk(s, Tail(wire[k]), outbox[k], inbox'[k], present)
      BY <1>3, <3>1, TalkTold
    <3>2. ASSUME m.kind = "bind"
          PROVE  /\ Msg("done", m.of) \in Msgs(InKinds(s), present)
                 /\ Msg("done", m.of).kind = "done"
      <4>1. "done" \in InKinds(s) /\ m.of \in present
        BY <1>1, <1>4, <1>5, <1>6, <3>2 DEF InKinds, AboutOutputs
      <4>. QED
        BY <4>1, MsgIn DEF AboutOutputs
    <3>3. ASSUME m.kind = "sync"
          PROVE  Plain("synced") \in Msgs(InKinds(s), present)
      <4>1. "synced" \in InKinds(s)
        BY <1>6, <3>3 DEF InKinds
      <4>. QED
        BY <4>1, MsgIn DEF AboutOutputs
    <3>4. ASSUME m.kind = "lock", NEW n \in {"locked", "finished"}
          PROVE  Plain(n) \in Msgs(InKinds(s), present) /\ Plain(n).kind = n
      <4>1. n \in InKinds(s)
        BY <1>6, <3>4 DEF InKinds
      <4>. QED
        BY <4>1, MsgIn DEF AboutOutputs
    <3>. QED
      BY <1>3, <1>10, <3>1, <3>2, <3>3, <3>4
  <2>2. s \in {"none", "starting"} => k \notin lock /\ holder' # k
    <3>1. s \in {"none", "starting"} => k \notin lock /\ holder # k
      BY DEF LockInv, Sane, s
    <3>. QED
      BY <1>6, <1>7, <3>1
  <2>. QED
    BY <1>1, <1>9, <2>1, <2>2 DEF Sane, s
<1>12. ASSUME NEW j \in Lockers, j # k
       PROVE  Sane(j)'
  BY <1>1, <1>7, <1>9, <1>10, <1>12, OtherSane DEF LockInv
<1>. QED
  BY <1>1, <1>7, <1>8, <1>9, <1>10, <1>11, <1>12 DEF LockInv, AreStreams

LEMMA HangupKeeps ==
    ASSUME LockInv, NEW k \in Lockers, Hangup(k)
    PROVE  LockInv' /\ locked' = locked
<1>1. /\ state' = [state EXCEPT ![k] = "closed"]
      /\ bound' = [bound EXCEPT ![k] = {}]
      /\ surfaces' = [surfaces EXCEPT ![k] = {}]
      /\ input' = [input EXCEPT ![k] = << >>]
      /\ outbox' = [outbox EXCEPT ![k] = << >>]
      /\ wire' = [wire EXCEPT ![k] = << >>]
      /\ inbox' = [inbox EXCEPT ![k] = << >>]
      /\ UNCHANGED <<present, locked, lock, unlocking, counts>>
  BY DEF Hangup
<1>2. \/ holder = k /\ holder' = NoLocker /\ prompts' = {} /\ typing' = NoOutput
      \/ holder # k /\ UNCHANGED <<holder, prompts, typing>>
  BY DEF Hangup, Dropped, LockDestroyed
<1>3. /\ input' \in [Lockers -> Seq(Nat)]
      /\ \A j \in Lockers : Len(input'[j]) < InputMax - 1
  <2>1. << >> \in Seq(Nat) /\ Len(<< >>) = 0 /\ 0 < InputMax - 1
    BY EmptySeq, KumLockAssumption
  <2>. QED
    BY <1>1, <2>1 DEF LockInv, KumLockTypeOK
<1>4. KumLockTypeOK'
  BY <1>1, <1>2, <1>3 DEF LockInv, KumLockTypeOK, counts
<1>5. Sane(k)'
  <2>1. /\ state'[k] = "closed" /\ wire'[k] = << >> /\ outbox'[k] = << >>
        /\ inbox'[k] = << >>
    BY <1>1 DEF LockInv, KumLockTypeOK, AreStreams
  <2>. QED
    BY <2>1, TalkNothing DEF Sane
<1>6. ASSUME NEW j \in Lockers, j # k
      PROVE  Sane(j)'
  <2>1. /\ state'[j] = state[j] /\ wire'[j] = wire[j] /\ outbox'[j] = outbox[j]
        /\ inbox'[j] = inbox[j]
    BY <1>1, <1>6 DEF LockInv, KumLockTypeOK, AreStreams
  <2>2. holder' = j => holder = j
    BY <1>2, KumLockAssumption
  <2>. QED
    BY <1>1, <2>1, <2>2, OtherSane DEF LockInv
<1>7. AreStreams(wire)' /\ AreStreams(outbox)' /\ AreStreams(inbox)'
  BY <1>1 DEF LockInv, AreStreams
<1>. QED
  BY <1>1, <1>3, <1>4, <1>5, <1>6, <1>7 DEF LockInv


(* A step of locker k, which changes nothing of kumde's and nothing of the *)
(* other lockers *)
LEMMA AppStep ==
    ASSUME LockInv, NEW k \in Lockers, UNCHANGED <<present, session, bound, counts>>,
           AreStreams(wire)', AreStreams(outbox)', AreStreams(inbox)',
           state' \in [Lockers -> Stages],
           surfaces' \in [Lockers -> SUBSET present], lock' \subseteq Lockers,
           input' \in [Lockers -> Seq(Nat)],
           \A j \in Lockers : Len(input'[j]) < InputMax - 1,
           \A j \in Lockers \ {k} :
              /\ state'[j] = state[j] /\ wire'[j] = wire[j]
              /\ outbox'[j] = outbox[j] /\ inbox'[j] = inbox[j]
              /\ j \in lock' => j \in lock,
           Talk(state'[k], wire'[k], outbox'[k], inbox'[k], present),
           state'[k] \in {"none", "starting"} => k \notin lock' /\ holder # k
    PROVE  LockInv'
<1>1. KumLockTypeOK'
  BY DEF LockInv, KumLockTypeOK, Stages, session, counts
<1>2. Sane(k)'
  BY DEF Sane, session
<1>3. ASSUME NEW j \in Lockers, j # k
      PROVE  Sane(j)'
  <2>1. Sane(j) /\ holder' = holder /\ present' = present
    BY DEF LockInv, session
  <2>. QED
    BY <1>3, <2>1, OtherSane
<1>. QED
  BY <1>1, <1>2, <1>3 DEF LockInv

LEMMA FlushKeeps ==
    ASSUME LockInv, NEW k \in Lockers, Flush(k)
    PROVE  LockInv'
<1>1. /\ state[k] \in {"starting", "running"}
      /\ wire' = [wire EXCEPT ![k] = @ \o outbox[k]]
      /\ outbox' = [outbox EXCEPT ![k] = << >>]
      /\ UNCHANGED <<present, session, bound, app, inbox, counts>>
  BY DEF Flush
<1>2. /\ AreStreams(wire)' /\ AreStreams(outbox)' /\ AreStreams(inbox)'
      /\ wire'[k] = wire[k] \o outbox[k] /\ outbox'[k] = << >> /\ inbox'[k] = inbox[k]
      /\ \A j \in Lockers \ {k} : /\ wire'[j] = wire[j] /\ outbox'[j] = outbox[j]
                                  /\ inbox'[j] = inbox[j]
  BY <1>1 DEF LockInv, AreStreams
<1>3. Talk(state[k], wire[k] \o outbox[k], << >>, inbox[k], present)
  BY <1>1, TalkFlushed DEF LockInv, Sane
<1>4. /\ UNCHANGED <<state, surfaces, lock, input>>
      /\ state[k] \in {"none", "starting"} => k \notin lock /\ holder # k
  BY <1>1 DEF LockInv, Sane, app
<1>5. /\ state \in [Lockers -> Stages]
      /\ surfaces \in [Lockers -> SUBSET present] /\ lock \subseteq Lockers
      /\ input \in [Lockers -> Seq(Nat)]
      /\ \A j \in Lockers : Len(input[j]) < InputMax - 1
  BY DEF LockInv, KumLockTypeOK, Stages
<1>. QED
  BY <1>1, <1>2, <1>3, <1>4, <1>5, AppStep

LEMMA LeaveKeeps ==
    ASSUME LockInv, NEW k \in Lockers, Leave(k) \/ Killed(k)
    PROVE  LockInv'
<1>1. /\ state[k] \in {"starting", "running", "leaving"}
      /\ state' = [state EXCEPT ![k] = "gone"]
      /\ outbox' = [outbox EXCEPT ![k] = << >>] \/ outbox' = outbox
      /\ UNCHANGED <<present, session, bound, surfaces, lock, input, wire, inbox, counts>>
  BY DEF Leave, Killed, streams
<1>2. state \in [Lockers -> Stages]
  BY DEF LockInv, KumLockTypeOK, Stages
<1>3. /\ AreStreams(wire)' /\ AreStreams(outbox)' /\ AreStreams(inbox)'
      /\ outbox'[k] \in {outbox[k], << >>} /\ state'[k] = "gone"
      /\ \A j \in Lockers \ {k} : outbox'[j] = outbox[j] /\ state'[j] = state[j]
  BY <1>1, <1>2 DEF LockInv, AreStreams
<1>4. Talk("gone", wire[k], outbox'[k], inbox[k], present)
  <2>1. Talk("gone", wire[k], outbox[k], inbox[k], present)
    BY <1>1, TalkMoved DEF LockInv, Sane
  <2>. QED
    BY <1>3, <2>1, EmptySeq DEF Talk
<1>5. /\ state' \in [Lockers -> Stages]
      /\ surfaces \in [Lockers -> SUBSET present] /\ lock \subseteq Lockers
      /\ input \in [Lockers -> Seq(Nat)]
      /\ \A j \in Lockers : Len(input[j]) < InputMax - 1
  BY <1>1, <1>2 DEF LockInv, KumLockTypeOK, Stages
<1>. QED
  BY <1>1, <1>3, <1>4, <1>5, AppStep

LEMMA EditedFacts ==
    ASSUME NEW s \in Seq(Nat), Len(s) < InputMax - 1, NEW c \in KeyNames \ {Return}
    PROVE  Edited(s, c) \in Seq(Nat) /\ Len(Edited(s, c)) < InputMax - 1
<1>1. /\ Len(s) \in Nat /\ InputMax - 1 \in Nat /\ 0 < InputMax - 1
      /\ << >> \in Seq(Nat) /\ Len(<< >>) = 0
  BY LenProperties, EmptySeq, KumLockAssumption
<1>2. CASE c = BackSpace
  <2>1. CASE s = << >>
    BY <1>2, <2>1 DEF Edited
  <2>2. CASE s # << >>
    <3>1. Edited(s, c) = SubSeq(s, 1, Len(s) - 1)
      BY <1>2, <2>2 DEF Edited, Front
    <3>2. Len(s) # 0
      BY <2>2, EmptySeq
    <3>3. \A i \in 1 .. Len(s) - 1 : s[i] \in Nat
      BY <1>1, LenProperties
    <3>4. /\ SubSeq(s, 1, Len(s) - 1) \in Seq(Nat)
          /\ Len(SubSeq(s, 1, Len(s) - 1)) =
                IF 1 <= Len(s) - 1 THEN Len(s) - 1 - 1 + 1 ELSE 0
      BY <1>1, <3>3, SubSeqProperties
    <3>. QED
      BY <1>1, <3>1, <3>2, <3>4
  <2>. QED
    BY <2>1, <2>2
<1>3. CASE c # BackSpace /\ c = Escape
  BY <1>1, <1>3 DEF Edited
<1>4. CASE c \notin {BackSpace, Escape}
  <2>1. c \in Seq(Nat)
    BY <1>4, KumLockAssumption DEF KeyNames
  <2>2. s \o c \in Seq(Nat) /\ Len(s \o c) = Len(s) + Len(c)
    BY <2>1, ConcatProperties
  <2>. QED
    BY <1>4, <2>2 DEF Edited
<1>. QED
  BY <1>2, <1>3, <1>4


(* What is written to, when locker k writes ms *)
LEMMA Wrote ==
    ASSUME LockInv, NEW k \in Lockers, NEW ms, Write(k, ms)
    PROVE  /\ AreStreams(outbox)'
           /\ outbox'[k] = outbox[k] \o ms
           /\ \A j \in Lockers \ {k} : outbox'[j] = outbox[j]
BY DEF Write, LockInv, AreStreams

LEMMA OneMessage ==
    ASSUME NEW K, NEW P, NEW m \in Msgs(K, P)
    PROVE  <<m>> \in Seq(Msgs(K, P))
OBVIOUS

LEMMA DispatchKeeps ==
    ASSUME LockInv, NEW k \in Lockers, Dispatch(k)
    PROVE  LockInv'
<1> DEFINE e == Head(inbox[k])
           s == state[k]
           T(t, o) == Talk(t, wire[k], o, Tail(inbox[k]), present)
<1>1. /\ s \in {"starting", "running", "leaving"} /\ inbox[k] # << >>
      /\ inbox' = [inbox EXCEPT ![k] = Tail(@)]
      /\ UNCHANGED <<present, session, bound, wire, counts>>
  BY DEF Dispatch, Alive
<1>2. \/ e.kind = "key" /\ HandleKey(k, e.of) /\ UNCHANGED surfaces
      \/ /\ e.kind = "global" /\ RegistryGlobal(k, e.of)
         /\ UNCHANGED <<state, lock, input, unlocking>>
      \/ e.kind = "done" /\ WlOutputDone(k, e.of) /\ UNCHANGED app
      \/ e.kind = "synced" /\ LockAll(k) /\ UNCHANGED <<surfaces, input, unlocking>>
      \/ /\ e.kind = "finished" /\ Finished(k)
         /\ UNCHANGED <<surfaces, lock, input, unlocking, outbox>>
      \/ e.kind \in {"locked", "void"} /\ UNCHANGED <<app, outbox>>
  BY DEF Dispatch
<1>3. /\ state \in [Lockers -> Stages] /\ surfaces \in [Lockers -> SUBSET present]
      /\ lock \subseteq Lockers /\ input \in [Lockers -> Seq(Nat)]
      /\ \A j \in Lockers : Len(input[j]) < InputMax - 1
      /\ present \subseteq Outputs
      /\ AreStreams(wire) /\ AreStreams(outbox) /\ AreStreams(inbox)
      /\ Talk(s, wire[k], outbox[k], inbox[k], present)
      /\ s \in {"none", "starting"} => k \notin lock /\ holder # k
  BY DEF LockInv, KumLockTypeOK, Sane, Stages
<1>4. /\ T(s, outbox[k])
      /\ e \in Msgs(InKinds(s), present)
      /\ s = "starting" /\ e.kind = "synced" =>
            ~Holds(wire[k], "sync") /\ ~Holds(Tail(inbox[k]), "synced")
  BY <1>1, <1>3, TalkHeard
<1>5. /\ e.kind \in InKinds(s)
      /\ e.kind \in AboutOutputs => e.of \in present
      /\ e.kind = "key" => e.of \in KeyNames
  BY <1>4, MsgFacts
<1>6. /\ AreStreams(wire)' /\ AreStreams(inbox)' /\ inbox'[k] = Tail(inbox[k])
      /\ \A j \in Lockers \ {k} : inbox'[j] = inbox[j]
      /\ \A j \in Lockers : wire'[j] = wire[j]
  BY <1>1, <1>3 DEF AreStreams
<1> HIDE DEF e, s, T
<1>7. ASSUME UNCHANGED <<surfaces, input>>, lock' \subseteq Lockers,
             NEW t \in Stages, state' = [state EXCEPT ![k] = t],
             AreStreams(outbox)', \A j \in Lockers \ {k} : outbox'[j] = outbox[j],
             \A j \in Lockers \ {k} : j \in lock' => j \in lock,
             t \in {"none", "starting"} => k \notin lock',
             t = "starting" => s = t, t # "none",
             T(t, outbox'[k])
      PROVE  LockInv'
  <2>1. /\ state' \in [Lockers -> Stages] /\ state'[k] = t
        /\ \A j \in Lockers \ {k} : state'[j] = state[j]
    BY <1>3, <1>7
  <2>2. state'[k] \in {"none", "starting"} => k \notin lock' /\ holder # k
    BY <1>3, <1>7, <2>1
  <2>3. Talk(state'[k], wire'[k], outbox'[k], inbox'[k], present)
    BY <1>6, <1>7, <2>1 DEF T
  <2>. QED
    BY <1>1, <1>3, <1>6, <1>7, <2>1, <2>2, <2>3, AppStep
<1>8. ASSUME state' = state, lock' = lock, AreStreams(outbox)',
             \A j \in Lockers \ {k} : outbox'[j] = outbox[j],
             surfaces' \in [Lockers -> SUBSET present],
             input' \in [Lockers -> Seq(Nat)],
             \A j \in Lockers : Len(input'[j]) < InputMax - 1,
             T(s, outbox'[k])
      PROVE  LockInv'
  <2>1. Talk(state'[k], wire'[k], outbox'[k], inbox'[k], present)
    BY <1>6, <1>8 DEF T, s
  <2>2. state'[k] \in {"none", "starting"} => k \notin lock' /\ holder # k
    BY <1>3, <1>8 DEF s
  <2>. QED
    BY <1>1, <1>3, <1>6, <1>8, <2>1, <2>2, AppStep
<1>9. state = [state EXCEPT ![k] = s]
  BY <1>3 DEF s
<1>10. CASE e.kind = "key"
  <2> DEFINE c == e.of
  <2>1. HandleKey(k, c) /\ UNCHANGED surfaces /\ c \in KeyNames
    BY <1>2, <1>5, <1>10
  <2>2. s \in {"running", "leaving"}
    BY <1>1, <1>5, <1>10 DEF InKinds
  <2> HIDE DEF c
  <2>3. CASE c # Return
    <3>1. /\ input' = [input EXCEPT ![k] = Edited(@, c)]
          /\ UNCHANGED <<state, lock, unlocking, outbox>>
      BY <2>1, <2>3 DEF HandleKey
    <3>2. Edited(input[k], c) \in Seq(Nat) /\ Len(Edited(input[k], c)) < InputMax - 1
      BY <1>3, <2>1, <2>3, EditedFacts
    <3>3. /\ input' \in [Lockers -> Seq(Nat)]
          /\ \A j \in Lockers : Len(input'[j]) < InputMax - 1
      BY <1>3, <3>1, <3>2
    <3>. QED
      BY <1>3, <1>4, <1>8, <2>1, <3>1, <3>3 DEF AreStreams
  <2>4. CASE c = Return /\ input[k] # Password
    <3>1. /\ input' = [input EXCEPT ![k] = << >>]
          /\ UNCHANGED <<state, lock, unlocking, outbox>>
      BY <2>1, <2>4 DEF HandleKey, AttemptUnlock
    <3>2. << >> \in Seq(Nat) /\ Len(<< >>) < InputMax - 1
      BY EmptySeq, KumLockAssumption
    <3>3. /\ input' \in [Lockers -> Seq(Nat)]
          /\ \A j \in Lockers : Len(input'[j]) < InputMax - 1
      BY <1>3, <3>1, <3>2
    <3>. QED
      BY <1>3, <1>4, <1>8, <2>1, <3>1, <3>3 DEF AreStreams
  <2>5. CASE c = Return /\ input[k] = Password /\ k \in lock
    <3>1. /\ UNCHANGED input /\ lock' = lock \ {k} /\ Write(k, <<Plain("unlock")>>)
          /\ state' = [state EXCEPT ![k] = "leaving"]
      BY <2>1, <2>5 DEF HandleKey, AttemptUnlock
    <3>2. Plain("unlock") \in Msgs(OutKinds("leaving"), present)
      <4>1. "unlock" \in OutKinds("leaving")
        BY DEF OutKinds
      <4>. QED
        BY <4>1, MsgIn DEF AboutOutputs
    <3>3. T("leaving", outbox[k])
      BY <1>4, <2>2, TalkMoved DEF T
    <3>4. T("leaving", outbox[k] \o <<Plain("unlock")>>)
      BY <3>2, <3>3, OneMessage, TalkWritten DEF T
    <3>5. /\ AreStreams(outbox)' /\ outbox'[k] = outbox[k] \o <<Plain("unlock")>>
          /\ \A j \in Lockers \ {k} : outbox'[j] = outbox[j]
      BY <3>1, Wrote
    <3>6. T("leaving", outbox'[k])
      BY <3>4, <3>5
    <3>. QED
      BY <1>3, <1>7, <2>1, <3>1, <3>5, <3>6 DEF Stages
  <2>6. CASE c = Return /\ input[k] = Password /\ k \notin lock
    <3>1. /\ UNCHANGED input /\ lock' = lock \ {k} /\ UNCHANGED outbox
          /\ state' = [state EXCEPT ![k] = "gone"]
      BY <2>1, <2>6 DEF HandleKey, AttemptUnlock
    <3>2. T("gone", outbox[k])
      BY <1>4, <2>2, TalkMoved DEF T
    <3>. QED
      BY <1>3, <1>7, <2>1, <3>1, <3>2 DEF Stages, AreStreams
  <2>. QED
    BY <2>3, <2>4, <2>5, <2>6
<1>11. CASE e.kind = "global"
  <2>1. /\ surfaces' = [surfaces EXCEPT ![k] = @ \cup {e.of}]
        /\ Write(k, <<Msg("bind", e.of)>>) /\ UNCHANGED <<state, lock, input>>
    BY <1>2, <1>11 DEF RegistryGlobal
  <2>2. e.of \in present
    BY <1>5, <1>11 DEF AboutOutputs
  <2>3. Msg("bind", e.of) \in Msgs(OutKinds(s), present)
    <3>1. "bind" \in OutKinds(s)
      BY <1>1 DEF OutKinds
    <3>. QED
      BY <2>2, <3>1, MsgIn DEF AboutOutputs
  <2>4. T(s, outbox[k] \o <<Msg("bind", e.of)>>)
    BY <1>4, <2>3, OneMessage, TalkWritten DEF T
  <2>5. /\ AreStreams(outbox)' /\ outbox'[k] = outbox[k] \o <<Msg("bind", e.of)>>
        /\ \A j \in Lockers \ {k} : outbox'[j] = outbox[j]
    BY <2>1, Wrote
  <2>6. surfaces' \in [Lockers -> SUBSET present]
    BY <1>3, <2>1, <2>2
  <2>7. T(s, outbox'[k])
    BY <2>4, <2>5
  <2>. QED
    BY <1>3, <1>8, <2>1, <2>5, <2>6, <2>7
<1>12. CASE e.kind = "done"
  <2>1. WlOutputDone(k, e.of) /\ UNCHANGED <<state, surfaces, lock, input>>
    BY <1>2, <1>12 DEF app
  <2>2. CASE k \in lock
    <3>1. Write(k, <<Msg("surface", e.of)>>)
      BY <2>1, <2>2 DEF WlOutputDone
    <3>2. e.of \in present
      BY <1>5, <1>12 DEF AboutOutputs
    <3>3. "surface" \in OutKinds(s)
      BY <1>1, <1>3, <2>2 DEF OutKinds
    <3>4. Msg("surface", e.of) \in Msgs(OutKinds(s), present)
      BY <3>2, <3>3, MsgIn DEF AboutOutputs
    <3>5. T(s, outbox[k] \o <<Msg("surface", e.of)>>)
      BY <1>4, <3>4, OneMessage, TalkWritten DEF T
    <3>6. /\ AreStreams(outbox)' /\ outbox'[k] = outbox[k] \o <<Msg("surface", e.of)>>
          /\ \A j \in Lockers \ {k} : outbox'[j] = outbox[j]
      BY <3>1, Wrote
    <3>7. T(s, outbox'[k])
      BY <3>5, <3>6
    <3>. QED
      BY <1>3, <1>8, <2>1, <3>6, <3>7
  <2>3. CASE k \notin lock
    <3>1. UNCHANGED outbox
      BY <2>1, <2>3 DEF WlOutputDone
    <3>. QED
      BY <1>3, <1>4, <1>8, <2>1, <3>1 DEF AreStreams
  <2>. QED
    BY <2>2, <2>3
<1>13. CASE e.kind = "synced"
  <2> DEFINE ms == <<Plain("lock")>> \o Each("surface", surfaces[k])
  <2>1. /\ state' = [state EXCEPT ![k] = "running"] /\ lock' = lock \cup {k}
        /\ Write(k, ms) /\ UNCHANGED <<surfaces, input>>
    BY <1>2, <1>13 DEF LockAll
  <2>2. s = "starting"
    BY <1>1, <1>5, <1>13 DEF InKinds
  <2>3. T("running", outbox[k])
    BY <1>4, <1>13, <2>2, TalkSynced DEF T
  <2>4. ms \in Seq(Msgs(OutKinds("running"), present))
    <3>1. {"lock", "surface"} \subseteq OutKinds("running")
      BY DEF OutKinds
    <3>2. Plain("lock") \in Msgs(OutKinds("running"), present)
      BY <3>1, MsgIn DEF AboutOutputs
    <3>3. surfaces[k] \subseteq present /\ surfaces[k] \subseteq Outputs
      BY <1>3
    <3>4. Each("surface", surfaces[k]) \in Seq(Msgs(OutKinds("running"), surfaces[k]))
      BY <3>1, <3>3, EachFacts DEF AboutOutputs
    <3>5. Each("surface", surfaces[k]) \in Seq(Msgs(OutKinds("running"), present))
      <4>1. Msgs(OutKinds("running"), surfaces[k])
               \subseteq Msgs(OutKinds("running"), present)
        BY <3>3, MsgsGrow
      <4>. QED
        BY <3>4, <4>1, SeqMonotonic
    <3>. QED
      BY <3>2, <3>5, OneMessage, ConcatProperties
  <2> HIDE DEF ms
  <2>5. T("running", outbox[k] \o ms)
    BY <2>3, <2>4, TalkWritten DEF T
  <2>6. /\ AreStreams(outbox)' /\ outbox'[k] = outbox[k] \o ms
        /\ \A j \in Lockers \ {k} : outbox'[j] = outbox[j]
    BY <2>1, Wrote
  <2>7. T("running", outbox'[k])
    BY <2>5, <2>6
  <2>. QED
    BY <1>3, <1>7, <2>1, <2>6, <2>7 DEF Stages
<1>14. CASE e.kind = "finished"
  <2>1. /\ state' = [state EXCEPT ![k] = "leaving"]
        /\ UNCHANGED <<surfaces, lock, input, outbox>>
    BY <1>2, <1>14 DEF Finished
  <2>2. s \in {"running", "leaving"}
    BY <1>1, <1>5, <1>14 DEF InKinds
  <2>3. T("leaving", outbox[k])
    BY <1>4, <2>2, TalkMoved DEF T
  <2>. QED
    BY <1>3, <1>7, <2>1, <2>3 DEF Stages, AreStreams
<1>15. CASE e.kind \in {"locked", "void"}
  <2>1. UNCHANGED <<state, surfaces, lock, input, outbox>>
    BY <1>2, <1>15 DEF app
  <2>. QED
    BY <1>3, <1>4, <1>8, <2>1 DEF AreStreams
<1>. QED
  BY <1>2, <1>10, <1>11, <1>12, <1>13, <1>14, <1>15

-----------------------------------------------------------------------------
(* A step keeps the invariant, and the session locked. *)
LEMMA LockStep ==
    LockInv /\ [KumLockNext]_vars => LockInv' /\ (locked => locked')
<1>. SUFFICES ASSUME LockInv, [KumLockNext]_vars
     PROVE  LockInv' /\ (locked => locked')
  OBVIOUS
<1>1. CASE UNCHANGED vars
  <2>1. UNCHANGED <<present, session, bound, app, wire, outbox, inbox, counts>>
    BY <1>1 DEF vars, streams
  <2>. QED
    BY <2>1 DEF LockInv, KumLockTypeOK, AreStreams, Sane, session, app, counts
<1>2. ASSUME NEW o \in Outputs, Plug(o) \/ Unplug(o) \/ ChangeMode(o)
      PROVE  LockInv' /\ locked' = locked
  <2>1. LockInv'
    BY <1>2, PlugKeeps, UnplugKeeps, ChangeModeKeeps
  <2>2. locked' = locked
    BY <1>2 DEF Plug, Unplug, ChangeMode, session
  <2>. QED
    BY <2>1, <2>2
<1>3. ASSUME NEW c \in KeyNames, PressKey(c)
      PROVE  LockInv' /\ locked' = locked
  <2>1. LockInv'
    BY <1>3, PressKeyKeeps
  <2>2. locked' = locked
    BY <1>3 DEF PressKey, session
  <2>. QED
    BY <2>1, <2>2
<1>4. ASSUME NEW k \in Lockers,
             Start(k) \/ Dispatch(k) \/ Flush(k) \/ Leave(k) \/ Killed(k)
      PROVE  LockInv' /\ locked' = locked
  <2>1. LockInv'
    BY <1>4, StartKeeps, DispatchKeeps, FlushKeeps, LeaveKeeps
  <2>2. locked' = locked
    BY <1>4 DEF Start, Dispatch, Flush, Leave, Killed, session
  <2>. QED
    BY <2>1, <2>2
<1>5. ASSUME NEW k \in Lockers, TakeRequest(k)
      PROVE  LockInv' /\ (locked => locked')
  BY <1>5, TakeRequestKeeps
<1>6. ASSUME NEW k \in Lockers, Hangup(k)
      PROVE  LockInv' /\ locked' = locked
  BY <1>6, HangupKeeps
<1>. QED
  BY <1>1, <1>2, <1>3, <1>4, <1>5, <1>6 DEF KumLockNext

(* The invariant of the section: what may be on its way to and from a      *)
(* locker in each of its states.                                           *)
THEOREM LockKept == KumLockSpec => []LockInv
<1>. QED
  BY LockStart, LockStep, PTL DEF KumLockSpec

(* kumde and its lockers keep their types: prompts are on outputs that are *)
(* plugged in and only while a locker holds the lock, which locks the      *)
(* session; and no password outgrows its buffer, whatever is typed.        *)
THEOREM LockTypeCorrect == KumLockSpec => []KumLockTypeOK
<1>1. LockInv => KumLockTypeOK
  BY DEF LockInv
<1>. QED
  BY <1>1, LockKept, PTL

(* A locker started while another holds the lock, at any point of its      *)
(* life, disturbs neither the lock nor a prompt.                           *)
THEOREM PromptsKept == KumLockSpec => HolderKeepsPrompts
<1> DEFINE Kept == holder # NoLocker /\ holder' # NoLocker =>
                      holder' = holder /\ prompts \cap present' \subseteq prompts'
<1>1. ASSUME LockInv, [KumLockNext]_vars
      PROVE  [Kept]_vars
  <2>1. CASE UNCHANGED vars
    BY <2>1 DEF vars
  <2>2. ASSUME NEW o \in Outputs, Plug(o) \/ Unplug(o) \/ ChangeMode(o)
        PROVE  Kept
    <3>1. \/ UNCHANGED session
          \/ present' = present \ {o} /\ prompts' = prompts \ {o} /\ holder' = holder
      BY <2>2 DEF Plug, Unplug, ChangeMode
    <3>. QED
      BY <3>1 DEF session
  <2>3. ASSUME NEW c \in KeyNames, PressKey(c)
        PROVE  Kept
    BY <2>3 DEF PressKey, session
  <2>4. ASSUME NEW k \in Lockers,
               Start(k) \/ Dispatch(k) \/ Flush(k) \/ Leave(k) \/ Killed(k)
        PROVE  Kept
    BY <2>4 DEF Start, Dispatch, Flush, Leave, Killed, session
  <2>5. ASSUME NEW k \in Lockers, TakeRequest(k)
        PROVE  Kept
    <3>1. CASE UNCHANGED session
      BY <3>1 DEF session
    <3>2. CASE NewLock(k)
      BY <3>2 DEF NewLock
    <3>3. CASE UnlockAndDestroy(k)
      BY <3>3 DEF UnlockAndDestroy, LockDestroyed, session
    <3>4. ASSUME NEW o, NewSurface(k, o) /\ UNCHANGED <<holder, locked>>
          PROVE  Kept
      BY <3>4 DEF NewSurface
    <3>. QED
      BY <2>5, <3>1, <3>2, <3>3, <3>4 DEF TakeRequest
  <2>6. ASSUME NEW k \in Lockers, Hangup(k)
        PROVE  Kept
    <3>1. Dropped(k)
      BY <2>6 DEF Hangup
    <3>. QED
      BY <3>1 DEF Dropped, LockDestroyed
  <2>. QED
    BY <1>1, <2>1, <2>2, <2>3, <2>4, <2>5, <2>6 DEF KumLockNext
<1>. QED
  BY <1>1, LockKept, PTL DEF KumLockSpec, HolderKeepsPrompts

(* What attempt_unlock() writes is flushed by nothing (main.c:493), so no  *)
(* password, typed on any locker at any time, ends the lock: the finding   *)
(* password_unlocks is the rule, not an accident of one schedule.          *)
THEOREM LockedForGood == KumLockSpec => [][locked => locked']_vars
<1>1. LockInv /\ [KumLockNext]_vars => [locked => locked']_vars
  BY LockStep
<1>. QED
  BY <1>1, LockKept, PTL DEF KumLockSpec
=============================================================================

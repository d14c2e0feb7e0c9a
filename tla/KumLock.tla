------------------------------ MODULE KumLock ------------------------------
(***************************************************************************)
(* The screen locker, src/kumlock/src/main.c, against the session lock of  *)
(* kumde (src/sessionlock.c), with the connection between them.  Lockers   *)
(* may be started again while one holds the lock (kumidle does, on every   *)
(* idle period); outputs come, go and change their mode meanwhile.  What a *)
(* locker writes stays in its own memory until wl_display_dispatch(), or a *)
(* roundtrip, flushes it.                                                  *)
(***************************************************************************)
EXTENDS Integers, SequencesExt

CONSTANTS
    Lockers,    \* every kumlock process that may ever run
    NoLocker,
    Outputs,    \* every output that may ever be plugged in
    NoOutput,
    Return, BackSpace, Escape,
    Chars,      \* what any other key types: the bytes of its UTF-8 encoding
    Password,   \* the bytes PAM accepts
    InputMax,   \* INPUT_MAX
    MaxKeys,    \* bound on the keys pressed
    MaxChanges  \* bound on what happens to outputs: plugs, unplugs, modes

ASSUME KumLockAssumption ==
    /\ NoLocker \notin Lockers
    /\ IsFiniteSet(Outputs) /\ NoOutput \notin Outputs
    /\ {MaxKeys, MaxChanges} \subseteq Nat
    /\ Chars \subseteq Seq(Nat)
    /\ InputMax \in Nat \ {0, 1}

VARIABLES
    present,    \* the outputs of kumde
    holder,     \* the locker behind server->active_lock
    locked,     \* server->locked
    prompts,    \* the outputs on which the holder has a lock surface
    typing,     \* the output whose prompt has the keyboard, plugged in or not
    state,      \* of each locker; "gone" until kumde notices, then "closed"
    bound,      \* the outputs each locker has a wl_output of
    surfaces,   \* app.surfaces: the outputs each locker knows of
    lock,       \* the lockers whose app.lock is not NULL
    input,      \* app.input
    outbox,     \* requests written and not flushed
    wire,       \* requests on the way to kumde
    inbox,      \* events on the way to the locker
    keys, changes,
    unlocking   \* history: the lockers whose password was accepted and whose
                \* unlock has not reached kumde

session == <<holder, locked, prompts, typing>>
streams == <<outbox, wire, inbox>>
counts  == <<keys, changes>>
app     == <<state, surfaces, lock, input, unlocking>>
vars == <<present, session, bound, app, streams, counts>>

Msg(k, o)  == [kind |-> k, of |-> o]
Plain(k)   == Msg(k, NoOutput)

KeyNames == {Return, BackSpace, Escape} \cup Chars

(* Every variable has its type; the password never outgrows its buffer.    *)
KumLockTypeOK ==
    /\ present \subseteq Outputs
    /\ holder \in Lockers \cup {NoLocker}
    /\ locked \in BOOLEAN
    /\ holder # NoLocker => locked
    /\ prompts \subseteq present
    /\ typing \in Outputs \cup {NoOutput}
    /\ holder = NoLocker => prompts = {} /\ typing = NoOutput
    /\ state \in [Lockers -> {"none", "starting", "running", "leaving", "gone",
                              "closed"}]
    /\ bound \in [Lockers -> SUBSET present]
    /\ surfaces \in [Lockers -> SUBSET present]
    /\ lock \subseteq Lockers
    /\ \A k \in Lockers : Len(input[k]) < InputMax - 1
    /\ keys \in 0..MaxKeys /\ changes \in 0..MaxChanges

KumLockInit ==
    /\ present \in SUBSET Outputs
    /\ holder = NoLocker /\ locked = FALSE /\ prompts = {} /\ unlocking = {}
    /\ typing = NoOutput
    /\ state = [k \in Lockers |-> "none"]
    /\ bound = [k \in Lockers |-> {}]
    /\ surfaces = [k \in Lockers |-> {}]
    /\ lock = {}
    /\ input = [k \in Lockers |-> << >>]
    /\ outbox = [k \in Lockers |-> << >>]
    /\ wire = [k \in Lockers |-> << >>]
    /\ inbox = [k \in Lockers |-> << >>]
    /\ keys = 0 /\ changes = 0

Alive(k) == state[k] \in {"starting", "running", "leaving"}

(* An event to every locker of ks. *)
Post(ks, e) == inbox' = [k \in Lockers |-> IF k \in ks THEN Append(inbox[k], e)
                                           ELSE inbox[k]]
-----------------------------------------------------------------------------
(* The requests of kind n that name the outputs of S. *)
Each(n, S) == [i \in 1..Cardinality(S) |-> Msg(n, SetToSeq(S)[i])]

(* main() up to the second wl_display_roundtrip(): the first one has told  *)
(* the locker of every output, the second one ends when kumde answers.     *)
Start(k) ==
    /\ state[k] = "none"
    /\ state' = [state EXCEPT ![k] = "starting"]
    /\ surfaces' = [surfaces EXCEPT ![k] = present]
    /\ wire' = [wire EXCEPT ![k] = Append(Each("bind", present), Plain("sync"))]
    /\ UNCHANGED <<present, session, bound, lock, input, unlocking, outbox, inbox,
                   counts>>

(* Outputs of the compositor: a locker sees a global, binds it, and is     *)
(* sent its description, which ends in done.  A new mode is described in   *)
(* the same way.  What still names an output that is gone, on its way, is  *)
(* taken and ignored.                                                      *)
OutputChange == changes < MaxChanges /\ changes' = changes + 1

Plug(o) ==
    /\ o \notin present
    /\ OutputChange
    /\ present' = present \cup {o}
    /\ Post({k \in Lockers : Alive(k)}, Msg("global", o))
    /\ UNCHANGED <<session, bound, app, outbox, wire, keys>>

Ignored(s, o) == [i \in DOMAIN s |-> IF s[i].of = o THEN Plain("void") ELSE s[i]]

(* The lock surface goes with its output; the locker does not listen to    *)
(* registry_remove() and keeps the wl_surface, and with it the keyboard.   *)
Unplug(o) ==
    /\ o \in present
    /\ OutputChange
    /\ present' = present \ {o}
    /\ prompts' = prompts \ {o}
    /\ bound' = [k \in Lockers |-> bound[k] \ {o}]
    /\ surfaces' = [k \in Lockers |-> surfaces[k] \ {o}]
    /\ outbox' = [k \in Lockers |-> Ignored(outbox[k], o)]
    /\ wire' = [k \in Lockers |-> Ignored(wire[k], o)]
    /\ inbox' = [k \in Lockers |-> Ignored(inbox[k], o)]
    /\ UNCHANGED <<holder, locked, typing, state, lock, input, unlocking, keys>>

ChangeMode(o) ==
    /\ o \in present
    /\ OutputChange
    /\ Post({k \in Lockers : Alive(k) /\ o \in bound[k]}, Msg("done", o))
    /\ UNCHANGED <<present, session, bound, app, outbox, wire, keys>>

(* keyboard_key(): a locked session passes every key on, to the prompt     *)
(* that has the keyboard.                                                  *)
PressKey(c) ==
    /\ typing # NoOutput /\ keys < MaxKeys
    /\ keys' = keys + 1
    /\ Post({holder}, Msg("key", c))
    /\ UNCHANGED <<present, session, bound, app, outbox, wire, changes>>
-----------------------------------------------------------------------------
(* Mutant of NewLock: a lock is granted whoever has it. *)
NewLockAlways(k) ==
    /\ holder' = k /\ locked' = TRUE /\ prompts' = {} /\ typing' = NoOutput
    /\ Post({k}, Plain("locked"))

(* new_session_lock() *)
NewLock(k) ==
    /\ IF holder # NoLocker \/ locked
       THEN Post({k}, Plain("finished")) /\ UNCHANGED <<holder, locked>>
       ELSE holder' = k /\ locked' = TRUE /\ Post({k}, Plain("locked"))
    /\ UNCHANGED <<prompts, typing>>

(* active_lock_destroy() *)
LockDestroyed == holder' = NoLocker /\ prompts' = {} /\ typing' = NoOutput

(* The client is gone, and the session stays as it is. *)
Dropped(k) == IF holder = k THEN LockDestroyed
              ELSE UNCHANGED <<holder, prompts, typing>>

(* active_lock_new_surface() *)
NewSurface(k, o) ==
    IF holder = k THEN prompts' = prompts \cup {o} /\ typing' = o
    ELSE UNCHANGED <<prompts, typing>>

(* active_lock_unlock(), and active_lock_destroy() with it *)
UnlockAndDestroy(k) ==
    IF holder = k THEN LockDestroyed /\ locked' = FALSE ELSE UNCHANGED session

(* A second lock surface for one output is a protocol error. *)
Duplicate(k, m) == m.kind = "surface" /\ holder = k /\ m.of \in prompts

(* kumde takes a request.  A lock that was refused has no lock surfaces.   *)
TakeRequest(k) ==
    LET m == Head(wire[k]) IN
    /\ wire[k] # << >> /\ state[k] # "closed"
    /\ ~Duplicate(k, m)
    /\ wire' = [wire EXCEPT ![k] = Tail(@)]
    /\ \/ m.kind = "bind" /\ Post({k}, Msg("done", m.of)) /\ UNCHANGED session
       \/ m.kind = "sync" /\ Post({k}, Plain("synced")) /\ UNCHANGED session
       \/ m.kind = "lock" /\ NewLock(k)
       \/ m.kind = "void" /\ UNCHANGED <<session, inbox>>
       \/ /\ m.kind \in {"surface", "unlock"}
          /\ IF m.kind = "unlock" THEN UnlockAndDestroy(k)
             ELSE NewSurface(k, m.of) /\ UNCHANGED <<holder, locked>>
          /\ UNCHANGED inbox
    /\ bound' = IF m.kind = "bind" THEN [bound EXCEPT ![k] = @ \cup {m.of}] ELSE bound
    /\ unlocking' = IF m.kind = "unlock" THEN unlocking \ {k} ELSE unlocking
    /\ UNCHANGED <<present, state, surfaces, lock, input, outbox, counts>>

(* The connection ends: closed by the locker, with whatever of it kumde    *)
(* has not taken, or by kumde for a protocol error.                        *)
Hangup(k) ==
    /\ \/ state[k] = "gone"
       \/ Alive(k) /\ wire[k] # << >> /\ Duplicate(k, Head(wire[k]))
    /\ state' = [state EXCEPT ![k] = "closed"]
    /\ bound' = [bound EXCEPT ![k] = {}]
    /\ surfaces' = [surfaces EXCEPT ![k] = {}]
    /\ input' = [input EXCEPT ![k] = << >>]
    /\ outbox' = [outbox EXCEPT ![k] = << >>]
    /\ wire' = [wire EXCEPT ![k] = << >>]
    /\ inbox' = [inbox EXCEPT ![k] = << >>]
    /\ Dropped(k)
    /\ UNCHANGED <<present, locked, lock, unlocking, counts>>
-----------------------------------------------------------------------------
Write(k, ms) == outbox' = [outbox EXCEPT ![k] = @ \o ms]

(* attempt_unlock(): with the lock already given back, a second Return     *)
(* follows a NULL pointer.                                                 *)
AttemptUnlock(k) ==
    IF input[k] # Password
    THEN /\ input' = [input EXCEPT ![k] = << >>]
         /\ UNCHANGED <<state, lock, unlocking, outbox>>
    ELSE /\ UNCHANGED input
         /\ lock' = lock \ {k}
         /\ unlocking' = unlocking \cup {k}
         /\ IF k \in lock
            THEN Write(k, <<Plain("unlock")>>) /\ state' = [state EXCEPT ![k] = "leaving"]
            ELSE UNCHANGED outbox /\ state' = [state EXCEPT ![k] = "gone"]

(* Mutant of Edited: the limit is the size of the buffer. *)
EditedToTheEnd(s, c) ==
    IF c = BackSpace THEN (IF s = << >> THEN s ELSE Front(s))
    ELSE IF c = Escape THEN << >>
    ELSE IF Len(s) + Len(c) < InputMax THEN s \o c ELSE s

(* handle_key(), for a key other than Return: BackSpace takes one byte.    *)
Edited(s, c) ==
    IF c = BackSpace THEN (IF s = << >> THEN s ELSE Front(s))
    ELSE IF c = Escape THEN << >>
    ELSE IF Len(s) + Len(c) < InputMax - 1 THEN s \o c ELSE s

HandleKey(k, c) ==
    IF c = Return THEN AttemptUnlock(k)
    ELSE /\ input' = [input EXCEPT ![k] = Edited(@, c)]
         /\ UNCHANGED <<state, lock, unlocking, outbox>>

(* Mutant of WlOutputDone: only main() makes lock surfaces. *)
NoLateSurface(k, o) == UNCHANGED outbox

(* wl_output_done(): a lock surface, whether there is one already or not.  *)
WlOutputDone(k, o) ==
    IF k \in lock THEN Write(k, <<Msg("surface", o)>>) ELSE UNCHANGED outbox

(* registry_global() *)
RegistryGlobal(k, o) ==
    /\ surfaces' = [surfaces EXCEPT ![k] = @ \cup {o}]
    /\ Write(k, <<Msg("bind", o)>>)

(* The second roundtrip of main() is over: the lock, and a lock surface    *)
(* for every output known by now.                                          *)
LockAll(k) ==
    /\ state' = [state EXCEPT ![k] = "running"]
    /\ lock' = lock \cup {k}
    /\ Write(k, <<Plain("lock")>> \o Each("surface", surfaces[k]))

(* Mutant of Finished: the refusal is not listened to. *)
FinishedIgnored(k) == UNCHANGED state

(* session_lock_finished() *)
Finished(k) == state' = [state EXCEPT ![k] = "leaving"]

(* wl_display_dispatch(): one event.  A locker told to leave still handles *)
(* the events it has read along with the one that told it.                 *)
Dispatch(k) ==
    LET e == Head(inbox[k]) IN
    /\ Alive(k) /\ inbox[k] # << >>
    /\ inbox' = [inbox EXCEPT ![k] = Tail(@)]
    /\ \/ e.kind = "key" /\ HandleKey(k, e.of) /\ UNCHANGED surfaces
       \/ /\ e.kind = "global" /\ RegistryGlobal(k, e.of)
          /\ UNCHANGED <<state, lock, input, unlocking>>
       \/ e.kind = "done" /\ WlOutputDone(k, e.of) /\ UNCHANGED app
       \/ e.kind = "synced" /\ LockAll(k) /\ UNCHANGED <<surfaces, input, unlocking>>
       \/ /\ e.kind = "finished" /\ Finished(k)
          /\ UNCHANGED <<surfaces, lock, input, unlocking, outbox>>
       \/ e.kind \in {"locked", "void"} /\ UNCHANGED <<app, outbox>>
    /\ UNCHANGED <<present, session, bound, wire, counts>>

(* The next wl_display_dispatch() or roundtrip flushes, while the locker   *)
(* has not been told to leave.                                             *)
Flush(k) ==
    /\ state[k] \in {"starting", "running"} /\ outbox[k] # << >>
    /\ wire' = [wire EXCEPT ![k] = @ \o outbox[k]]
    /\ outbox' = [outbox EXCEPT ![k] = << >>]
    /\ UNCHANGED <<present, session, bound, app, inbox, counts>>

(* main() returns: nothing flushes.                                        *)
Leave(k) ==
    /\ state[k] = "leaving"
    /\ state' = [state EXCEPT ![k] = "gone"]
    /\ outbox' = [outbox EXCEPT ![k] = << >>]
    /\ UNCHANGED <<present, session, bound, surfaces, lock, input, unlocking, wire,
                   inbox, counts>>

(* A locker is killed. *)
Killed(k) ==
    /\ state[k] \in {"starting", "running"}
    /\ state' = [state EXCEPT ![k] = "gone"]
    /\ UNCHANGED <<present, session, bound, surfaces, lock, input, unlocking, streams,
                   counts>>
-----------------------------------------------------------------------------
KumLockNext ==
    \/ \E o \in Outputs : Plug(o) \/ Unplug(o) \/ ChangeMode(o)
    \/ \E c \in KeyNames : PressKey(c)
    \/ \E k \in Lockers :
          \/ Start(k) \/ TakeRequest(k) \/ Hangup(k)
          \/ Dispatch(k) \/ Flush(k) \/ Leave(k) \/ Killed(k)

(* Lockers and kumde run; nobody has to start, press, plug or kill.        *)
KumLockSpec ==
    /\ KumLockInit /\ [][KumLockNext]_vars
    /\ \A k \in Lockers :
          /\ WF_vars(TakeRequest(k)) /\ WF_vars(Hangup(k))
          /\ WF_vars(Dispatch(k)) /\ WF_vars(Flush(k)) /\ WF_vars(Leave(k))
-----------------------------------------------------------------------------
(* A locker started while the session is locked (kumidle/src/main.c:36)    *)
(* disturbs nothing: the lock stays with its holder, and its prompts with  *)
(* their outputs, until the holder itself goes or unlocks.                 *)
HolderKeepsPrompts ==
    [][holder # NoLocker /\ holder' # NoLocker =>
          holder' = holder /\ prompts \cap present' \subseteq prompts']_vars

(* README.md:285, kumlock "Locks all outputs": as long as the holder is    *)
(* there, every output that stays plugged in gets its prompt, the ones     *)
(* plugged in after the lock included.                                     *)
EveryOutputPrompts ==
    \A o \in Outputs :
        holder # NoLocker /\ o \in present
            ~> o \in prompts \/ o \notin present \/ holder = NoLocker

(* A locker that is not given the lock goes away (main.c:374).             *)
RefusedLeave ==
    \A k \in Lockers :
        state[k] = "starting" ~> holder = k \/ state[k] = "closed"

(* README.md:285: the password is verified, and the session unlocks.  A    *)
(* locker whose password was accepted, and that kumde has seen go, has     *)
(* ended the lock.  It does not hold.                                      *)
PasswordUnlocks == \A k \in unlocking : state[k] # "closed"
=============================================================================

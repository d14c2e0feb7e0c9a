----------------------------- MODULE KumNotify -----------------------------
(***************************************************************************)
(* The notification daemon, src/kumnotify/src/main.c: one loop that polls  *)
(* the compositor's events and a datagram socket, shows what programs send *)
(* in a fixed number of slots, and takes each away when its time is up,    *)
(* when it is clicked, when the compositor closes it, or to make room.     *)
(* The compositor sees what the daemon asks for later, and its events may  *)
(* be about a notification that is gone.                                   *)
(*                                                                         *)
(* A notification is its id; 0 is none.  Times are relative: what is left. *)
(***************************************************************************)
EXTENDS Integers, FiniteSets, Sequences

CONSTANTS
    Messages,       \* what programs send
    Slots,          \* NOTIF_MAX
    Duration,       \* NOTIF_DUR
    MaxSent,        \* bound on the messages sent
    MaxEvents,      \* bound on the events on their way
    MaxLate         \* bound on how late the loop may be

ASSUME NotifyAssumption ==
    /\ Messages \subseteq [app : BOOLEAN, summary : BOOLEAN, body : BOOLEAN,
                           time : Int]
    /\ Slots \in Nat \ {0} /\ Duration \in Nat \ {0}
    /\ MaxSent \in Nat /\ MaxEvents \in Nat /\ MaxLate \in Nat

VARIABLES
    notifs,     \* app.notifs
    nextId,     \* app.next_id
    pointer,    \* the notification whose surface had app.pointer_surface's address
    sent,       \* how many messages were sent
    inbox,      \* the socket
    events,     \* on the way from the compositor
    loop,       \* where main()'s loop is
    batch,      \* the events that wl_display_dispatch() has left to handle
    readable,   \* POLLIN of the socket
    wake,       \* the time left to poll(), or Never
    screen,     \* what the compositor knows of each notification
    over        \* the notification the compositor's pointer is on

notifyVars == <<notifs, nextId, pointer, sent, inbox, events, loop, batch,
                readable, wake, screen, over>>

compositor == <<screen, over>>

Ids    == 1 .. MaxSent
Places == 0 .. Slots - 1
Never  == Duration + MaxLate + MaxSent      \* out of reach of every time left
Empty  == [id |-> 0, left |-> 0, configured |-> FALSE, top |-> 0]
Event(k, n) == [kind |-> k, note |-> n]

Shown    == {i \in Places : notifs[i].id # 0}
Active   == {notifs[i].id : i \in Shown}
Place(n) == CHOOSE i \in Places : notifs[i].id = n
-----------------------------------------------------------------------------
(* restack(): from the last slot to the first, one height and gap apart.   *)
Restack(ns) ==
    [i \in Places |->
        IF ns[i].id = 0 THEN ns[i]
        ELSE [ns[i] EXCEPT !.top = Cardinality({j \in Places : j > i /\ ns[j].id # 0})]]

(* Mutant of Dismissed: the others stay where they are. *)
DismissedAlone(ns, i) == [ns EXCEPT ![i] = Empty]

(* dismiss() *)
Dismissed(ns, i) == Restack([ns EXCEPT ![i] = Empty])

Least(S) == CHOOSE i \in S : \A j \in S : i <= j

(* Mutant of Oldest: the first slot. *)
FirstSlot(ns) == 0

(* The slot show() empties when all are taken. *)
Oldest(ns) == Least({i \in Places : \A j \in Places : ns[i].left <= ns[j].left})

(* handle_msg(): what follows an empty field is not read. *)
Says(m)    == m.app /\ m.summary
TimeFor(m) == IF m.body /\ m.time > 0 THEN m.time ELSE Duration

(* show(), which may be given the memory of the surface it had to destroy, *)
(* or of any other: pointer_surface may be that address.                   *)
Show(m) ==
    LET free == Places \ Shown
        kept == IF free = {} THEN Dismissed(notifs, Oldest(notifs)) ELSE notifs
        i    == IF free = {} THEN Oldest(notifs) ELSE Least(free)
        new  == [id |-> nextId + 1, left |-> TimeFor(m), configured |-> FALSE, top |-> 0]
        stale == pointer # 0 /\ \A j \in Places : kept[j].id # pointer
    IN  /\ notifs' = Restack([kept EXCEPT ![i] = new])
        /\ nextId' = nextId + 1
        /\ pointer' \in {pointer} \cup (IF stale THEN {nextId + 1} ELSE {})

(* Mutant of NextWake: what is not configured yet is not waited for. *)
NextWakeDrawn(ns) ==
    LET waiting == {i \in Places : ns[i].id # 0 /\ ns[i].configured}
    IN  IF waiting = {} THEN Never ELSE Least({ns[i].left : i \in waiting})

(* The timeout the loop gives to poll(). *)
NextWake(ns) ==
    LET waiting == {i \in Places : ns[i].id # 0}
    IN  IF waiting = {} THEN Never ELSE Least({ns[i].left : i \in waiting})

NotifyInit ==
    /\ notifs = [i \in Places |-> Empty]
    /\ nextId = 0 /\ pointer = 0
    /\ sent = 0 /\ inbox = << >> /\ events = << >>
    /\ loop = "poll" /\ batch = 0 /\ readable = FALSE /\ wake = Never
    /\ screen = [n \in Ids |-> "none"]
    /\ over = 0
-----------------------------------------------------------------------------
(* Mutant of Poll: the socket is not polled. *)
PollDeaf ==
    /\ loop = "poll"
    /\ events # << >> \/ wake <= 0
    /\ loop' = "dispatch"
    /\ batch' = Len(events)
    /\ readable' = (inbox # << >>)
    /\ UNCHANGED <<notifs, nextId, pointer, sent, inbox, events, wake, compositor>>

(* poll() returns *)
Poll ==
    /\ loop = "poll"
    /\ events # << >> \/ inbox # << >> \/ wake <= 0
    /\ loop' = "dispatch"
    /\ batch' = Len(events)
    /\ readable' = (inbox # << >>)
    /\ UNCHANGED <<notifs, nextId, pointer, sent, inbox, events, wake, compositor>>

(* Mutant of Entered: only after a leave, which a destroyed surface lacks. *)
EnteredOnce(n) == pointer' = IF pointer = 0 /\ n \in Active THEN n ELSE pointer

(* ptr_enter(): libwayland gives NULL for a surface destroyed meanwhile. *)
Entered(n) == pointer' = IF n \in Active THEN n ELSE 0

(* ptr_button() *)
Pressed ==
    /\ notifs' = IF pointer \in Active THEN Dismissed(notifs, Place(pointer)) ELSE notifs
    /\ pointer' = IF pointer \in Active THEN 0 ELSE pointer

(* ptr_leave() *)
Left == pointer' = 0

(* lsc_configure() and its render() *)
Configured(n) == notifs' = [notifs EXCEPT ![Place(n)].configured = TRUE]

(* lsc_closed() *)
Closed(n) == notifs' = Dismissed(notifs, Place(n))

(* wl_display_dispatch(), one event: those of an object that the daemon    *)
(* has destroyed are dropped.                                              *)
Dispatch ==
    LET e == Head(events) IN
    /\ loop = "dispatch" /\ batch > 0
    /\ batch' = batch - 1
    /\ events' = Tail(events)
    /\ \/ e.kind = "enter"  /\ Entered(e.note) /\ UNCHANGED notifs
       \/ e.kind = "leave"  /\ Left /\ UNCHANGED notifs
       \/ e.kind = "button" /\ Pressed
       \/ e.kind = "configure" /\ e.note \in Active /\ Configured(e.note) /\ UNCHANGED pointer
       \/ e.kind = "closed"    /\ e.note \in Active /\ Closed(e.note)     /\ UNCHANGED pointer
       \/ /\ e.kind \in {"configure", "closed"} /\ e.note \notin Active
          /\ UNCHANGED <<notifs, pointer>>
    /\ UNCHANGED <<nextId, sent, inbox, loop, readable, wake, compositor>>

(* recv() and handle_msg(): one message each time round *)
Receive ==
    /\ loop = "dispatch" /\ batch = 0
    /\ loop' = "expire"
    /\ IF readable
       THEN /\ inbox' = Tail(inbox)
            /\ IF Says(Head(inbox)) THEN Show(Head(inbox))
               ELSE UNCHANGED <<notifs, nextId, pointer>>
       ELSE UNCHANGED <<notifs, nextId, pointer, inbox>>
    /\ UNCHANGED <<sent, events, batch, readable, wake, compositor>>

(* The end of the loop, and its top up to poll() *)
Expire ==
    /\ loop = "expire"
    /\ loop' = "poll"
    /\ notifs' = Restack([i \in Places |->
                    IF notifs[i].id # 0 /\ notifs[i].left <= 0 THEN Empty ELSE notifs[i]])
    /\ wake' = NextWake(notifs')
    /\ UNCHANGED <<nextId, pointer, sent, inbox, events, batch, readable, compositor>>
-----------------------------------------------------------------------------
Tick ==
    /\ Shown # {}
    /\ \A i \in Shown : notifs[i].left > -MaxLate
    /\ notifs' = [i \in Places |->
                    IF i \in Shown THEN [notifs[i] EXCEPT !.left = @ - 1] ELSE notifs[i]]
    /\ wake' = IF wake = Never THEN Never ELSE wake - 1
    /\ UNCHANGED <<nextId, pointer, sent, inbox, events, loop, batch, readable, compositor>>

Send(m) ==
    /\ sent < MaxSent
    /\ sent' = sent + 1
    /\ inbox' = Append(inbox, m)
    /\ UNCHANGED <<notifs, nextId, pointer, events, loop, batch, readable, wake, compositor>>

Tell(es) ==
    /\ Len(events) + Len(es) <= MaxEvents
    /\ events' = events \o es
    /\ UNCHANGED <<notifs, nextId, pointer, sent, inbox, loop, batch, readable, wake>>

(* The compositor handles what the daemon has asked for: a new layer       *)
(* surface is configured, one that was drawn is shown, and one destroyed   *)
(* leaves the pointer on nothing, with no event.                           *)
CatchUp ==
    LET new == {n \in Active : screen[n] = "none"} IN
    /\ screen' = [n \in Ids |->
                    IF n \notin Active THEN "none"
                    ELSE IF screen[n] = "none" THEN "asked"
                    ELSE IF screen[n] = "asked" /\ notifs[Place(n)].configured THEN "mapped"
                    ELSE screen[n]]
    /\ over' = IF over \in Active THEN over ELSE 0
    /\ screen' # screen
    /\ IF new = {} THEN Tell(<< >>)
       ELSE \E order \in [1 .. Cardinality(new) -> new] :
               /\ \A n \in new : \E i \in DOMAIN order : order[i] = n
               /\ Tell([i \in DOMAIN order |-> Event("configure", order[i])])

PointerMoves(n) ==
    /\ n \in {0} \cup {k \in Ids : screen[k] = "mapped"}
    /\ n # over
    /\ over' = n
    /\ Tell((IF over = 0 THEN << >> ELSE <<Event("leave", over)>>)
            \o (IF n = 0 THEN << >> ELSE <<Event("enter", n)>>))
    /\ UNCHANGED screen

Press ==
    /\ over # 0
    /\ Tell(<<Event("button", over)>>)
    /\ UNCHANGED compositor

(* The output a notification is on is unplugged. *)
Close(n) ==
    /\ screen[n] \in {"asked", "mapped"}
    /\ screen' = [screen EXCEPT ![n] = "closed"]
    /\ Tell(<<Event("closed", n)>>)
    /\ UNCHANGED over

Daemon == Poll \/ Dispatch \/ Receive \/ Expire

NotifyNext ==
    \/ Daemon \/ Tick \/ CatchUp \/ Press
    \/ \E m \in Messages : Send(m)
    \/ \E n \in Ids : Close(n)
    \/ \E n \in Ids \cup {0} : PointerMoves(n)

(* The daemon is never stopped, and time goes on. *)
NotifySpec == NotifyInit /\ [][NotifyNext]_notifyVars /\ WF_notifyVars(Daemon)
                         /\ WF_notifyVars(Tick)
-----------------------------------------------------------------------------
(* Notifications on the screen neither overlap nor leave a gap: whatever   *)
(* is shown, evicted, clicked, closed or expired, restack() has placed the *)
(* others.                                                                 *)
Stacked ==
    \A i, j \in Shown :
        /\ notifs[i].id = notifs[j].id => i = j
        /\ i < j => notifs[i].top > notifs[j].top
        /\ notifs[i].top < Cardinality(Shown)

(* A click dismisses the notification it was made on, and no other, as     *)
(* long as it is there when ptr_button() gets to it: whatever the pointer  *)
(* has entered since, and whichever notifications have come and gone.      *)
ClickDismisses ==
    [][loop = "dispatch" /\ batch > 0 /\ batch' < batch
       /\ Head(events).kind = "button" /\ Head(events).note \in Active
       => Active' = Active \ {Head(events).note}]_notifyVars

(* A notification is taken away because it was closed, in answer to a      *)
(* click, when its time is up, or when every slot is taken and none of the *)
(* others would expire before it.                                          *)
LeavesForReason ==
    [][\A n \in Active \ Active' :
          \/ /\ loop = "dispatch" /\ batch > 0
             /\ Head(events) = Event("closed", n) \/ Head(events).kind = "button"
          \/ notifs[Place(n)].left <= 0
          \/ /\ Shown = Places
             /\ \A i \in Places : notifs[Place(n)].left <= notifs[i].left]_notifyVars

(* Every notification goes away by itself, even when the compositor never  *)
(* answers: the timeout given to poll() is never too long.                 *)
EveryOneGoes == \A n \in Ids : n \in Active ~> n \notin Active

(* Every message is read: one each time round is enough, as poll() does    *)
(* not wait while the socket has another.                                  *)
EveryMessageRead == inbox # << >> ~> inbox = << >>
=============================================================================

-------------------------------- MODULE Bar --------------------------------
(***************************************************************************)
(* The status bar: kumbar (src/kumbar/src/main.c) mirrors what the outputs *)
(* show from the events that kumde (src/ipc.c) writes to a socket.  Every  *)
(* step of Workspaces.tla that broadcasts appends to the socket; kumbar    *)
(* reads it in its own time, is restarted, and connects late.              *)
(*                                                                         *)
(* An event is a line, and a read may end in the middle of one, so lines   *)
(* are cut in pieces: a title takes more of kumbar's buffer than an index. *)
(* Of the events about windows only the room they take is modelled.        *)
(***************************************************************************)
EXTENDS Workspaces

CONSTANTS
    MaxLink,    \* how many pieces the socket holds
    MaxRead,    \* how many kumbar's buffers hold: KUMBAR_IPC_BUF
    MaxLosses   \* bound on how often either overflows

ASSUME BarAssumption ==
    /\ MaxLink \in Nat /\ MaxLink >= 2 * Cardinality(Outputs) + 2
    /\ MaxRead \in Nat /\ MaxRead >= 3
    /\ MaxLosses \in Nat

VARIABLES
    connected,  \* bar->ipc_fd >= 0, and accepted by kumde
    link,       \* pieces in the socket, oldest first
    ibuf,       \* pieces in bar->ipc_ibuf
    losses,     \* how often either overflowed since kumbar started
    barred,     \* the outputs kumbar drew a bar on that are still there
    shownActive     \* output->active_ws of each bar

mirror  == <<barred, shownActive>>
barVars == <<screenVars, connected, link, ibuf, losses, mirror>>

WorkspaceEvent(o, w) == [event |-> "workspace", output |-> o, index |-> w]
Occupancy == [event |-> "occupancy"]
Title     == [event |-> "window_title"]

Events == [event : {"workspace"}, output : Outputs, index : Index]
            \cup {Occupancy, Title}

Length(e) == IF e = Title THEN 3 ELSE 2
Pieces    == {p \in Events \X (1 .. 3) : p[2] <= Length(p[1])}
Line(e)   == [k \in 1 .. Length(e) |-> <<e, k>>]
Ends(p)   == p[2] = Length(p[1])        \* with the newline

(* Every variable has its type, the socket and kumbar's buffer hold no     *)
(* more than they can, the buffer no whole line, and a bar is on an output *)
(* that is there.                                                          *)
BarTypeOK ==
    /\ connected \in BOOLEAN /\ losses \in Nat
    /\ link \in Seq(Pieces) /\ Len(link) <= MaxLink
    /\ ibuf \in Seq(Pieces) /\ Len(ibuf) <= MaxRead
    /\ \A k \in DOMAIN ibuf : ~Ends(ibuf[k])
    /\ barred \subseteq Connected
    /\ shownActive \in [Outputs -> Index]

BarInit ==
    /\ WorkspacesInit
    /\ connected = FALSE
    /\ link = << >>
    /\ ibuf = << >>
    /\ losses = 0
    /\ barred = {}
    /\ shownActive = [o \in Outputs |-> 0]
-----------------------------------------------------------------------------
(* Mutant of Send: what does not fit waits in kumde. *)
SendAll(e) ==
    /\ link' = IF connected THEN link \o Line(e) ELSE link
    /\ UNCHANGED losses

(* send(), on a socket that takes a message whole or not at all *)
Fits(l, e) == Len(l) + Length(e) <= MaxLink
Fit(l, e)  == IF Fits(l, e) THEN l \o Line(e) ELSE l

(* kum_ipc_broadcast(): an event that does not fit is dropped, and the     *)
(* client is kept.                                                         *)
Send(e) ==
    IF connected
    THEN /\ link' = Fit(link, e)
         /\ losses' = losses + IF Fits(link, e) THEN 0 ELSE 1
    ELSE UNCHANGED <<link, losses>>

SendBoth(e, f) ==
    IF connected
    THEN /\ link' = Fit(Fit(link, e), f)
         /\ losses' = losses + IF Fits(link, e) /\ Fits(Fit(link, e), f) THEN 0 ELSE 1
    ELSE UNCHANGED <<link, losses>>

(* kum_workspace_switch() tells of the output swapped with, then of its    *)
(* own.                                                                    *)
Switched(o, i) ==
    /\ SwitchOutput(o, i)
    /\ IF Swap(o, i)
       THEN SendBoth(WorkspaceEvent(OutputFor(i), active[o]), WorkspaceEvent(o, i))
       ELSE Send(WorkspaceEvent(o, i))
    /\ UNCHANGED <<connected, ibuf, mirror>>

(* kum_new_output() broadcasts nothing, and only main() of kumbar makes    *)
(* bars.                                                                   *)
Plugged(o) ==
    /\ NewOutput(o)
    /\ UNCHANGED <<connected, link, ibuf, losses, mirror>>

(* migrate_workspace() tells of the output that takes the workspace over;  *)
(* the bar goes with its output.                                           *)
Unplugged(o) ==
    LET rest == RemoveFirst(outputs, o) IN
    /\ OutputDestroyed(o)
    /\ IF rest = << >> THEN UNCHANGED <<link, losses>>
       ELSE Send(WorkspaceEvent(Head(rest), active[o]))
    /\ barred' = barred \ {o}
    /\ UNCHANGED <<connected, ibuf, shownActive>>

(* toplevel_map(), toplevel_unmap(), kum_focus_toplevel(): events about    *)
(* windows.                                                                *)
WindowsChange ==
    /\ connected
    /\ \E e \in {Occupancy, Title} : Send(e)
    /\ UNCHANGED <<screenVars, connected, ibuf, mirror>>

Kumde ==
    \/ \E o \in Outputs : \/ Plugged(o) \/ Unplugged(o)
                          \/ \E i \in Index : Switched(o, i)
    \/ WindowsChange
-----------------------------------------------------------------------------
(* main(), also of a kumbar that takes over from one that died: a bar on   *)
(* each output there is, showing workspace 0.                              *)
BarStarts ==
    /\ Connected # {}
    /\ barred' = Connected
    /\ shownActive' = [o \in Outputs |-> 0]
    /\ connected' = FALSE
    /\ link' = << >>
    /\ ibuf' = << >>
    /\ losses' = 0
    /\ UNCHANGED screenVars

(* ipc_send_initial_state() *)
InitialState ==
    [k \in DOMAIN outputs |-> WorkspaceEvent(outputs[k], active[outputs[k]])]
        \o <<Occupancy>>

(* kumbar_ipc_connect(), accepted by handle_new_connection(); the lines of *)
(* the initial state are of two pieces each.                               *)
IpcConnect ==
    /\ barred # {}
    /\ ~connected
    /\ connected' = TRUE
    /\ link' = [k \in 1 .. 2 * Len(InitialState) |->
                   <<InitialState[(k + 1) \div 2], 2 - (k % 2)>>]
    /\ ibuf' = << >>
    /\ UNCHANGED <<screenVars, losses, mirror>>

(* The lines in a buffer, each named by its last piece, and where it began *)
Newlines(buf) == {k \in DOMAIN buf : Ends(buf[k])}
Begin(buf, k) == Max({0} \cup {j \in Newlines(buf) : j < k}) + 1

(* handle_ipc_message(): the lines that begin like one about output o, and *)
(* the indices sscanf() may find in one: of a line whose middle was lost,  *)
(* that of the line it began with, that of the line it ends with, or none. *)
About(buf, o) ==
    {k \in Newlines(buf) :
        LET p == buf[Begin(buf, k)]
        IN  p[2] = 1 /\ p[1].event = "workspace" /\ p[1].output = o}

IsWhole(buf, k) == SubSeq(buf, Begin(buf, k), k) = Line(buf[k][1])

Indices(buf, k) ==
    {e.index : e \in {f \in {buf[Begin(buf, k)][1], buf[k][1]} : f.event = "workspace"}}

(* What the bar on o may show after these lines: what the last whole one   *)
(* says, or a damaged one after it.                                        *)
Shows(buf, o) ==
    LET last == Max({0} \cup {k \in About(buf, o) : IsWhole(buf, k)})
    IN  (IF last = 0 THEN {shownActive[o]} ELSE {})
            \cup UNION {Indices(buf, k) : k \in {j \in About(buf, o) : j >= last}}

(* Mutant of RestOf: each read starts a new line. *)
RestForgotten(buf) == << >>

(* What is left after the last newline *)
RestOf(buf) == SubSeq(buf, Max({0} \cup Newlines(buf)) + 1, Len(buf))

(* kumbar_ipc_dispatch(): what does not fit behind the rest of the last    *)
(* line is dropped.                                                        *)
IpcDispatch ==
    LET n    == Min({Len(link), MaxRead})
        room == Min({n, MaxRead - Len(ibuf)})
        buf  == ibuf \o SubSeq(link, 1, room)
    IN  /\ link # << >>
        /\ link' = SubSeq(link, n + 1, Len(link))
        /\ ibuf' = RestOf(buf)
        /\ losses' = losses + IF room < n THEN 1 ELSE 0
        /\ shownActive' \in
              {s \in [Outputs -> Index] :
                  \A o \in Outputs :
                     s[o] \in IF o \in barred THEN Shows(buf, o) ELSE {shownActive[o]}}
        /\ UNCHANGED <<screenVars, connected, barred>>

BarNext ==
    /\ Kumde \/ BarStarts \/ IpcConnect \/ IpcDispatch
    /\ losses' <= MaxLosses

BarSpec == BarInit /\ [][BarNext]_barVars
-----------------------------------------------------------------------------
(* What the bar on o shows once it has read all that is in the socket. *)
News(l, o) ==
    {k \in DOMAIN l : Ends(l[k]) /\ l[k][1].event = "workspace" /\ l[k][1].output = o}

ActiveRead(o) ==
    LET news == News(link, o)
    IN  IF news = {} THEN shownActive[o] ELSE link[Max(news)][1].index

(* README.md:244: workspace indicators follow in real time.  However       *)
(* switches, swaps, unplugging, kumbar's restarts and reads that end in    *)
(* the middle of a line interleave, each bar shows, or has on its way to   *)
(* it, the workspace its output is on, unless a buffer overflowed.         *)
ActiveFollowed ==
    connected /\ losses = 0 => \A o \in barred : ActiveRead(o) = active[o]
=============================================================================

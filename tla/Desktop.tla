------------------------------ MODULE Desktop ------------------------------
(***************************************************************************)
(* The whole compositor session: the windows and workspaces of Windows.tla *)
(* with the session lock (src/sessionlock.c), the layer-shell surfaces     *)
(* that may take the keyboard (src/layer.c) and the pointer (src/input.c). *)
(* All of them move the seat's keyboard focus, each by its own rules.      *)
(***************************************************************************)
EXTENDS Windows

CONSTANTS
    LayerOutput,        \* the output each layer surface is placed on
    FocusFollowsMouse,  \* cfg.focus_follows_mouse
    LockAllowed         \* whether a lock client ever runs

ASSUME DesktopAssumption ==
    /\ LayerOutput \in [Layers -> Outputs]
    /\ {FocusFollowsMouse, LockAllowed} \subseteq BOOLEAN

VARIABLES
    activeLock,     \* server->active_lock is not NULL
    covered,        \* outputs under one of the lock's black rectangles
    lockSurfaces,   \* outputs with a lock surface
    layers          \* the mapped layer surfaces

lockVars == <<activeLock, covered, lockSurfaces>>

desktopVars == <<windowVars, lockVars, layers>>

DesktopInit ==
    /\ WindowsInit
    /\ activeLock = FALSE
    /\ covered = {}
    /\ lockSurfaces = {}
    /\ layers = {}

ClearSeat == desk' = [desk EXCEPT !.seat = NoSurface]
-----------------------------------------------------------------------------
(* new_session_lock(): a second lock, or one after the lock client died,   *)
(* is refused.                                                             *)
NewSessionLock ==
    /\ LockAllowed
    /\ ~activeLock
    /\ ~locked
    /\ activeLock' = TRUE
    /\ locked' = TRUE
    /\ covered' = Connected
    /\ ClearSeat
    /\ UNCHANGED <<screenVars, cursor, keyboard, lockSurfaces, layers>>

(* active_lock_new_surface() *)
NewLockSurface(o) ==
    /\ activeLock
    /\ o \in Connected \ lockSurfaces
    /\ lockSurfaces' = lockSurfaces \cup {o}
    /\ desk' = [desk EXCEPT !.seat = Lock(o)]
    /\ OnlyDesk
    /\ UNCHANGED <<activeLock, covered, layers>>

(* active_lock_unlock() and active_lock_destroy(), which wlroots calls in  *)
(* that order in one request.  The lock surfaces' scene trees are gone     *)
(* when lock_surface_destroy() later destroys them again: with any left,   *)
(* the outcome is a crash or, by luck, none.                               *)
Unlock ==
    /\ activeLock
    /\ activeLock' = FALSE
    /\ locked' = FALSE
    /\ covered' = {}
    /\ lockSurfaces' = {}
    /\ \E crash \in {"no"} \cup {c \in {"freed"} : lockSurfaces # {}} :
          desk' = [desk EXCEPT !.seat = NoSurface, !.crashed = crash]
    /\ UNCHANGED <<screenVars, cursor, keyboard, layers>>

(* lock_surface_destroy(): the client, or the unplugging of the output,    *)
(* takes the lock surface away; the seat follows when the wl_surface goes. *)
LockSurfaceGone(o) ==
    /\ o \in lockSurfaces \/ desk.seat = Lock(o)
    /\ lockSurfaces' = lockSurfaces \ {o}
    /\ desk' = [desk EXCEPT !.seat = IF @ = Lock(o) THEN NoSurface ELSE @]
    /\ OnlyDesk
    /\ UNCHANGED <<activeLock, covered, layers>>

(* Mutant of LockClientDies: the session opens when its lock client dies. *)
LockFailsOpen ==
    /\ activeLock
    /\ activeLock' = FALSE
    /\ locked' = FALSE
    /\ covered' = {}
    /\ lockSurfaces' = {}
    /\ desk' = [desk EXCEPT !.seat = IF @ \in {Lock(o) : o \in Outputs}
                                     THEN NoSurface ELSE @]
    /\ UNCHANGED <<screenVars, cursor, keyboard, layers>>

(* active_lock_destroy() when the lock client dies: the session stays      *)
(* locked and the black rectangles stay up; wlroots takes the client's     *)
(* surfaces away.                                                          *)
LockClientDies ==
    /\ activeLock
    /\ activeLock' = FALSE
    /\ lockSurfaces' = {}
    /\ desk' = [desk EXCEPT !.seat = IF @ \in {Lock(o) : o \in Outputs}
                                     THEN NoSurface ELSE @]
    /\ OnlyDesk
    /\ UNCHANGED <<covered, layers>>
-----------------------------------------------------------------------------
(* recalculate_usable_area() ends by rearranging what the output shows. *)
Recalculate(d, o) ==
    IF o \in Connected THEN Arrange(d, o, active[o]) ELSE d

(* layer_map() of a surface that asked for the keyboard *)
LayerMap(l) ==
    /\ LayerOutput[l] \in Connected
    /\ l \notin layers
    /\ layers' = layers \cup {l}
    /\ desk' = [Recalculate(desk, LayerOutput[l]) EXCEPT !.seat = Layer(l)]
    /\ OnlyDesk
    /\ UNCHANGED lockVars

(* Mutant of LayerUnmap: the keyboard is left on the surface. *)
LayerUnmapKeeps(l) ==
    /\ l \in layers
    /\ layers' = layers \ {l}
    /\ desk' = Recalculate(desk, LayerOutput[l])
    /\ OnlyDesk
    /\ UNCHANGED lockVars

(* layer_unmap() *)
LayerUnmap(l) ==
    /\ l \in layers
    /\ layers' = layers \ {l}
    /\ desk' = [Recalculate(desk, LayerOutput[l]) EXCEPT
                  !.seat = IF @ = Layer(l) THEN NoSurface ELSE @]
    /\ OnlyDesk
    /\ UNCHANGED lockVars

(* kum_new_layer_surface(), layer_commit() and layer_destroy(), mapped or  *)
(* not, and layer_map() of a surface that did not ask for the keyboard:    *)
(* a new usable area.                                                      *)
LayerCommit(l) ==
    /\ LayerOutput[l] \in Connected
    /\ desk' = Recalculate(desk, LayerOutput[l])
    /\ OnlyDesk
    /\ UNCHANGED <<lockVars, layers>>
-----------------------------------------------------------------------------
(* kum_scene_node_at(): what the pointer can hit on output o, ghosts of    *)
(* X11 windows included.  The lock's rectangles are above every window.    *)
CanHit(o, t) ==
    /\ o \notin covered
    /\ desk.life[t] = "mapped" \/ t \in desk.ghosts
    /\ t \notin desk.hidden
    /\ desk.workspace[t] \in treeOn

(* process_cursor_motion(): focus follows the mouse onto a window that is  *)
(* not server->focused, unless a grab is on.                               *)
Hovered(t, s) ==
    IF FocusFollowsMouse /\ t # desk.focused
    THEN FocusToplevel(desk, t, s) ELSE desk

PointerOver(o, t, s) ==
    /\ desk.grabbed = {}
    /\ o \in Connected
    /\ CanHit(o, t)
    /\ s \in SurfacesOf(t)
    /\ cursor' = o
    /\ desk' = Hovered(t, s)
    /\ UNCHANGED <<screenVars, keyboard, locked, lockVars, layers>>

(* The same for X11 windows, of which the pointer hits the main surface;   *)
(* the node of a ghost may lead to a window that was freed.                *)
FocusHit(x) ==
    IF desk.life[x] = "none" THEN [desk EXCEPT !.crashed = "freed"]
    ELSE FocusX(desk, x)

XPointerOver(o, x) ==
    /\ desk.grabbed = {}
    /\ o \in Connected
    /\ CanHit(o, x)
    /\ cursor' = o
    /\ desk' = IF desk.life[x] # "none" /\ (FocusFollowsMouse => x = desk.xfocused)
               THEN desk ELSE FocusHit(x)
    /\ UNCHANGED <<screenVars, keyboard, locked, lockVars, layers>>

PointerElsewhere(o) ==
    /\ desk.grabbed = {}
    /\ o \in Connected
    /\ cursor' = o
    /\ UNCHANGED <<screenVars, keyboard, locked, desk, lockVars, layers>>

(* A grab moves or resizes the grabbed window nearest the list's head, the *)
(* X11 windows coming last; a resize redraws a native window's border.     *)
PointerDrag(o) ==
    LET i == SelectInSeq(desk.order, LAMBDA t : t \in desk.grabbed)
        t == desk.order[i]
        redrawn == IF i = 0 \/ desk.life[t] # "mapped" THEN desk
                   ELSE [desk EXCEPT !.lit = IF desk.focused = t THEN @ \cup {t}
                                             ELSE @ \ {t}]
    IN  /\ desk.grabbed # {}
        /\ o \in Connected
        /\ cursor' = o
        /\ desk' \in {desk, redrawn}
        /\ UNCHANGED <<screenVars, keyboard, locked, lockVars, layers>>

(* kum_cursor_button(), pressed: focus what is under the pointer, and, on  *)
(* a window's edge or with the modifier held, grab it.                     *)
PointerPress(t, s, grab) ==
    LET clicked == FocusToplevel(desk, t, s) IN
    /\ cursor # NoOutput
    /\ CanHit(cursor, t)
    /\ s \in SurfacesOf(t)
    /\ desk' = IF grab THEN BeginInteractive(clicked, t) ELSE clicked
    /\ OnlyDesk
    /\ UNCHANGED <<lockVars, layers>>

XPointerPress(x, grab) ==
    LET clicked == FocusHit(x) IN
    /\ cursor # NoOutput
    /\ CanHit(cursor, x)
    /\ desk' = IF grab /\ clicked.crashed = "no"
               THEN [clicked EXCEPT !.grabbed = @ \cup {x}] ELSE clicked
    /\ OnlyDesk
    /\ UNCHANGED <<lockVars, layers>>

(* kum_cursor_button(), released: every grab ends. *)
PointerRelease ==
    /\ desk' = [desk EXCEPT !.grabbed = {}]
    /\ OnlyDesk
    /\ UNCHANGED <<lockVars, layers>>
-----------------------------------------------------------------------------
LockNext ==
    \/ NewSessionLock
    \/ \E o \in Outputs : NewLockSurface(o) \/ LockSurfaceGone(o)
    \/ Unlock
    \/ LockClientDies

LayerNext == \E l \in Layers : LayerMap(l) \/ LayerUnmap(l) \/ LayerCommit(l)

PointerNext ==
    \/ \E o \in Outputs, t \in Toplevels : \E s \in SurfacesOf(t) :
          PointerOver(o, t, s)
    \/ \E o \in Outputs, x \in XWindows : XPointerOver(o, x)
    \/ \E x \in XWindows, grab \in BOOLEAN : XPointerPress(x, grab)
    \/ \E o \in Outputs : PointerElsewhere(o) \/ PointerDrag(o)
    \/ \E t \in Toplevels, grab \in BOOLEAN : \E s \in SurfacesOf(t) :
          PointerPress(t, s, grab)
    \/ PointerRelease

(* The black rectangles stay where they are when outputs come and go: an   *)
(* output plugged in while locked is under one only if it happens to take  *)
(* the place of an output that left.  A lock surface goes with its output. *)
WindowsStep ==
    LET plugged == Connected' \ Connected IN
    /\ ClientNext \/ XClientNext \/ OutputNext \/ UserNext
    /\ covered' \in IF covered \subseteq Connected THEN {covered}
                    ELSE {covered \cup plugged, covered \ plugged}
    /\ lockSurfaces' = lockSurfaces \cap Connected'
    /\ UNCHANGED <<activeLock, layers>>

DesktopNext ==
    /\ desk.crashed = "no"
    /\ WindowsStep \/ LockNext \/ LayerNext \/ PointerNext

DesktopSpec == DesktopInit /\ [][DesktopNext]_desktopVars
-----------------------------------------------------------------------------
(* Every variable has its type. *)
DesktopTypeOK ==
    /\ WorkspacesTypeOK
    /\ cursor \in Connected \cup {NoOutput}
    /\ {keyboard, locked, activeLock} \subseteq BOOLEAN
    /\ desk \in DeskType
    /\ covered \subseteq Outputs
    /\ lockSurfaces \subseteq Connected
    /\ layers \subseteq Layers

(* server->focused and server->focused_xwayland never point at a window    *)
(* that is unmapped or freed, and never both at a window: every keybind    *)
(* and IPC command dereferences the first that is set.                     *)
FocusedMapped ==
    /\ desk.focused # NoToplevel => desk.life[desk.focused] = "mapped"
    /\ desk.xfocused # NoToplevel => desk.life[desk.xfocused] = "mapped"
    /\ NoToplevel \in {desk.focused, desk.xfocused}

(* The two notions of focus never name two windows: when the seat's        *)
(* keyboard is on a surface of one window, native or X11, no other window  *)
(* is the one that commands act on.                                        *)
SeatMatchesFocus ==
    /\ \A t \in Toplevels : desk.seat \in SurfacesOf(t) =>
          desk.focused \in {t, NoToplevel} /\ desk.xfocused = NoToplevel
    /\ \A x \in XWindows : desk.seat = XMain(x) =>
          desk.xfocused \in {x, NoToplevel} /\ desk.focused = NoToplevel

(* workspaces[i].toplevels, server->toplevels and ->xwayland_surfaces hold *)
(* exactly the living windows, each once, and the first agrees with        *)
(* tl->workspace: the links are moved by hand in five functions.  A grab   *)
(* never outlives its window.                                              *)
ListsAgree ==
    /\ IsInjective(desk.order) /\ IsInjective(desk.xorder)
    /\ ToSet(desk.order \o desk.xorder) =
          {t \in AllWindows : desk.life[t] # "none"}
    /\ desk.grabbed \subseteq ToSet(desk.order \o desk.xorder)
    /\ \A w \in Index :
          /\ IsInjective(desk.toplevels[w])
          /\ ToSet(desk.toplevels[w]) =
                {t \in ToSet(desk.order) : desk.workspace[t] = w}

(* Super+Tab is stuck when the window that action_cycle_focus() picks      *)
(* already has the keyboard while there is another to go to: the focus     *)
(* functions return before they renew its focus_serial (toplevel.c:65),    *)
(* and every further press picks it again: README.md:204, "Cycle window    *)
(* focus", does not hold then.                                             *)
CycleStuck ==
    LET oldest == Oldest(desk)
        others == {w \in AllWindows : desk.life[w] = "mapped"} \ {oldest}
    IN  others # {} /\ desk.seat \in {Main(oldest), XMain(oldest)}

(* It gets stuck in one way only: on a native window that was created      *)
(* anew on a wl_surface which still had the keyboard, so that it never was *)
(* given a focus_serial, and no window is the focused one.  No order of    *)
(* focusing, moving, unmapping and destroying windows, native or X11,      *)
(* leaves the keyboard on the one focused longest ago otherwise.           *)
StuckOnlyWhenReborn ==
    CycleStuck =>
        /\ Oldest(desk) \in Toplevels \ ToSet(desk.serials)
        /\ {desk.focused, desk.xfocused} = {NoToplevel}

(* The focused window is drawn with the active border (README.md:140),     *)
(* whatever arrangement, tick, commit or reload redrew it last.            *)
FocusedLit == desk.focused # NoToplevel => desk.focused \in desk.lit

(* sessionlock.c:4-9: while locked no key reaches a window, through any of *)
(* the paths that move focus; and no key reaches a lock surface after the  *)
(* session is unlocked.                                                    *)
LockedSeat ==
    IF locked
    THEN /\ \A t \in Toplevels : desk.seat \notin SurfacesOf(t)
         /\ \A x \in XWindows : desk.seat # XMain(x)
    ELSE \A o \in Outputs : desk.seat # Lock(o)

(* A layer surface that lets the keyboard go has let it go: the seat is    *)
(* never left on a layer surface that was unmapped.                        *)
SeatOnMappedLayer == \A l \in Layers : desk.seat = Layer(l) => l \in layers

(* kum_workspace_arrange() dereferences the output it is given and four    *)
(* callers may give it none; the master swap follows a NULL iterator.  A   *)
(* session with no tiled workspace does neither, monocle ones included.    *)
NullNeedsTiling ==
    desk.crashed = "null" => \E w \in Index : desk.layout[w] = "tile"

(* A switch that hides a workspace leaves neither pointer on a window of   *)
(* it, and takes the keyboard off them if any window was focused.  With    *)
(* none focused it looks at nothing (workspace.c:172): a window that was   *)
(* unmapped and shown again on its surface has the keyboard while          *)
(* server->focused is NULL (toplevel.c:65, :173), and goes on receiving    *)
(* the keys when it is hidden.  No other window does.                      *)
HiddenLosesFocus ==
    [][Connected' = Connected =>
          \A w \in treeOn \ treeOn' :
              LET gone == {t \in AllWindows : desk'.workspace[t] = w} IN
              /\ gone \cap {desk'.focused, desk'.xfocused} = {}
              /\ {desk.focused, desk.xfocused} # {NoToplevel} =>
                    \A t \in gone : desk'.seat \notin SurfacesOf(t) \cup {XMain(t)}
      ]_desktopVars

(* xwayland.c:340-344: what depends on an X11 window's surface waits until *)
(* the window has one.  It does not hold.                                  *)
BareNeverFollowed == desk.crashed # "bare"

(* README.md:211, "Move focused window to workspace", and README.md:163,   *)
(* rules that "auto-assign workspace": a mapped window on a workspace that *)
(* is on show can be seen.  It does not hold.                              *)
MovedWindowShows ==
    \A t \in Mapped(desk) :
        desk.workspace[t] \in treeOn /\ desk.anim[t] \notin {"opening", "closing"}
            => t \notin desk.hidden

(* What the seat does is what Keyboard.tla promises: a window is given the  *)
(* keyboard only in an open session, and the lock fails secure             *)
(* (sessionlock.c:4-9, 111-114): only the client that holds it ends it.    *)
Holder ==
    IF desk.seat = NoSurface THEN "nobody"
    ELSE IF desk.seat[1] \in {"layer", "lock"} THEN desk.seat[1]
    ELSE desk.seat[2]

Seat == INSTANCE Keyboard WITH
    Windows <- AllWindows, Nobody <- "nobody",
    LayerShell <- "layer", LockScreen <- "lock",
    holder <- Holder,
    session <- IF ~locked THEN "open" ELSE IF activeLock THEN "locked"
               ELSE "orphaned"

ImplementsKeyboard == Seat!KeyboardSpec
=============================================================================

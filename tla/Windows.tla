------------------------------ MODULE Windows ------------------------------
(***************************************************************************)
(* Windows on the workspaces of Workspaces.tla: the life cycle of native   *)
(* (src/toplevel.c) and of X11 windows (src/xwayland.c), keyboard focus,   *)
(* the focus border, the animation tick of src/output.c, and every         *)
(* operation of src/workspace.c, src/keybind.c, src/focus.c, src/tiling.c, *)
(* src/rules.c and src/ipc.c that moves windows or focus.  Session lock,   *)
(* layer surfaces and the pointer are added by Desktop.tla.                *)
(*                                                                         *)
(* Handlers call each other, so the state they pass along is one record,   *)
(* desk, and each function of the code is an operator from desk to desk.   *)
(* Positions, sizes and the stacking order are not part of it.             *)
(***************************************************************************)
EXTENDS Workspaces

CONSTANTS
    Toplevels,          \* every xdg_toplevel that may ever exist
    XWindows,           \* every X11 window; {} when XWayland is off
    NoToplevel,         \* a NULL kum_toplevel * or kum_xwayland_surface *
    Parents,            \* the toplevels that have popups or subsurfaces
    Layers,             \* layer-shell surfaces that may take the keyboard
    Layouts,            \* the layout modes the user ever selects
    Rules,              \* what the matching [rules] entry may ask for
    Animations,         \* cfg.animations
    KeyboardMayLeave    \* whether the seat can lose its keyboard

ASSUME WindowsAssumption ==
    /\ NoToplevel \notin Toplevels \cup XWindows
    /\ Toplevels \cap XWindows = {}
    /\ Parents \subseteq Toplevels
    /\ Layouts \subseteq {"floating", "tile", "monocle"}
    /\ Rules \subseteq [workspace : Index \cup {-1}, floating : BOOLEAN]
    /\ {Animations, KeyboardMayLeave} \subseteq BOOLEAN

VARIABLES
    cursor,     \* kum_output_focused(): the output under the pointer
    keyboard,   \* wlr_seat_get_keyboard() is not NULL
    locked,     \* server->locked
    desk        \* windows, workspace lists, layouts and focus, see DeskType

windowVars == <<screenVars, cursor, keyboard, locked, desk>>

OnlyDesk == UNCHANGED <<screenVars, cursor, keyboard, locked>>

(* Surfaces the seat's keyboard focus can be on.  A toplevel's children    *)
(* (popups, subsurfaces) are one surface of their own.                     *)
NoSurface == <<"none", "none">>
Main(t)   == <<"toplevel", t>>
Child(t)  == <<"child", t>>
XMain(x)  == <<"xwayland", x>>
Layer(l)  == <<"layer", l>>
Lock(o)   == <<"lock", o>>
SurfacesOf(t) == {Main(t)} \cup {Child(p) : p \in Parents \cap {t}}
Surfaces == {NoSurface} \cup ({"toplevel", "child"} \X Toplevels)
                \cup ({"xwayland"} \X XWindows)
                \cup ({"layer"} \X Layers) \cup ({"lock"} \X Outputs)

(* An X11 window is bare while no wl_surface is associated with it, which  *)
(* it may be all its life.                                                 *)
AllWindows == Toplevels \cup XWindows

DeskType ==
    [life : [AllWindows -> {"none", "bare", "unmapped", "mapped"}],
     workspace : [AllWindows -> Index],         \* tl->workspace
     toplevels : [Index -> Seq(Toplevels)],     \* workspaces[i].toplevels
     order : Seq(Toplevels),                    \* server->toplevels
     xorder : Seq(XWindows),                    \* server->xwayland_surfaces
     layout : [Index -> {"floating", "tile", "monocle"}],
     floating : SUBSET Toplevels,
     hidden : SUBSET AllWindows,    \* ->scene_tree->node disabled
     grabbed : SUBSET AllWindows,
     ghosts : SUBSET XWindows,      \* surface drawn, no longer the window's
     anim : [Toplevels -> {"none", "opening", "closing", "focusing"}],
     lit : SUBSET Toplevels,        \* border last drawn as focused
     serials : Seq(AllWindows),     \* focus_serial > 0, highest first
     focused : Toplevels \cup {NoToplevel},     \* server->focused
     xfocused : XWindows \cup {NoToplevel},     \* server->focused_xwayland
     seat : Surfaces,               \* keyboard_state.focused_surface
     crashed : {"no", "null", "bare", "freed"}] \* the pointer followed

Mapped(d) == {t \in Toplevels : d.life[t] = "mapped"}

WindowsInit ==
    /\ WorkspacesInit
    /\ cursor = NoOutput
    /\ keyboard = FALSE
    /\ locked = FALSE
    /\ desk = [life |-> [t \in AllWindows |-> "none"],
               workspace |-> [t \in AllWindows |-> 0],
               toplevels |-> [w \in Index |-> << >>],
               order |-> << >>, xorder |-> << >>,
               layout |-> [w \in Index |-> "floating"],
               floating |-> {}, hidden |-> {}, grabbed |-> {}, ghosts |-> {},
               anim |-> [t \in Toplevels |-> "none"],
               lit |-> {}, serials |-> << >>,
               focused |-> NoToplevel, xfocused |-> NoToplevel,
               seat |-> NoSurface, crashed |-> "no"]
-----------------------------------------------------------------------------
(* Mutant of Promoted: linked at the tail. *)
Demoted(s, w) == Append(RemoveFirst(s, w), w)

(* At the head of server->toplevels, or with the highest focus_serial. *)
Promoted(s, w) == <<w>> \o RemoveFirst(s, w)

(* Mutant of FocusToplevel: the session lock is not looked at. *)
FocusUnlocked(d, t, s) ==
    IF d.seat = s THEN d
    ELSE [d EXCEPT
            !.lit = (@ \ {p \in Toplevels : d.seat = Main(p)}) \cup {t},
            !.order = Promoted(@, t), !.serials = Promoted(@, t),
            !.anim[t] = "focusing", !.focused = t, !.xfocused = NoToplevel,
            !.seat = IF keyboard THEN s ELSE @]

(* Mutant of FocusToplevel: only a main surface is sent the keyboard. *)
FocusMainOnly(d, t, s) ==
    IF locked \/ d.seat = s THEN d
    ELSE [d EXCEPT
            !.lit = (@ \ {p \in Toplevels : d.seat = Main(p)}) \cup {t},
            !.order = Promoted(@, t), !.serials = Promoted(@, t),
            !.anim[t] = "focusing", !.focused = t, !.xfocused = NoToplevel,
            !.seat = IF keyboard /\ s = Main(t) THEN s ELSE @]

(* kum_focus_toplevel(): refused while locked, and when the seat is        *)
(* already on surface s.  Only a toplevel's main surface gives up its      *)
(* active border; X11 windows' borders are not modelled.                   *)
FocusToplevel(d, t, s) ==
    IF locked \/ d.seat = s THEN d
    ELSE [d EXCEPT
            !.lit = (@ \ {p \in Toplevels : d.seat = Main(p)}) \cup {t},
            !.order = Promoted(@, t),
            !.serials = Promoted(@, t),
            !.anim[t] = "focusing",
            !.focused = t,
            !.xfocused = NoToplevel,
            !.seat = IF keyboard THEN s ELSE @]

(* Mutant of FocusX: focus_serial is not renewed. *)
FocusXNoSerial(d, x) ==
    LET s == IF d.life[x] = "bare" THEN NoSurface ELSE XMain(x)
    IN  IF locked \/ d.seat = s THEN d
        ELSE IF d.life[x] = "bare" THEN [d EXCEPT !.crashed = "bare"]
        ELSE [d EXCEPT
                !.lit = @ \ {p \in Toplevels : d.seat = Main(p)},
                !.focused = NoToplevel,
                !.xfocused = x,
                !.seat = IF keyboard THEN s ELSE @]

(* kum_focus_xwayland_surface(): the surface of a bare window is NULL, and *)
(* so are its borders, which are followed unless the seat is on nothing.   *)
FocusX(d, x) ==
    LET s == IF d.life[x] = "bare" THEN NoSurface ELSE XMain(x)
    IN  IF locked \/ d.seat = s THEN d
        ELSE IF d.life[x] = "bare" THEN [d EXCEPT !.crashed = "bare"]
        ELSE [d EXCEPT
                !.lit = @ \ {p \in Toplevels : d.seat = Main(p)},
                !.serials = Promoted(@, x),
                !.focused = NoToplevel,
                !.xfocused = x,
                !.seat = IF keyboard THEN s ELSE @]

ClearFocus(d)  == [d EXCEPT !.focused = NoToplevel, !.seat = NoSurface]
ClearXFocus(d) == [d EXCEPT !.xfocused = NoToplevel, !.seat = NoSurface]

(* Mutant of FocusFirst: the head of the list, mapped or not. *)
FocusHead(d, w) ==
    IF d.toplevels[w] = << >> THEN d
    ELSE FocusToplevel(d, Head(d.toplevels[w]), Main(Head(d.toplevels[w])))

(* The loops that end kum_workspace_switch(), migrate_workspace() and      *)
(* kum_output_focus_adjacent(): focus the first mapped window of w, or     *)
(* else the first mapped X11 window; a bare one on the way is followed.    *)
FocusFirst(d, w) ==
    LET i == SelectInSeq(d.toplevels[w], LAMBDA t : d.life[t] = "mapped")
        j == SelectInSeq(d.xorder, LAMBDA x :
                 d.workspace[x] = w /\ d.life[x] \in {"bare", "mapped"})
    IN  IF i # 0
        THEN FocusToplevel(d, d.toplevels[w][i], Main(d.toplevels[w][i]))
        ELSE IF j = 0 THEN d
        ELSE IF d.life[d.xorder[j]] = "bare" THEN [d EXCEPT !.crashed = "bare"]
        ELSE FocusX(d, d.xorder[j])

(* Mutant of LeaveWorkspace: the pointer is dropped, the seat is not. *)
LeaveKeepsSeat(d, w) ==
    IF d.focused # NoToplevel /\ d.workspace[d.focused] = w
    THEN [d EXCEPT !.focused = NoToplevel] ELSE d

LeaveWorkspace(d, w) ==
    IF d.focused # NoToplevel /\ d.workspace[d.focused] = w
    THEN ClearFocus(d) ELSE d

LeaveWorkspaceX(d, w) ==
    IF d.xfocused # NoToplevel /\ d.workspace[d.xfocused] = w
    THEN ClearXFocus(d) ELSE d

(* kum_workspace_arrange() and kum_workspace_monocle_arrange(): both read  *)
(* output->usable_area before anything else, and both redraw the border of *)
(* each tiled window.                                                      *)
Tiled(d, w) ==
    {t \in ToSet(d.toplevels[w]) : d.life[t] = "mapped" /\ t \notin d.floating}

Arrange(d, o, w) ==
    IF d.layout[w] = "floating" THEN d
    ELSE IF o = NoOutput THEN [d EXCEPT !.crashed = "null"]
    ELSE [d EXCEPT !.lit = (@ \ Tiled(d, w)) \cup (Tiled(d, w) \cap {d.focused})]

(* Mutant of ArrangeIfTiled: arranges whenever the layout is not floating. *)
ArrangeAny(d, o, w) == Arrange(d, o, w)

ArrangeIfTiled(d, o, w) ==
    IF d.layout[w] = "tile" THEN Arrange(d, o, w) ELSE d

ArrangeIfShown(d, w) ==
    IF OnShow(w) THEN Arrange(d, OutputFor(w), w) ELSE d

(* Mutant of MoveToplevel: linked to the new list, not unlinked from the old. *)
MoveTwiceLinked(d, t, w) ==
    IF w = d.workspace[t] THEN d
    ELSE [d EXCEPT !.toplevels[w] = <<t>> \o @, !.workspace[t] = w]

(* kum_workspace_move_toplevel() *)
MoveToplevel(d, t, w) ==
    LET old    == d.workspace[t]
        moved  == [d EXCEPT !.toplevels[old] = RemoveFirst(@, t),
                            !.toplevels[w] = <<t>> \o @,
                            !.workspace[t] = w]
        placed == IF OnShow(w) THEN Arrange(moved, OutputFor(w), w)
                  ELSE [moved EXCEPT !.hidden = @ \cup {t}]
        settled == ArrangeIfShown(placed, old)
    IN  IF w = old THEN d
        ELSE IF d.focused # t THEN settled
        ELSE IF OnShow(old) THEN FocusFirst(ClearFocus(settled), old)
        ELSE ClearFocus(settled)

(* kum_workspace_move_xwayland_surface(): gives the focus to nobody. *)
MoveXWindow(d, x, w) ==
    LET placed == [d EXCEPT !.workspace[x] = w,
                            !.hidden = IF OnShow(w) THEN @ ELSE @ \cup {x}]
    IN  IF w = d.workspace[x] THEN d
        ELSE IF d.xfocused = x THEN ClearXFocus(placed) ELSE placed

(* kum_rules_apply(), given the entry r that matched; no match and an      *)
(* entry without a workspace both have workspace -1.                       *)
RulesApply(d, t, r) ==
    LET moved == IF r.workspace = -1 THEN d ELSE MoveToplevel(d, t, r.workspace)
    IN  IF r.floating THEN [moved EXCEPT !.floating = @ \cup {t}] ELSE moved
-----------------------------------------------------------------------------
(* kum_new_xdg_toplevel(): a window belongs to the workspace under the     *)
(* pointer, and is at the head of both lists before it is mapped.  Its     *)
(* other fields are as DestroyToplevel left them; the scene node stays     *)
(* disabled until wlroots maps the surface.                                *)
NewXdgToplevel(t) ==
    LET w == IF cursor = NoOutput THEN 0 ELSE active[cursor] IN
    /\ desk.life[t] = "none"
    /\ desk' = [desk EXCEPT
                  !.life[t] = "unmapped",
                  !.workspace[t] = w,
                  !.toplevels[w] = <<t>> \o @,
                  !.order = <<t>> \o @,
                  !.hidden = @ \cup {t}]
    /\ OnlyDesk

(* toplevel_map(), after wlroots has marked the surface mapped and enabled *)
(* its scene node.                                                         *)
MapToplevel(t, r) ==
    LET w       == desk.workspace[t]
        shown   == [desk EXCEPT !.life[t] = "mapped", !.hidden = @ \ {t},
                                !.lit = @ \ {t}]
        tiled   == IF t \in desk.floating THEN shown
                   ELSE ArrangeIfTiled(shown, OutputFor(w), w)
        opening == IF Animations THEN [tiled EXCEPT !.anim[t] = "opening"]
                   ELSE tiled
    IN  /\ desk.life[t] = "unmapped"
        /\ desk' = FocusToplevel(RulesApply(opening, t, r), t, Main(t))
        /\ OnlyDesk

(* toplevel_unmap(): server->focused is dropped, the seat keeps the        *)
(* surface.                                                                *)
UnmapToplevel(t) ==
    LET w       == desk.workspace[t]
        dropped == [desk EXCEPT
                      !.life[t] = "unmapped",
                      !.hidden = @ \cup {t},
                      !.focused = IF @ = t THEN NoToplevel ELSE @,
                      !.anim[t] = IF Animations THEN "closing" ELSE @,
                      !.lit = @ \ {t}]
    IN  /\ desk.life[t] = "mapped"
        /\ desk' = IF OnShow(w) THEN ArrangeIfTiled(dropped, OutputFor(w), w)
                   ELSE dropped
        /\ OnlyDesk

(* Mutant of CommitToplevel: every commit redraws the border as inactive. *)
CommitUnlit(t) ==
    /\ desk.life[t] = "mapped"
    /\ desk.layout[desk.workspace[t]] = "tile"
    /\ t \notin desk.floating
    /\ desk' = [desk EXCEPT !.lit = @ \ {t}]
    /\ OnlyDesk

(* toplevel_commit(), for a commit that neither maps nor unmaps *)
CommitToplevel(t) ==
    /\ desk.life[t] = "mapped"
    /\ desk.layout[desk.workspace[t]] = "tile"
    /\ t \notin desk.floating
    /\ desk' = [desk EXCEPT !.lit = IF desk.focused = t THEN @ \cup {t}
                                    ELSE @ \ {t}]
    /\ OnlyDesk

(* toplevel_destroy(); wlroots unmaps a mapped surface first. *)
DestroyToplevel(t) ==
    /\ desk.life[t] = "unmapped"
    /\ desk' = [desk EXCEPT
                  !.life[t] = "none",
                  !.toplevels[desk.workspace[t]] = RemoveFirst(@, t),
                  !.order = RemoveFirst(@, t),
                  !.floating = @ \ {t}, !.hidden = @ \ {t},
                  !.grabbed = @ \ {t}, !.serials = RemoveFirst(@, t),
                  !.anim[t] = "none", !.workspace[t] = 0]
    /\ OnlyDesk

(* A wl_surface outlives the role object that used it, until the client    *)
(* destroys it; then wlroots takes it off the seat.  A popup or subsurface *)
(* can go at any time.                                                     *)
SurfaceGone(t, s) ==
    /\ s = Child(t) \/ desk.life[t] = "none"
    /\ s \in SurfacesOf(t)
    /\ desk.seat = s
    /\ desk' = [desk EXCEPT !.seat = NoSurface]
    /\ OnlyDesk

(* kum_toplevel_begin_interactive(), also reached from the client requests *)
(* request_move() and request_resize(), which look at neither focus nor    *)
(* lock.                                                                   *)
BeginInteractive(d, t) ==
    LET w        == d.workspace[t]
        promoted == Arrange([d EXCEPT !.floating = @ \cup {t}], OutputFor(w), w)
        tiled    == d.layout[w] = "tile" /\ t \notin d.floating
    IN  [(IF tiled THEN promoted ELSE d) EXCEPT !.grabbed = @ \cup {t}]

RequestMove(t) ==
    /\ desk.life[t] # "none"
    /\ desk' = BeginInteractive(desk, t)
    /\ OnlyDesk

(* handle_new_xwayland_surface() *)
NewXWindow(x) ==
    /\ desk.life[x] = "none"
    /\ x \notin desk.ghosts
    /\ desk' = [desk EXCEPT
                  !.life[x] = "bare",
                  !.workspace[x] = IF cursor = NoOutput THEN 0 ELSE active[cursor],
                  !.xorder = <<x>> \o @]
    /\ OnlyDesk

(* xwayland_surface_associate(): Xwayland destroys a window's old surface  *)
(* before it creates the new one.                                          *)
XAssociate(x) ==
    /\ desk.life[x] = "bare"
    /\ x \notin desk.ghosts
    /\ desk' = [desk EXCEPT !.life[x] = "unmapped"]
    /\ OnlyDesk

(* xwayland_surface_map() and kum_rules_apply_xwayland(): no focus. *)
XMap(x, r) ==
    LET mapped == [desk EXCEPT !.life[x] = "mapped"]
        ruled  == IF r.workspace = -1 THEN mapped
                  ELSE MoveXWindow(mapped, x, r.workspace)
    IN  /\ desk.life[x] = "unmapped"
        /\ desk' = [ruled EXCEPT !.hidden = @ \ {x}]
        /\ OnlyDesk

(* Mutant of XDissociate: unmapping keeps server->focused_xwayland. *)
XDissociateKeeps(x) ==
    /\ desk.life[x] \in {"unmapped", "mapped"}
    /\ desk' = [desk EXCEPT
                  !.life[x] = "bare",
                  !.ghosts = @ \cup ({x} \cap {y \in XWindows : desk.life[y] = "mapped"})]
    /\ OnlyDesk

(* xwayland_surface_unmap(), which wlroots calls first if the window is    *)
(* mapped, and xwayland_surface_dissociate().  The scene still shows the   *)
(* wl_surface until Xwayland destroys it.                                  *)
XDissociate(x) ==
    /\ desk.life[x] \in {"unmapped", "mapped"}
    /\ desk' = [desk EXCEPT
                  !.life[x] = "bare",
                  !.xfocused = IF @ = x THEN NoToplevel ELSE @,
                  !.ghosts = @ \cup ({x} \cap {y \in XWindows : desk.life[y] = "mapped"})]
    /\ OnlyDesk

(* Xwayland destroys the wl_surface: wlroots takes it out of the scene and *)
(* off the seat.                                                           *)
XSurfaceGone(x) ==
    LET forgotten == {x} \cap {y \in XWindows : desk.life[y] = "none"} IN
    /\ x \in desk.ghosts
    /\ desk' = [desk EXCEPT
                  !.ghosts = @ \ {x},
                  !.hidden = @ \ forgotten,
                  !.workspace[x] = IF x \in forgotten THEN 0 ELSE @,
                  !.seat = IF @ = XMain(x) THEN NoSurface ELSE @]
    /\ OnlyDesk

(* xwayland_surface_destroy(), after dissociation.  The scene tree it does *)
(* not destroy still leads to the freed window as long as the surface is   *)
(* in the scene.                                                           *)
XDestroy(x) ==
    LET forgotten == {x} \ desk.ghosts IN
    /\ desk.life[x] = "bare"
    /\ desk' = [desk EXCEPT
                  !.life[x] = "none",
                  !.xorder = RemoveFirst(@, x),
                  !.serials = RemoveFirst(@, x),
                  !.grabbed = @ \ {x},
                  !.xfocused = IF @ = x THEN NoToplevel ELSE @,
                  !.hidden = @ \ forgotten,
                  !.workspace[x] = IF x \in forgotten THEN 0 ELSE @]
    /\ OnlyDesk

(* xwayland_request_move() and xwayland_request_resize() *)
XRequestMove(x) ==
    /\ desk.life[x] # "none"
    /\ desk' = [desk EXCEPT !.grabbed = @ \cup {x}]
    /\ OnlyDesk

(* tick_animations(), run by the frame event of any output.  An opening or *)
(* closing window may be dim (opacity at most 0.05) in mid-animation.      *)
Frame ==
    LET running == {t \in Toplevels : desk.anim[t] # "none"}
        fading  == {t \in running : desk.anim[t] # "focusing"}
    IN  /\ Connected # {}
        /\ running # {}
        /\ \E done \in SUBSET running, dim \in SUBSET fading :
              desk' = [desk EXCEPT
                 !.anim = [t \in Toplevels |-> IF t \in done THEN "none" ELSE @[t]],
                 !.hidden = (@ \ fading) \cup
                     {t \in fading : IF t \in done THEN desk.anim[t] = "closing"
                                     ELSE t \in dim},
                 !.lit = @ \cup ((running \ fading) \cap Mapped(desk))]
        /\ OnlyDesk
-----------------------------------------------------------------------------
(* kum_new_output() *)
PlugOutput(o) ==
    /\ NewOutput(o)
    /\ cursor' \in Connected' \cup {NoOutput}
    /\ UNCHANGED <<keyboard, locked, desk>>

(* Mutant of UnplugOutput: the output under the pointer is remembered. *)
UnplugKeepsCursor(o) ==
    LET w    == active[o]
        rest == RemoveFirst(outputs, o)
        left == LeaveWorkspace(desk, w)
    IN  /\ OutputDestroyed(o)
        /\ desk' = IF rest = << >> THEN left
                   ELSE FocusFirst(ArrangeIfTiled(left, Head(rest), w), w)
        /\ UNCHANGED <<cursor, keyboard, locked>>

(* output_destroy() and migrate_workspace() *)
UnplugOutput(o) ==
    LET w    == active[o]
        rest == RemoveFirst(outputs, o)
        left == LeaveWorkspace(desk, w)
    IN  /\ OutputDestroyed(o)
        /\ cursor' \in Connected' \cup {NoOutput}
        /\ desk' = IF rest = << >> THEN left
                   ELSE FocusFirst(ArrangeIfTiled(left, Head(rest), w), w)
        /\ UNCHANGED <<keyboard, locked>>

(* kum_workspace_switch() *)
Switch(o, i) ==
    /\ SwitchOutput(o, i)
    /\ desk' = FocusFirst(
                  LeaveWorkspaceX(LeaveWorkspace(desk, active[o]), active[o]), i)
    /\ UNCHANGED <<cursor, keyboard, locked>>

(* The "workspace" command of the IPC socket, which a locked session obeys *)
IpcWorkspace(i) == Switch(cursor, i)

(* action_switch_workspace() *)
SwitchKey(i) ==
    /\ ~locked
    /\ cursor # NoOutput
    /\ Switch(cursor, KeyTarget(active, previous, cursor, i))

(* action_scratchpad(): the last workspace, and back to the first. *)
ScratchpadKey ==
    /\ ~locked
    /\ cursor # NoOutput
    /\ LET scratch == NumWorkspaces - 1
       IN  Switch(cursor, IF active[cursor] = scratch THEN 0 ELSE scratch)

(* action_move_to_workspace() and the IPC command "move_to" *)
MoveFocused(w) ==
    /\ desk' = IF desk.focused # NoToplevel THEN MoveToplevel(desk, desk.focused, w)
               ELSE IF desk.xfocused # NoToplevel
               THEN MoveXWindow(desk, desk.xfocused, w) ELSE desk
    /\ OnlyDesk

(* action_cycle_focus(): the mapped window focused longest ago.  One never *)
(* focused counts as oldest: native ones first, in the order of the lists. *)
Oldest(d) ==
    LET isNew(w) == d.life[w] = "mapped" /\ w \notin ToSet(d.serials)
        new == SelectInSeq(d.order \o d.xorder, isNew)
        old == SelectLastInSeq(d.serials, LAMBDA w : d.life[w] = "mapped")
    IN  IF new # 0 THEN (d.order \o d.xorder)[new]
        ELSE IF old # 0 THEN d.serials[old] ELSE NoToplevel

CycleFocusKey ==
    LET w == Oldest(desk) IN
    /\ ~locked
    /\ desk' = IF \E x \in XWindows : desk.life[x] = "bare"
               THEN [desk EXCEPT !.crashed = "bare"]
               ELSE IF w \in Toplevels THEN FocusToplevel(desk, w, Main(w))
               ELSE IF w \in XWindows THEN FocusX(desk, w) ELSE desk
    /\ OnlyDesk

(* kum_output_focus_adjacent(): the pointer is warped to the neighbour. *)
FocusAdjacentKey(o) ==
    /\ ~locked
    /\ cursor # NoOutput
    /\ o \in Connected \ {cursor}
    /\ cursor' = o
    /\ desk' = FocusFirst(desk, active[o])
    /\ UNCHANGED <<screenVars, keyboard, locked>>
-----------------------------------------------------------------------------
(* kum_workspace_toggle_layout(), action_layout_monocle() and the IPC      *)
(* command "layout".  The key toggles, the others name a layout; leaving   *)
(* a tiled layout rearranges nothing.                                      *)
SetLayout(l) ==
    LET w == active[cursor] IN
    /\ cursor # NoOutput
    /\ l \in Layouts
    /\ desk' = Arrange([desk EXCEPT !.layout[w] = l], cursor, w)
    /\ OnlyDesk

ToggleLayoutKey ==
    /\ ~locked
    /\ cursor # NoOutput
    /\ SetLayout(IF desk.layout[active[cursor]] = "floating" THEN "tile"
                 ELSE "floating")

(* action_toggle_floating(): arranges the window's workspace, but on the   *)
(* output under the pointer.                                               *)
ToggleFloatingKey ==
    LET t == desk.focused
        w == desk.workspace[t]
    IN  /\ ~locked
        /\ t # NoToplevel
        /\ desk.layout[w] = "tile"
        /\ desk' = Arrange([desk EXCEPT !.floating = (@ \ {t}) \cup ({t} \ @)],
                           cursor, w)
        /\ OnlyDesk

(* kum_tiling_swap_master().  The search loop clears its own iterator: it  *)
(* goes past the head of the list only through a NULL pointer.             *)
SwapMasterKey ==
    LET t    == desk.focused
        w    == desk.workspace[t]
        list == desk.toplevels[w]
        rest == RemoveFirst(list, t)
        last == [desk EXCEPT !.toplevels[w] = Append(rest, t)]
    IN  /\ ~locked
        /\ t # NoToplevel
        /\ desk.layout[w] = "tile"
        /\ t \notin desk.floating
        /\ Head(list) # t
        /\ desk' = IF Head(list) \notin Tiled(desk, w)
                   THEN [desk EXCEPT !.crashed = "null"]
                   ELSE ArrangeIfShown(last, w)
        /\ OnlyDesk

(* kum_tiling_resize() in a tiled layout: the sizes are not modelled, the  *)
(* rearrangement is.                                                       *)
ResizeKey ==
    /\ ~locked
    /\ desk.focused # NoToplevel
    /\ desk.layout[desk.workspace[desk.focused]] = "tile"
    /\ desk' = ArrangeIfShown(desk, desk.workspace[desk.focused])
    /\ OnlyDesk

(* kum_server_reload_config() redraws every border; the rearrangement that *)
(* follows draws the same ones again.  Outputs may move under the pointer. *)
Reload ==
    /\ cursor' \in Connected \cup {NoOutput}
    /\ desk' = [desk EXCEPT !.lit = (@ \ Mapped(desk)) \cup
                                    (Mapped(desk) \cap {desk.focused})]
    /\ UNCHANGED <<screenVars, keyboard, locked>>

(* new_keyboard(), and a key event on a keyboard that is not the seat's    *)
KeyboardJoins ==
    /\ ~keyboard
    /\ keyboard' = TRUE
    /\ UNCHANGED <<screenVars, cursor, locked, desk>>

(* wlroots forgets the seat's keyboard when its device goes away. *)
KeyboardLeaves ==
    /\ KeyboardMayLeave
    /\ keyboard
    /\ keyboard' = FALSE
    /\ UNCHANGED <<screenVars, cursor, locked, desk>>
-----------------------------------------------------------------------------
(* The event loop gets the clients' requests and the events of Xwayland in *)
(* any order.                                                              *)
ClientNext ==
    \E t \in Toplevels :
        \/ NewXdgToplevel(t)
        \/ \E r \in Rules : MapToplevel(t, r)
        \/ UnmapToplevel(t)
        \/ CommitToplevel(t)
        \/ DestroyToplevel(t)
        \/ \E s \in SurfacesOf(t) : SurfaceGone(t, s)
        \/ RequestMove(t)

XClientNext ==
    \E x \in XWindows :
        \/ NewXWindow(x)
        \/ XAssociate(x)
        \/ \E r \in Rules : XMap(x, r)
        \/ XDissociate(x)
        \/ XSurfaceGone(x)
        \/ XDestroy(x)
        \/ XRequestMove(x)

OutputNext ==
    \/ Frame
    \/ \E o \in Outputs : PlugOutput(o) \/ UnplugOutput(o)

(* kum_keybind_handle() runs the action registered for the key, the IPC    *)
(* socket the command of a line; both for whoever has the focus.           *)
UserNext ==
    \/ \E i \in Index : IpcWorkspace(i) \/ SwitchKey(i) \/ MoveFocused(i)
    \/ ScratchpadKey
    \/ CycleFocusKey
    \/ \E o \in Outputs : FocusAdjacentKey(o)
    \/ \E l \in Layouts : SetLayout(l)
    \/ ToggleLayoutKey
    \/ ToggleFloatingKey
    \/ SwapMasterKey
    \/ ResizeKey
    \/ Reload
    \/ KeyboardJoins
    \/ KeyboardLeaves

WindowsNext == desk.crashed = "no" /\ (ClientNext \/ XClientNext \/ OutputNext \/ UserNext)
=============================================================================

--------------------------- MODULE DesktopProofs ---------------------------
(***************************************************************************)
(* Theorems about Desktop.tla, for any number of windows, outputs,         *)
(* workspaces and layer surfaces.  First, the whole session still does to  *)
(* the outputs what Workspaces.tla does, so that the theorems of           *)
(* WorkspacesProofs.tla hold of it.  Then the keyboard focus:              *)
(* server->focused and ->focused_xwayland point at mapped windows, the     *)
(* seat agrees with them, and the lock keeps the keyboard away from        *)
(* windows.  Last, what rests on the lists of windows: they agree with the *)
(* windows, the focused window is drawn as focused, Super+Tab gets stuck   *)
(* in one case only, a hidden workspace keeps no focus, and the seat       *)
(* implements Keyboard.tla.                                                *)
(***************************************************************************)
EXTENDS Desktop, WorkspacesProofs

(* Whatever the session does next is an action of Workspaces.tla, or       *)
(* leaves the outputs alone.                                               *)
LEMMA StepOfWorkspaces ==
    WorkspacesInv /\ [DesktopNext]_desktopVars => [WorkspacesNext]_screenVars
<1> SUFFICES ASSUME WorkspacesInv, [DesktopNext]_desktopVars
             PROVE  [WorkspacesNext]_screenVars
  OBVIOUS
<1>1. \A o, i : SwitchOutput(o, i) => WorkspacesNext
  <2> SUFFICES ASSUME NEW o, NEW i, SwitchOutput(o, i)
               PROVE  WorkspacesNext
    OBVIOUS
  <2>1. o \in Outputs /\ i \in Index
    BY ConnectedSubset DEF SwitchOutput, WorkspacesInv
  <2>. QED
    BY <2>1 DEF WorkspacesNext
<1>2. CASE UNCHANGED desktopVars
  BY <1>2 DEF desktopVars, windowVars
<1>3. CASE ClientNext
  BY <1>3 DEF ClientNext, NewXdgToplevel, MapToplevel, UnmapToplevel, CommitToplevel,
              DestroyToplevel, SurfaceGone, RequestMove, OnlyDesk
<1>4. CASE XClientNext
  BY <1>4 DEF XClientNext, NewXWindow, XAssociate, XMap, XDissociate, XSurfaceGone,
              XDestroy, XRequestMove, OnlyDesk
<1>5. CASE OutputNext
  BY <1>5 DEF OutputNext, Frame, PlugOutput, UnplugOutput, OnlyDesk, WorkspacesNext
<1>6. CASE UserNext
  <2>1. ASSUME NEW i \in Index, IpcWorkspace(i) \/ SwitchKey(i) \/ MoveFocused(i)
        PROVE  [WorkspacesNext]_screenVars
    BY <2>1, <1>1 DEF IpcWorkspace, SwitchKey, MoveFocused, Switch, OnlyDesk
  <2>2. ASSUME ScratchpadKey
        PROVE  WorkspacesNext
    BY <2>2, <1>1 DEF ScratchpadKey, Switch
  <2>3. ASSUME NEW o \in Outputs, FocusAdjacentKey(o)
        PROVE  UNCHANGED screenVars
    BY <2>3 DEF FocusAdjacentKey
  <2>4. ASSUME NEW l \in Layouts, SetLayout(l)
        PROVE  UNCHANGED screenVars
    BY <2>4 DEF SetLayout, OnlyDesk
  <2>5. ASSUME ToggleLayoutKey
        PROVE  UNCHANGED screenVars
    BY <2>5 DEF ToggleLayoutKey, SetLayout, OnlyDesk
  <2>6. ASSUME CycleFocusKey \/ ToggleFloatingKey \/ SwapMasterKey \/ ResizeKey
        PROVE  UNCHANGED screenVars
    BY <2>6 DEF CycleFocusKey, ToggleFloatingKey, SwapMasterKey, ResizeKey, OnlyDesk
  <2>7. ASSUME Reload \/ KeyboardJoins \/ KeyboardLeaves
        PROVE  UNCHANGED screenVars
    BY <2>7 DEF Reload, KeyboardJoins, KeyboardLeaves
  <2>. QED
    BY <1>6, <2>1, <2>2, <2>3, <2>4, <2>5, <2>6, <2>7 DEF UserNext
<1>7. CASE LockNext
  BY <1>7 DEF LockNext, NewSessionLock, NewLockSurface, LockSurfaceGone, Unlock,
              LockClientDies, OnlyDesk
<1>8. CASE LayerNext
  BY <1>8 DEF LayerNext, LayerMap, LayerUnmap, LayerCommit, OnlyDesk
<1>9. CASE PointerNext
  BY <1>9 DEF PointerNext, PointerOver, XPointerOver, PointerElsewhere, PointerDrag,
              PointerPress, XPointerPress, PointerRelease, OnlyDesk
<1>. QED
  BY <1>2, <1>3, <1>4, <1>5, <1>6, <1>7, <1>8, <1>9 DEF DesktopNext, WindowsStep

LEMMA DesktopWorkspacesInv == DesktopSpec => []WorkspacesInv
<1>1. DesktopInit => WorkspacesInv
  BY InitInv DEF DesktopInit, WindowsInit
<1>2. WorkspacesInv /\ [DesktopNext]_desktopVars => WorkspacesInv'
  BY StepOfWorkspaces, NextInv
<1>. QED
  BY <1>1, <1>2, PTL DEF DesktopSpec

(* No action of the session moves an output or a workspace but by an       *)
(* action of Workspaces.tla, whose theorems so hold of it.                 *)
LEMMA Composition == DesktopSpec => WorkspacesSpec
<1>1. DesktopInit => WorkspacesInit
  BY DEF DesktopInit, WindowsInit
<1>. QED
  BY <1>1, StepOfWorkspaces, DesktopWorkspacesInv, PTL
     DEF DesktopSpec, WorkspacesSpec

(* So in the whole session no workspace is ever on show twice. *)
COROLLARY SessionNeverShownTwice == DesktopSpec => []ActiveDistinct
BY Composition, NeverShownTwice, PTL
-----------------------------------------------------------------------------
Fields == {"life", "workspace", "toplevels", "order", "xorder", "serials",
           "ghosts", "focused", "xfocused", "seat"}

(* The fields that the focus depends on have their types. *)
Typed(d) ==
    /\ Fields \subseteq DOMAIN d
    /\ d.life \in [AllWindows -> {"none", "bare", "unmapped", "mapped"}]
    /\ d.workspace \in [AllWindows -> Index]
    /\ d.toplevels \in [Index -> Seq(Toplevels)]
    /\ d.order \in Seq(Toplevels)
    /\ d.xorder \in Seq(XWindows)
    /\ d.serials \in Seq(AllWindows)
    /\ d.ghosts \in SUBSET XWindows
    /\ d.focused \in Toplevels \cup {NoToplevel}
    /\ d.xfocused \in XWindows \cup {NoToplevel}
    /\ d.seat \in Surfaces

OnWindow(s) ==
    \/ \E t \in Toplevels : s \in SurfacesOf(t)
    \/ \E x \in XWindows : s = XMain(x)

(* The seat is on no other window than the focused one, and, before a      *)
(* keyboard was ever plugged in, on no window.                             *)
SeatAgrees(d) ==
    /\ ~keyboard => ~OnWindow(d.seat)
    /\ \A t \in Toplevels : d.seat \in SurfacesOf(t) =>
          d.focused \in {t, NoToplevel} /\ d.xfocused = NoToplevel
    /\ \A x \in XWindows : d.seat = XMain(x) =>
          d.xfocused \in {x, NoToplevel} /\ d.focused = NoToplevel

(* Whoever is focused was given a focus_serial when it was, and so was an  *)
(* X11 window that the seat is on, until its surface is dissociated.  Of a *)
(* native window that the seat is on this is not so: it may be a new one   *)
(* on the wl_surface of an old one.                                        *)
Served(d) ==
    /\ IsInjective(d.serials)
    /\ d.focused # NoToplevel => d.focused \in ToSet(d.serials)
    /\ d.xfocused # NoToplevel => d.xfocused \in ToSet(d.serials)
    /\ \A x \in XWindows : d.seat = XMain(x) =>
          x \in d.ghosts \/ (d.life[x] = "mapped" /\ x \in ToSet(d.serials))

(* What every operation on the desk preserves.  An X11 window whose old    *)
(* surface is still in the scene is not mapped: the pointer must not focus *)
(* it, and nothing else looks.                                             *)
Focus(d) ==
    /\ Typed(d)
    /\ \A x \in d.ghosts : d.life[x] \in {"none", "bare"}
    /\ d.focused # NoToplevel => d.life[d.focused] = "mapped"
    /\ d.xfocused # NoToplevel => d.life[d.xfocused] = "mapped"
    /\ NoToplevel \in {d.focused, d.xfocused}
    /\ locked => ~OnWindow(d.seat)
    /\ ~locked => \A o \in Outputs : d.seat # Lock(o)
    /\ \A l \in Layers : d.seat = Layer(l) => l \in layers
    /\ ~KeyboardMayLeave => SeatAgrees(d)
    /\ Served(d)

FocusInv ==
    /\ Focus(desk)
    /\ activeLock => locked
    /\ cursor \in Outputs \cup {NoOutput}

(* Surfaces of different kinds, or of different windows, are different. *)
LEMMA WindowSurface ==
    ASSUME NEW t \in Toplevels, NEW s \in SurfacesOf(t)
    PROVE  /\ s \in Surfaces /\ OnWindow(s) /\ s # NoSurface
           /\ \A u : s \in SurfacesOf(u) => u = t
           /\ \A x : s # XMain(x) /\ s # Lock(x) /\ s # Layer(x)
<1>1. s = Main(t) \/ (t \in Parents /\ s = Child(t))
  BY DEF SurfacesOf
<1>2. s \in Surfaces
  BY <1>1 DEF Surfaces, Main, Child
<1>3. OnWindow(s)
  BY DEF OnWindow
<1>4. s # NoSurface /\ \A x : s # XMain(x) /\ s # Lock(x) /\ s # Layer(x)
  BY <1>1 DEF Main, Child, NoSurface, XMain, Lock, Layer
<1>5. ASSUME NEW u, s \in SurfacesOf(u)
      PROVE  u = t
  <2>1. s = Main(u) \/ s = Child(u)
    BY <1>5 DEF SurfacesOf
  <2>. QED
    BY <1>1, <2>1 DEF Main, Child
<1>. QED
  BY <1>2, <1>3, <1>4, <1>5

LEMMA XSurface ==
    ASSUME NEW x \in XWindows
    PROVE  /\ XMain(x) \in Surfaces /\ OnWindow(XMain(x)) /\ XMain(x) # NoSurface
           /\ \A t : XMain(x) \notin SurfacesOf(t)
           /\ \A y : XMain(x) = XMain(y) => x = y
           /\ \A y : XMain(x) # Lock(y) /\ XMain(x) # Layer(y)
<1>1. XMain(x) \in Surfaces
  BY DEF Surfaces, XMain
<1>2. OnWindow(XMain(x))
  BY DEF OnWindow
<1>3. \A t : XMain(x) \notin SurfacesOf(t)
  BY DEF SurfacesOf, XMain, Main, Child
<1>4. /\ XMain(x) # NoSurface
      /\ \A y : /\ XMain(x) = XMain(y) => x = y
               /\ XMain(x) # Lock(y) /\ XMain(x) # Layer(y)
  BY DEF XMain, NoSurface, Lock, Layer
<1>. QED
  BY <1>1, <1>2, <1>3, <1>4

LEMMA OtherSurface ==
    ASSUME NEW s, s = NoSurface \/ (\E o \in Outputs : s = Lock(o))
                                \/ (\E l \in Layers : s = Layer(l))
    PROVE  s \in Surfaces /\ ~OnWindow(s)
<1>1. s \in Surfaces
  BY DEF Surfaces, NoSurface, Lock, Layer
<1>2. \A t \in Toplevels : s \notin SurfacesOf(t)
  BY WindowSurface
<1>3. \A x \in XWindows : s # XMain(x)
  BY XSurface
<1>. QED
  BY <1>1, <1>2, <1>3 DEF OnWindow

LEMMA LockSurface ==
    /\ \A o : Lock(o) # NoSurface /\ Layer(o) # NoSurface
    /\ \A o, l : Lock(o) # Layer(l)
BY DEF Lock, Layer, NoSurface

(* The fields that the focus depends on are the same, but for the lists    *)
(* and the workspace of a window.                                          *)
Keeps(d, e) ==
    /\ Typed(e)
    /\ e.life = d.life /\ e.ghosts = d.ghosts /\ e.serials = d.serials
    /\ e.focused = d.focused /\ e.xfocused = d.xfocused /\ e.seat = d.seat

LEMMA KeepsFocus ==
    ASSUME NEW d, NEW e, Focus(d), Keeps(d, e)
    PROVE  Focus(e)
BY DEF Focus, Keeps, SeatAgrees, Served

LEMMA KeepsTransitive ==
    ASSUME NEW c, NEW d, NEW e, Keeps(c, d), Keeps(d, e)
    PROVE  Keeps(c, e)
BY DEF Keeps

LEMMA PromotedType ==
    ASSUME NEW S, NEW s \in Seq(S), NEW e \in S
    PROVE  Promoted(s, e) \in Seq(S)
<1>1. RemoveFirst(s, e) \in Seq(S) /\ <<e>> \in Seq(S)
  BY UnlinkType
<1>. QED
  BY <1>1, ConcatProperties DEF Promoted

(* At the head: the same elements, and the promoted one first              *)
LEMMA PromotedFacts ==
    ASSUME NEW S, NEW s \in Seq(S), IsInjective(s), NEW e \in S
    PROVE  /\ Promoted(s, e) \in Seq(S) /\ IsInjective(Promoted(s, e))
           /\ ToSet(Promoted(s, e)) = ToSet(s) \cup {e}
           /\ Promoted(s, e)[1] = e
<1> DEFINE r == RemoveFirst(s, e)
<1>1. r \in Seq(S) /\ IsInjective(r) /\ ToSet(r) = ToSet(s) \ {e}
  BY UnlinkAny
<1> HIDE DEF r
<1>2. /\ <<e>> \o r \in Seq(S) /\ IsInjective(<<e>> \o r)
      /\ ToSet(<<e>> \o r) = ToSet(s) \cup {e}
      /\ <<e>> \o r # << >> /\ Head(<<e>> \o r) = e
  BY <1>1, InsertFacts
<1>3. (<<e>> \o r)[1] = e
  BY <1>2
<1>. QED
  BY <1>2, <1>3 DEF Promoted, r

LEMMA FocusToplevelFocus ==
    ASSUME NEW d, Focus(d), NEW t \in Toplevels, NEW s \in SurfacesOf(t),
           d.life[t] = "mapped"
    PROVE  Focus(FocusToplevel(d, t, s))
<1> DEFINE e == FocusToplevel(d, t, s)
<1>1. CASE locked \/ d.seat = s
  BY <1>1 DEF FocusToplevel
<1>2. CASE ~(locked \/ d.seat = s)
  <2>. /\ Promoted(d.order, t) \in Seq(Toplevels)
       /\ Promoted(d.serials, t) \in Seq(AllWindows)
    BY PromotedType DEF Focus, Typed, AllWindows
  <2>1. /\ Typed(e)
        /\ e.life = d.life /\ e.ghosts = d.ghosts
        /\ e.focused = t /\ e.xfocused = NoToplevel
        /\ e.serials = Promoted(d.serials, t)
        /\ e.seat = IF keyboard THEN s ELSE d.seat
    BY <1>2, WindowSurface DEF FocusToplevel, Focus, Typed, Fields
  <2> HIDE DEF e
  <2>2. /\ \A o \in Outputs : e.seat # Lock(o)
        /\ \A l \in Layers : e.seat = Layer(l) => l \in layers
    BY <1>2, <2>1, WindowSurface DEF Focus
  <2>3. ~KeyboardMayLeave => SeatAgrees(e)
    <3>1. CASE keyboard
      BY <2>1, <3>1, WindowSurface DEF SeatAgrees
    <3>2. CASE ~keyboard
      BY <2>1, <3>2 DEF SeatAgrees, Focus, OnWindow
    <3>. QED
      BY <3>1, <3>2
  <2>4. /\ \A x \in e.ghosts : e.life[x] \in {"none", "bare"}
        /\ e.focused # NoToplevel => e.life[e.focused] = "mapped"
        /\ e.xfocused # NoToplevel => e.life[e.xfocused] = "mapped"
        /\ NoToplevel \in {e.focused, e.xfocused}
    BY <2>1 DEF Focus
  <2>5. Served(e)
    <3>0. d.serials \in Seq(AllWindows) /\ IsInjective(d.serials) /\ t \in AllWindows
      BY DEF Focus, Served, Typed, AllWindows
    <3>1. IsInjective(e.serials) /\ ToSet(e.serials) = ToSet(d.serials) \cup {t}
      BY <2>1, <3>0, PromotedFacts
    <3>2. \A x \in XWindows : e.seat = XMain(x) => d.seat = XMain(x)
      BY <2>1, WindowSurface
    <3>. QED
      BY <2>1, <3>1, <3>2 DEF Focus, Served
  <2>6. Focus(e)
    BY <1>2, <2>1, <2>2, <2>3, <2>4, <2>5 DEF Focus
  <2>. QED
    BY <2>6 DEF e
<1>. QED
  BY <1>1, <1>2

LEMMA FocusXFocus ==
    ASSUME NEW d, Focus(d), NEW x \in XWindows, d.life[x] \in {"mapped", "bare"}
    PROVE  Focus(FocusX(d, x))
<1> DEFINE e == FocusX(d, x)
<1>1. CASE e = d
  BY <1>1
<1>2. CASE e = [d EXCEPT !.crashed = "bare"]
  <2>1. Keeps(d, e)
    BY <1>2 DEF Keeps, Focus, Typed, Fields
  <2>. QED
    BY <2>1, KeepsFocus
<1>3. CASE e # d /\ e # [d EXCEPT !.crashed = "bare"]
  <2>1. ~locked /\ d.life[x] = "mapped"
    BY <1>3 DEF FocusX
  <2>. Promoted(d.serials, x) \in Seq(AllWindows)
    BY PromotedType DEF Focus, Typed, AllWindows
  <2>2. /\ Typed(e)
        /\ e.life = d.life /\ e.ghosts = d.ghosts
        /\ e.focused = NoToplevel /\ e.xfocused = x
        /\ e.serials = Promoted(d.serials, x)
        /\ e.seat = IF keyboard THEN XMain(x) ELSE d.seat
    BY <1>3, <2>1, XSurface DEF FocusX, Focus, Typed, Fields
  <2> HIDE DEF e
  <2>3. /\ \A o \in Outputs : e.seat # Lock(o)
        /\ \A l \in Layers : e.seat = Layer(l) => l \in layers
    BY <2>1, <2>2, XSurface DEF Focus
  <2>4. ~KeyboardMayLeave => SeatAgrees(e)
    <3>1. CASE keyboard
      BY <2>2, <3>1, XSurface DEF SeatAgrees
    <3>2. CASE ~keyboard
      BY <2>2, <3>2 DEF SeatAgrees, Focus, OnWindow
    <3>. QED
      BY <3>1, <3>2
  <2>5. /\ \A y \in e.ghosts : e.life[y] \in {"none", "bare"}
        /\ e.focused # NoToplevel => e.life[e.focused] = "mapped"
        /\ e.xfocused # NoToplevel => e.life[e.xfocused] = "mapped"
        /\ NoToplevel \in {e.focused, e.xfocused}
    BY <2>1, <2>2 DEF Focus
  <2>6. Served(e)
    <3>0. d.serials \in Seq(AllWindows) /\ IsInjective(d.serials) /\ x \in AllWindows
      BY DEF Focus, Served, Typed, AllWindows
    <3>1. IsInjective(e.serials) /\ ToSet(e.serials) = ToSet(d.serials) \cup {x}
      BY <2>2, <3>0, PromotedFacts
    <3>2. \A y \in XWindows : e.seat = XMain(y) => d.seat = XMain(y) \/ y = x
      BY <2>2, XSurface
    <3>. QED
      BY <2>1, <2>2, <3>1, <3>2 DEF Focus, Served
  <2>7. Focus(e)
    BY <2>1, <2>2, <2>3, <2>4, <2>5, <2>6 DEF Focus
  <2>. QED
    BY <2>7 DEF e
<1>. QED
  BY <1>1, <1>2, <1>3

(* Taking the seat off, and at most one of the windows focused *)
LEMMA UnseatFocus ==
    ASSUME NEW d, Focus(d), NEW e, Typed(e), e.life = d.life, e.ghosts = d.ghosts,
           e.serials = d.serials, e.focused \in {d.focused, NoToplevel},
           e.xfocused \in {d.xfocused, NoToplevel}, e.seat = NoSurface
    PROVE  Focus(e)
<1>1. /\ ~OnWindow(e.seat)
      /\ \A o : e.seat # Lock(o) /\ e.seat # Layer(o)
  BY OtherSurface, LockSurface
<1>2. SeatAgrees(e)
  BY <1>1 DEF SeatAgrees, OnWindow
<1>3. Served(e)
  BY <1>1 DEF Focus, Served, OnWindow
<1>. QED
  BY <1>1, <1>2, <1>3 DEF Focus

LEMMA ClearFocusFocus ==
    ASSUME NEW d, Focus(d)
    PROVE  Focus(ClearFocus(d)) /\ Focus(ClearXFocus(d))
<1> DEFINE e == ClearFocus(d)
           f == ClearXFocus(d)
<1>1. /\ Typed(e) /\ e.life = d.life /\ e.ghosts = d.ghosts
      /\ e.serials = d.serials
      /\ e.focused = NoToplevel /\ e.xfocused = d.xfocused /\ e.seat = NoSurface
  BY OtherSurface DEF ClearFocus, Focus, Typed, Fields
<1>2. /\ Typed(f) /\ f.life = d.life /\ f.ghosts = d.ghosts
      /\ f.serials = d.serials
      /\ f.focused = d.focused /\ f.xfocused = NoToplevel /\ f.seat = NoSurface
  BY OtherSurface DEF ClearXFocus, Focus, Typed, Fields
<1> HIDE DEF e, f
<1>3. Focus(e) /\ Focus(f)
  BY <1>1, <1>2, UnseatFocus
<1>. QED
  BY <1>3 DEF e, f

(* The window that FocusFirst() finds, native windows first *)
LEMMA FocusFirstFinds ==
    ASSUME NEW d, Typed(d), NEW w \in Index
    PROVE  \/ FocusFirst(d, w) \in {d, [d EXCEPT !.crashed = "bare"]}
           \/ \E t \in ToSet(d.toplevels[w]) \cap Toplevels :
                 d.life[t] = "mapped" /\ FocusFirst(d, w) = FocusToplevel(d, t, Main(t))
           \/ \E x \in ToSet(d.xorder) \cap XWindows :
                 /\ d.life[x] = "mapped" /\ d.workspace[x] = w
                 /\ FocusFirst(d, w) = FocusX(d, x)
<1> DEFINE list == d.toplevels[w]
           I == {i \in 1 .. Len(list) : d.life[list[i]] = "mapped"}
           J == {j \in 1 .. Len(d.xorder) :
                   d.workspace[d.xorder[j]] = w /\ d.life[d.xorder[j]] \in {"bare", "mapped"}}
           i == IF I # {} THEN Min(I) ELSE 0
           j == IF J # {} THEN Min(J) ELSE 0
<1>1. /\ list \in Seq(Toplevels) /\ Len(list) \in Nat /\ DOMAIN list = 1 .. Len(list)
      /\ \A k \in 1 .. Len(list) : list[k] \in Toplevels
  BY LenProperties, ElementOfSeq DEF Typed
<1>2. /\ Len(d.xorder) \in Nat /\ DOMAIN d.xorder = 1 .. Len(d.xorder)
      /\ \A k \in 1 .. Len(d.xorder) : d.xorder[k] \in XWindows
  BY LenProperties, ElementOfSeq DEF Typed
<1>3. FocusFirst(d, w) =
        IF i # 0 THEN FocusToplevel(d, list[i], Main(list[i]))
        ELSE IF j = 0 THEN d
        ELSE IF d.life[d.xorder[j]] = "bare" THEN [d EXCEPT !.crashed = "bare"]
        ELSE FocusX(d, d.xorder[j])
  BY DEF FocusFirst, SelectInSeq
<1>4. i # 0 => i \in I
  <2>1. I \in SUBSET Nat
    BY <1>1
  <2> HIDE DEF I
  <2>. QED
    BY <2>1, MinFacts
<1>5. j # 0 => j \in J
  <2>1. J \in SUBSET Nat
    BY <1>2
  <2> HIDE DEF J
  <2>. QED
    BY <2>1, MinFacts
<1> HIDE DEF i, j
<1>6. CASE i # 0
  BY <1>1, <1>3, <1>4, <1>6 DEF ToSet
<1>7. CASE i = 0 /\ j # 0 /\ d.life[d.xorder[j]] # "bare"
  <2>1. d.xorder[j] \in ToSet(d.xorder) \cap XWindows
    BY <1>2, <1>5, <1>7 DEF ToSet
  <2>. QED
    BY <1>3, <1>5, <1>7, <2>1
<1>. QED
  BY <1>3, <1>6, <1>7

LEMMA FocusFirstFocus ==
    ASSUME NEW d, Focus(d), NEW w \in Index
    PROVE  Focus(FocusFirst(d, w))
<1>1. Typed(d)
  BY DEF Focus
<1>2. CASE FocusFirst(d, w) \in {d, [d EXCEPT !.crashed = "bare"]}
  <2>1. Keeps(d, d) /\ Keeps(d, [d EXCEPT !.crashed = "bare"])
    BY DEF Keeps, Focus, Typed, Fields
  <2>. QED
    BY <1>2, <2>1, KeepsFocus
<1>. QED
  BY <1>1, <1>2, FocusFirstFinds, FocusToplevelFocus, FocusXFocus DEF SurfacesOf

LEMMA LeaveFocus ==
    ASSUME NEW d, Focus(d), NEW w
    PROVE  Focus(LeaveWorkspace(d, w)) /\ Focus(LeaveWorkspaceX(d, w))
BY ClearFocusFocus DEF LeaveWorkspace, LeaveWorkspaceX

LEMMA ArrangeKeeps ==
    ASSUME NEW d, Typed(d), NEW o, NEW w
    PROVE  /\ Keeps(d, d)
           /\ Keeps(d, Arrange(d, o, w))
           /\ Keeps(d, ArrangeIfTiled(d, o, w))
           /\ Keeps(d, ArrangeIfShown(d, w))
BY DEF Keeps, Typed, Fields, Arrange, ArrangeIfTiled, ArrangeIfShown

(* No function of Windows.tla below maps or unmaps a window. *)
LEMMA LifeKept ==
    ASSUME NEW d, Typed(d), NEW w
    PROVE  /\ \A t, s : FocusToplevel(d, t, s).life = d.life
           /\ \A x : FocusX(d, x).life = d.life
           /\ FocusFirst(d, w).life = d.life
           /\ ClearFocus(d).life = d.life /\ ClearXFocus(d).life = d.life
<1>1. \A t, s : FocusToplevel(d, t, s).life = d.life
  BY DEF FocusToplevel, Typed, Fields
<1>2. \A x : FocusX(d, x).life = d.life
  BY DEF FocusX, Typed, Fields
<1>3. FocusFirst(d, w).life = d.life
  <2> HIDE <1>1, <1>2
  <2>1. [d EXCEPT !.crashed = "bare"].life = d.life
    BY DEF Typed, Fields
  <2>. QED
    BY <1>1, <1>2, <2>1 DEF FocusFirst
<1>4. ClearFocus(d).life = d.life /\ ClearXFocus(d).life = d.life
  BY DEF ClearFocus, ClearXFocus, Typed, Fields
<1>. QED
  BY <1>1, <1>2, <1>3, <1>4

LEMMA MoveToplevelFocus ==
    ASSUME NEW d, Focus(d), NEW t \in Toplevels, NEW w \in Index
    PROVE  /\ Focus(MoveToplevel(d, t, w))
           /\ MoveToplevel(d, t, w).life = d.life
<1> DEFINE old     == d.workspace[t]
           moved   == [d EXCEPT !.toplevels[old] = RemoveFirst(@, t),
                                !.toplevels[w] = <<t>> \o @,
                                !.workspace[t] = w]
           placed  == IF OnShow(w) THEN Arrange(moved, OutputFor(w), w)
                      ELSE [moved EXCEPT !.hidden = @ \cup {t}]
           settled == ArrangeIfShown(placed, old)
<1>1. Typed(d) /\ old \in Index
  BY DEF Focus, Typed, AllWindows
<1>2. Keeps(d, moved)
  <2>1. /\ d.toplevels[old] \in Seq(Toplevels)
        /\ RemoveFirst(d.toplevels[old], t) \in Seq(Toplevels)
        /\ <<t>> \in Seq(Toplevels)
        /\ \A s \in Seq(Toplevels) : <<t>> \o s \in Seq(Toplevels)
    BY <1>1, UnlinkType, ConcatProperties DEF Typed
  <2> DEFINE unlinked == [d.toplevels EXCEPT ![old] = RemoveFirst(@, t)]
             linked   == [unlinked EXCEPT ![w] = <<t>> \o d.toplevels[w]]
  <2>2. unlinked \in [Index -> Seq(Toplevels)]
    BY <1>1, <2>1 DEF Typed
  <2>3. linked \in [Index -> Seq(Toplevels)]
    BY <2>1, <2>2
  <2>4. /\ DOMAIN moved = DOMAIN d
        /\ moved.toplevels = linked
        /\ moved.workspace = [d.workspace EXCEPT ![t] = w]
        /\ \A f \in Fields \ {"toplevels", "workspace"} : moved[f] = d[f]
    BY <1>1 DEF Typed, Fields
  <2> HIDE DEF moved, linked, unlinked
  <2>5. \A f \in {"life", "order", "xorder", "serials", "ghosts", "focused",
                   "xfocused", "seat"} : moved[f] = d[f]
    BY <2>4 DEF Fields
  <2>6. moved.workspace \in [AllWindows -> Index]
    BY <1>1, <2>4 DEF Typed
  <2>. QED
    BY <1>1, <2>3, <2>4, <2>5, <2>6 DEF Keeps, Typed
<1> HIDE DEF moved
<1>3. Keeps(d, placed)
  <2>1. Typed(moved)
    BY <1>2 DEF Keeps
  <2>2. Keeps(moved, [moved EXCEPT !.hidden = @ \cup {t}])
    BY <2>1 DEF Keeps, Typed, Fields
  <2>3. Keeps(moved, placed)
    BY <2>1, <2>2, ArrangeKeeps
  <2>. QED
    BY <1>2, <2>3, KeepsTransitive
<1> HIDE DEF placed
<1>4. Keeps(d, settled)
  BY <1>3, ArrangeKeeps, KeepsTransitive DEF Keeps
<1> HIDE DEF settled
<1>5. Focus(settled) /\ settled.life = d.life
  BY <1>4, KeepsFocus DEF Keeps
<1>6. /\ Focus(ClearFocus(settled)) /\ ClearFocus(settled).life = d.life
      /\ Focus(FocusFirst(ClearFocus(settled), old))
      /\ FocusFirst(ClearFocus(settled), old).life = d.life
  <2>1. Focus(ClearFocus(settled)) /\ ClearFocus(settled).life = d.life
    BY <1>5, ClearFocusFocus, LifeKept DEF Focus
  <2>2. Typed(ClearFocus(settled))
    BY <2>1 DEF Focus
  <2>. QED
    BY <1>1, <2>1, <2>2, FocusFirstFocus, LifeKept
<1>7. MoveToplevel(d, t, w) \in {d, settled, ClearFocus(settled),
                                 FocusFirst(ClearFocus(settled), old)}
  BY DEF MoveToplevel, settled, placed, moved
<1>. QED
  BY <1>5, <1>6, <1>7

LEMMA MoveXWindowFocus ==
    ASSUME NEW d, Focus(d), NEW x \in XWindows, NEW w \in Index
    PROVE  Focus(MoveXWindow(d, x, w))
<1> DEFINE placed == [d EXCEPT !.workspace[x] = w,
                               !.hidden = IF OnShow(w) THEN @ ELSE @ \cup {x}]
<1>1. Keeps(d, placed)
  BY DEF Focus, Keeps, Typed, Fields, AllWindows
<1>2. MoveXWindow(d, x, w) \in {d, placed, ClearXFocus(placed)}
  BY DEF MoveXWindow
<1> HIDE DEF placed
<1>. QED
  BY <1>1, <1>2, KeepsFocus, ClearFocusFocus

LEMMA RulesApplyFocus ==
    ASSUME NEW d, Focus(d), NEW t \in Toplevels, NEW r \in Rules
    PROVE  Focus(RulesApply(d, t, r)) /\ RulesApply(d, t, r).life = d.life
<1> DEFINE moved == IF r.workspace = -1 THEN d ELSE MoveToplevel(d, t, r.workspace)
<1>1. r.workspace = -1 \/ r.workspace \in Index
  BY WindowsAssumption
<1>2. Focus(moved) /\ moved.life = d.life
  BY <1>1, MoveToplevelFocus
<1>3. RulesApply(d, t, r) \in {moved, [moved EXCEPT !.floating = @ \cup {t}]}
  BY DEF RulesApply
<1> HIDE DEF moved
<1>4. Keeps(moved, [moved EXCEPT !.floating = @ \cup {t}])
  BY <1>2 DEF Focus, Keeps, Typed, Fields
<1>. QED
  BY <1>2, <1>3, <1>4, KeepsFocus DEF Keeps

LEMMA BeginInteractiveFocus ==
    ASSUME NEW d, Focus(d), NEW t \in Toplevels
    PROVE  Focus(BeginInteractive(d, t))
<1> DEFINE w == d.workspace[t]
           floated == [d EXCEPT !.floating = @ \cup {t}]
           promoted == Arrange(floated, OutputFor(w), w)
           chosen == IF d.layout[w] = "tile" /\ t \notin d.floating THEN promoted
                     ELSE d
<1>1. Keeps(d, floated)
  BY DEF Focus, Keeps, Typed, Fields
<1> HIDE DEF floated
<1>2. Keeps(d, promoted)
  <2>1. Keeps(floated, promoted)
    BY <1>1, ArrangeKeeps DEF Keeps
  <2>. QED
    BY <1>1, <2>1, KeepsTransitive
<1>3. Keeps(d, chosen)
  BY <1>2 DEF Keeps, Focus
<1>4. BeginInteractive(d, t) = [chosen EXCEPT !.grabbed = @ \cup {t}]
  BY DEF BeginInteractive, floated
<1> HIDE DEF chosen
<1>5. Keeps(chosen, [chosen EXCEPT !.grabbed = @ \cup {t}])
  BY <1>3 DEF Keeps, Typed, Fields
<1>. QED
  BY <1>3, <1>4, <1>5, KeepsTransitive, KeepsFocus

(* Super+Tab picks a mapped window. *)
LEMMA OldestMapped ==
    ASSUME NEW d, Typed(d), Oldest(d) # NoToplevel
    PROVE  Oldest(d) \in AllWindows /\ d.life[Oldest(d)] = "mapped"
<1> DEFINE list == d.order \o d.xorder
           I == {i \in 1 .. Len(list) :
                   d.life[list[i]] = "mapped" /\ list[i] \notin ToSet(d.serials)}
           J == {j \in 1 .. Len(d.serials) : d.life[d.serials[j]] = "mapped"}
           new == IF I # {} THEN Min(I) ELSE 0
           old == IF J # {} THEN Max(J) ELSE 0
<1>1. /\ Len(list) \in Nat
      /\ \A k \in 1 .. Len(list) : list[k] \in AllWindows
  <2>1. d.order \in Seq(AllWindows) /\ d.xorder \in Seq(AllWindows)
    BY SeqMonotonic DEF Typed, AllWindows
  <2>2. list \in Seq(AllWindows)
    BY <2>1, ConcatProperties
  <2>. QED
    BY <2>2, LenProperties, ElementOfSeq
<1>2. /\ Len(d.serials) \in Nat
      /\ \A k \in 1 .. Len(d.serials) : d.serials[k] \in AllWindows
  BY LenProperties, ElementOfSeq DEF Typed
<1> HIDE DEF list
<1>3. Oldest(d) = IF new # 0 THEN list[new]
                  ELSE IF old # 0 THEN d.serials[old] ELSE NoToplevel
  BY DEF Oldest, SelectInSeq, SelectLastInSeq, list
<1>4. new # 0 => new \in I
  <2>1. I \in SUBSET Nat
    BY <1>1
  <2> HIDE DEF I
  <2>. QED
    BY <2>1, MinFacts
<1>5. old # 0 => old \in J
  <2>1. J \in SUBSET (0 .. Len(d.serials))
    BY <1>2
  <2> HIDE DEF J
  <2>. QED
    BY <1>2, <2>1, MaxFacts
<1> HIDE DEF new, old
<1>6. CASE new # 0
  BY <1>1, <1>3, <1>4, <1>6
<1>7. CASE new = 0 /\ old # 0
  BY <1>2, <1>3, <1>5, <1>7
<1>. QED
  BY <1>3, <1>6, <1>7

(* A handler that leaves the keyboard's presence, the lock and the layer   *)
(* surfaces alone                                                          *)
LEMMA DeskStep ==
    ASSUME NEW e, Focus(e), desk' = e, UNCHANGED <<keyboard, locked, layers>>
    PROVE  Focus(desk)'
BY DEF Focus, Typed, SeatAgrees, Served

LEMMA KeepsStep ==
    ASSUME Focus(desk), NEW e, Keeps(desk, e), desk' = e,
           UNCHANGED <<keyboard, locked, layers>>
    PROVE  Focus(desk)'
BY KeepsFocus, DeskStep

LEMMA TypedHere ==
    ASSUME WorkspacesInv, FocusInv
    PROVE  /\ Typed(desk) /\ Focus(desk)
           /\ cursor # NoOutput => active[cursor] \in Index
           /\ \A o \in Connected : o \in Outputs /\ active[o] \in Index
           /\ 0 \in Index
BY ConnectedSubset, WorkspacesAssumption
   DEF FocusInv, Focus, WorkspacesInv, WorkspacesTypeOK, Index
-----------------------------------------------------------------------------
(* A window that is not mapped, and has nothing drawn, changes its life.   *)
LEMMA LifeFocus ==
    ASSUME NEW d, Focus(d), NEW e, Typed(e), NEW w \in AllWindows,
           d.life[w] # "mapped", w \notin d.ghosts,
           \A v \in AllWindows \ {w} : e.life[v] = d.life[v],
           e.ghosts = d.ghosts, e.focused = d.focused, e.xfocused = d.xfocused,
           e.seat = d.seat, IsInjective(e.serials),
           ToSet(d.serials) \ {w} \subseteq ToSet(e.serials)
    PROVE  Focus(e)
<1>1. Typed(d)
  BY DEF Focus
<1>2. /\ e.focused # NoToplevel => e.focused \in AllWindows \ {w}
      /\ e.xfocused # NoToplevel => e.xfocused \in AllWindows \ {w}
  BY <1>1 DEF Focus, Typed, AllWindows
<1>3. \A x \in e.ghosts : x \in AllWindows \ {w}
  BY <1>1 DEF Typed, AllWindows
<1>4. SeatAgrees(d) => SeatAgrees(e)
  BY DEF SeatAgrees
<1>5. Served(e)
  <2>1. \A x \in XWindows : e.seat = XMain(x) =>
           x \in d.ghosts \/ (d.life[x] = "mapped" /\ x \in ToSet(d.serials))
    BY DEF Focus, Served
  <2>2. \A x \in XWindows : d.life[x] = "mapped" => x \in AllWindows \ {w}
    BY DEF AllWindows
  <2>. QED
    BY <1>2, <2>1, <2>2 DEF Focus, Served
<1>. QED
  BY <1>2, <1>3, <1>4, <1>5 DEF Focus

LEMMA ClientFocus ==
    ASSUME WorkspacesInv, FocusInv, ClientNext, layers' = layers
    PROVE  Focus(desk)'
<1>0. Typed(desk) /\ Focus(desk)
  BY TypedHere
<1>1. PICK t \in Toplevels :
        \/ NewXdgToplevel(t)
        \/ \E r \in Rules : MapToplevel(t, r)
        \/ UnmapToplevel(t)
        \/ CommitToplevel(t)
        \/ DestroyToplevel(t)
        \/ \E s \in SurfacesOf(t) : SurfaceGone(t, s)
        \/ RequestMove(t)
  BY DEF ClientNext
<1>2. t \in AllWindows /\ t \notin XWindows /\ t \notin desk.ghosts
  BY <1>0, WindowsAssumption DEF AllWindows, Typed
<1>s. IsInjective(desk.serials) /\ desk.serials \in Seq(AllWindows)
  BY <1>0 DEF Focus, Served, Typed
<1>3. CASE NewXdgToplevel(t)
  <2> DEFINE w == IF cursor = NoOutput THEN 0 ELSE active[cursor]
             e == [desk EXCEPT
                     !.life[t] = "unmapped",
                     !.workspace[t] = w,
                     !.toplevels[w] = <<t>> \o @,
                     !.order = <<t>> \o @,
                     !.hidden = @ \cup {t}]
  <2>1. w \in Index
    BY TypedHere
  <2> HIDE DEF w
  <2>2. /\ <<t>> \in Seq(Toplevels)
        /\ \A s \in Seq(Toplevels) : <<t>> \o s \in Seq(Toplevels)
    BY ConcatProperties
  <2>3. /\ Typed(e)
        /\ \A v \in AllWindows \ {t} : e.life[v] = desk.life[v]
        /\ e.ghosts = desk.ghosts /\ e.serials = desk.serials /\ e.focused = desk.focused
        /\ e.xfocused = desk.xfocused /\ e.seat = desk.seat
    BY <1>0, <1>2, <2>1, <2>2 DEF Typed, Fields
  <2>4. /\ desk' = e /\ desk.life[t] = "none"
        /\ UNCHANGED <<keyboard, locked, layers>>
    BY <1>3 DEF NewXdgToplevel, OnlyDesk, w
  <2> HIDE DEF e
  <2>5. Focus(e)
    BY <1>0, <1>s, <1>2, <2>3, <2>4, LifeFocus
  <2>. QED
    BY <2>4, <2>5, DeskStep
<1>4. CASE \E r \in Rules : MapToplevel(t, r)
  <2>1. PICK r \in Rules : MapToplevel(t, r)
    BY <1>4
  <2> DEFINE w       == desk.workspace[t]
             raised  == [desk EXCEPT !.life[t] = "mapped", !.hidden = @ \ {t},
                                     !.lit = @ \ {t}]
             tiled   == IF t \in desk.floating THEN raised
                        ELSE ArrangeIfTiled(raised, OutputFor(w), w)
             opening == IF Animations THEN [tiled EXCEPT !.anim[t] = "opening"]
                        ELSE tiled
             ruled   == RulesApply(opening, t, r)
  <2>2. /\ desk' = FocusToplevel(ruled, t, Main(t)) /\ desk.life[t] = "unmapped"
        /\ UNCHANGED <<keyboard, locked, layers>>
    BY <2>1 DEF MapToplevel, OnlyDesk
  <2>3. /\ Typed(raised)
        /\ \A v \in AllWindows \ {t} : raised.life[v] = desk.life[v]
        /\ raised.ghosts = desk.ghosts /\ raised.focused = desk.focused
        /\ raised.serials = desk.serials
        /\ raised.xfocused = desk.xfocused /\ raised.seat = desk.seat
        /\ raised.life[t] = "mapped"
    BY <1>0, <1>2 DEF Typed, Fields
  <2> HIDE DEF raised
  <2>4. Focus(raised)
    BY <1>0, <1>s, <1>2, <2>2, <2>3, LifeFocus
  <2>5. Keeps(raised, tiled)
    BY <2>3, ArrangeKeeps
  <2> HIDE DEF tiled
  <2>6. Keeps(raised, opening)
    <3>1. Keeps(tiled, [tiled EXCEPT !.anim[t] = "opening"])
      BY <2>5 DEF Keeps, Typed, Fields
    <3>. QED
      BY <2>5, <3>1, KeepsTransitive
  <2> HIDE DEF opening
  <2>7. Focus(opening) /\ opening.life[t] = "mapped"
    BY <2>3, <2>4, <2>6, KeepsFocus DEF Keeps
  <2>8. Focus(ruled) /\ ruled.life[t] = "mapped"
    BY <2>7, RulesApplyFocus
  <2> HIDE DEF ruled
  <2>9. Focus(FocusToplevel(ruled, t, Main(t)))
    BY <2>8, FocusToplevelFocus DEF SurfacesOf
  <2>. QED
    BY <2>2, <2>9, DeskStep
<1>5. CASE UnmapToplevel(t)
  <2> DEFINE w == desk.workspace[t]
             dropped == [desk EXCEPT
                           !.life[t] = "unmapped",
                           !.hidden = @ \cup {t},
                           !.focused = IF @ = t THEN NoToplevel ELSE @,
                           !.anim[t] = IF Animations THEN "closing" ELSE @,
                           !.lit = @ \ {t}]
  <2>1. /\ desk' \in {dropped, ArrangeIfTiled(dropped, OutputFor(w), w)}
        /\ UNCHANGED <<keyboard, locked, layers>>
    BY <1>5 DEF UnmapToplevel, OnlyDesk
  <2>2. /\ Typed(dropped)
        /\ dropped.life = [desk.life EXCEPT ![t] = "unmapped"]
        /\ dropped.ghosts = desk.ghosts
        /\ dropped.focused = (IF desk.focused = t THEN NoToplevel ELSE desk.focused)
        /\ dropped.xfocused = desk.xfocused /\ dropped.seat = desk.seat
        /\ dropped.serials = desk.serials
    BY <1>0, <1>2 DEF Typed, Fields
  <2> HIDE DEF dropped
  <2>3. Focus(dropped)
    <3>1. ~KeyboardMayLeave => SeatAgrees(dropped)
      BY <1>0, <2>2 DEF SeatAgrees, Focus
    <3>2. /\ dropped.focused # NoToplevel => dropped.life[dropped.focused] = "mapped"
          /\ dropped.xfocused # NoToplevel => dropped.life[dropped.xfocused] = "mapped"
          /\ \A x \in dropped.ghosts : dropped.life[x] \in {"none", "bare"}
          /\ NoToplevel \in {dropped.focused, dropped.xfocused}
      BY <1>0, <1>2, <2>2 DEF Focus, Typed, AllWindows
    <3>3. Served(dropped)
      BY <1>0, <1>2, <2>2 DEF Focus, Served, Typed, AllWindows
    <3>. QED
      BY <1>0, <2>2, <3>1, <3>2, <3>3 DEF Focus
  <2>4. Focus(ArrangeIfTiled(dropped, OutputFor(w), w))
    BY <2>2, <2>3, ArrangeKeeps, KeepsFocus
  <2>. QED
    BY <2>1, <2>3, <2>4, DeskStep
<1>6. CASE CommitToplevel(t)
  <2> DEFINE e == [desk EXCEPT !.lit = IF desk.focused = t THEN @ \cup {t} ELSE @ \ {t}]
  <2>1. Keeps(desk, e)
    BY <1>0 DEF Keeps, Typed, Fields
  <2>. QED
    BY <1>0, <1>6, <2>1, KeepsStep DEF CommitToplevel, OnlyDesk
<1>7. CASE DestroyToplevel(t)
  <2> DEFINE w == desk.workspace[t]
             e == [desk EXCEPT
                     !.life[t] = "none",
                     !.toplevels[w] = RemoveFirst(@, t),
                     !.order = RemoveFirst(@, t),
                     !.floating = @ \ {t}, !.hidden = @ \ {t},
                     !.grabbed = @ \ {t}, !.serials = RemoveFirst(@, t),
                     !.anim[t] = "none", !.workspace[t] = 0]
  <2>1. /\ RemoveFirst(desk.order, t) \in Seq(Toplevels)
        /\ RemoveFirst(desk.serials, t) \in Seq(AllWindows)
        /\ w \in Index /\ RemoveFirst(desk.toplevels[w], t) \in Seq(Toplevels)
    BY <1>0, <1>2, UnlinkType DEF Typed
  <2>2. 0 \in Index
    BY TypedHere
  <2>3. /\ Typed(e)
        /\ \A v \in AllWindows \ {t} : e.life[v] = desk.life[v]
        /\ e.ghosts = desk.ghosts /\ e.focused = desk.focused
        /\ e.xfocused = desk.xfocused /\ e.seat = desk.seat
        /\ e.serials = RemoveFirst(desk.serials, t)
    BY <1>0, <1>2, <2>1, <2>2 DEF Typed, Fields
  <2>4. /\ desk' = e /\ desk.life[t] = "unmapped"
        /\ UNCHANGED <<keyboard, locked, layers>>
    BY <1>7 DEF DestroyToplevel, OnlyDesk
  <2> HIDE DEF e
  <2>5. IsInjective(e.serials) /\ ToSet(e.serials) = ToSet(desk.serials) \ {t}
    BY <1>s, <2>3, UnlinkAny
  <2>6. Focus(e)
    BY <1>0, <1>2, <2>3, <2>4, <2>5, LifeFocus
  <2>. QED
    BY <2>4, <2>6, DeskStep
<1>8. CASE \E s \in SurfacesOf(t) : SurfaceGone(t, s)
  <2> DEFINE e == [desk EXCEPT !.seat = NoSurface]
  <2>1. /\ Typed(e) /\ e.life = desk.life /\ e.ghosts = desk.ghosts
        /\ e.focused = desk.focused /\ e.xfocused = desk.xfocused
        /\ e.serials = desk.serials
        /\ e.seat = NoSurface
    BY <1>0, OtherSurface DEF Typed, Fields
  <2>2. desk' = e /\ UNCHANGED <<keyboard, locked, layers>>
    BY <1>8 DEF SurfaceGone, OnlyDesk
  <2> HIDE DEF e
  <2>3. Focus(e)
    BY <1>0, <2>1, UnseatFocus
  <2>. QED
    BY <2>2, <2>3, DeskStep
<1>9. CASE RequestMove(t)
  <2>1. Focus(BeginInteractive(desk, t))
    BY <1>0, BeginInteractiveFocus
  <2>. QED
    BY <1>9, <2>1, DeskStep DEF RequestMove, OnlyDesk
<1>. QED
  BY <1>1, <1>3, <1>4, <1>5, <1>6, <1>7, <1>8, <1>9

LEMMA XClientFocus ==
    ASSUME WorkspacesInv, FocusInv, XClientNext, layers' = layers
    PROVE  Focus(desk)'
<1>0. Typed(desk) /\ Focus(desk)
  BY TypedHere
<1>1. PICK x \in XWindows :
        \/ NewXWindow(x)
        \/ XAssociate(x)
        \/ \E r \in Rules : XMap(x, r)
        \/ XDissociate(x)
        \/ XSurfaceGone(x)
        \/ XDestroy(x)
        \/ XRequestMove(x)
  BY DEF XClientNext
<1>2. x \in AllWindows /\ x \notin Toplevels
  BY WindowsAssumption DEF AllWindows
<1>s. IsInjective(desk.serials) /\ desk.serials \in Seq(AllWindows)
  BY <1>0 DEF Focus, Served, Typed
<1>a. \A w \in desk.ghosts : desk.life[w] \in {"none", "bare"}
  BY <1>0 DEF Focus
<1>3. CASE NewXWindow(x)
  <2> DEFINE w == IF cursor = NoOutput THEN 0 ELSE active[cursor]
             e == [desk EXCEPT
                     !.life[x] = "bare",
                     !.workspace[x] = w,
                     !.xorder = <<x>> \o @]
  <2>1. w \in Index
    BY TypedHere
  <2>2. /\ desk' = e /\ desk.life[x] = "none" /\ x \notin desk.ghosts
        /\ UNCHANGED <<keyboard, locked, layers>>
    BY <1>3 DEF NewXWindow, OnlyDesk
  <2> HIDE DEF w
  <2>3. <<x>> \o desk.xorder \in Seq(XWindows)
    BY <1>0, ConcatProperties DEF Typed
  <2>4. /\ Typed(e)
        /\ \A v \in AllWindows \ {x} : e.life[v] = desk.life[v]
        /\ e.ghosts = desk.ghosts /\ e.serials = desk.serials /\ e.focused = desk.focused
        /\ e.xfocused = desk.xfocused /\ e.seat = desk.seat
    BY <1>0, <1>2, <2>1, <2>3 DEF Typed, Fields
  <2> HIDE DEF e
  <2>5. Focus(e)
    BY <1>0, <1>s, <1>2, <2>2, <2>4, LifeFocus
  <2>. QED
    BY <2>2, <2>5, DeskStep
<1>4. CASE XAssociate(x)
  <2> DEFINE e == [desk EXCEPT !.life[x] = "unmapped"]
  <2>1. /\ desk' = e /\ desk.life[x] = "bare" /\ x \notin desk.ghosts
        /\ UNCHANGED <<keyboard, locked, layers>>
    BY <1>4 DEF XAssociate, OnlyDesk
  <2>2. /\ Typed(e)
        /\ \A v \in AllWindows \ {x} : e.life[v] = desk.life[v]
        /\ e.ghosts = desk.ghosts /\ e.serials = desk.serials /\ e.focused = desk.focused
        /\ e.xfocused = desk.xfocused /\ e.seat = desk.seat
    BY <1>0, <1>2 DEF Typed, Fields
  <2> HIDE DEF e
  <2>3. Focus(e)
    BY <1>0, <1>s, <1>2, <2>1, <2>2, LifeFocus
  <2>. QED
    BY <2>1, <2>3, DeskStep
<1>5. CASE \E r \in Rules : XMap(x, r)
  <2>1. PICK r \in Rules : XMap(x, r)
    BY <1>5
  <2> DEFINE mapped == [desk EXCEPT !.life[x] = "mapped"]
             ruled  == IF r.workspace = -1 THEN mapped
                       ELSE MoveXWindow(mapped, x, r.workspace)
             e      == [ruled EXCEPT !.hidden = @ \ {x}]
  <2>2. /\ desk' = e /\ desk.life[x] = "unmapped"
        /\ UNCHANGED <<keyboard, locked, layers>>
    BY <2>1 DEF XMap, OnlyDesk
  <2>3. /\ Typed(mapped)
        /\ \A v \in AllWindows \ {x} : mapped.life[v] = desk.life[v]
        /\ mapped.ghosts = desk.ghosts /\ mapped.focused = desk.focused
        /\ mapped.serials = desk.serials
        /\ mapped.xfocused = desk.xfocused /\ mapped.seat = desk.seat
    BY <1>0, <1>2 DEF Typed, Fields
  <2> HIDE DEF mapped
  <2>4. Focus(mapped)
    BY <1>0, <1>s, <1>2, <1>a, <2>2, <2>3, LifeFocus
  <2>5. Focus(ruled)
    <3>1. r.workspace = -1 \/ r.workspace \in Index
      BY WindowsAssumption
    <3>. QED
      BY <2>4, <3>1, MoveXWindowFocus
  <2> HIDE DEF ruled
  <2>6. Keeps(ruled, e)
    BY <2>5 DEF Focus, Keeps, Typed, Fields
  <2> HIDE DEF e
  <2>7. Focus(e)
    BY <2>5, <2>6, KeepsFocus
  <2>. QED
    BY <2>2, <2>7, DeskStep
<1>6. CASE XDissociate(x)
  <2> DEFINE left == {x} \cap {y \in XWindows : desk.life[y] = "mapped"}
             e == [desk EXCEPT
                     !.life[x] = "bare",
                     !.xfocused = IF @ = x THEN NoToplevel ELSE @,
                     !.ghosts = @ \cup left]
  <2>1. /\ desk' = e
        /\ UNCHANGED <<keyboard, locked, layers>>
    BY <1>6 DEF XDissociate, OnlyDesk
  <2>2. left \subseteq {x}
    OBVIOUS
  <2> HIDE DEF left
  <2>3. /\ Typed(e)
        /\ e.life = [desk.life EXCEPT ![x] = "bare"]
        /\ e.ghosts = desk.ghosts \cup left /\ e.focused = desk.focused
        /\ e.xfocused = (IF desk.xfocused = x THEN NoToplevel ELSE desk.xfocused)
        /\ e.seat = desk.seat /\ e.serials = desk.serials
    BY <1>0, <1>2, <2>2 DEF Typed, Fields
  <2>4. desk.life[x] = "mapped" => x \in e.ghosts
    BY <2>3 DEF left
  <2> HIDE DEF e
  <2>5. ~KeyboardMayLeave => SeatAgrees(e)
    BY <1>0, <2>3 DEF SeatAgrees, Focus
  <2>6. /\ e.focused # NoToplevel => e.life[e.focused] = "mapped"
        /\ e.xfocused # NoToplevel => e.life[e.xfocused] = "mapped"
        /\ \A y \in e.ghosts : e.life[y] \in {"none", "bare"}
        /\ NoToplevel \in {e.focused, e.xfocused}
    BY <1>0, <1>2, <2>2, <2>3 DEF Focus, Typed, AllWindows
  <2>7. Served(e)
    <3>1. \A y \in XWindows : y # x => e.life[y] = desk.life[y]
      BY <1>0, <2>3 DEF Typed, AllWindows
    <3>. QED
      BY <1>0, <2>3, <2>4, <3>1 DEF Focus, Served
  <2>8. Focus(e)
    BY <1>0, <2>3, <2>5, <2>6, <2>7 DEF Focus
  <2>. QED
    BY <2>1, <2>8, DeskStep
<1>7. CASE XSurfaceGone(x)
  <2> DEFINE forgotten == {x} \cap {y \in XWindows : desk.life[y] = "none"}
             e == [desk EXCEPT
                     !.ghosts = @ \ {x},
                     !.hidden = @ \ forgotten,
                     !.workspace[x] = IF x \in forgotten THEN 0 ELSE @,
                     !.seat = IF @ = XMain(x) THEN NoSurface ELSE @]
  <2>1. /\ desk' = e
        /\ UNCHANGED <<keyboard, locked, layers>>
    BY <1>7 DEF XSurfaceGone, OnlyDesk
  <2> HIDE DEF forgotten
  <2>2. 0 \in Index /\ NoSurface \in Surfaces
    BY TypedHere, OtherSurface
  <2>3. /\ Typed(e) /\ e.life = desk.life
        /\ e.ghosts = desk.ghosts \ {x} /\ e.focused = desk.focused
        /\ e.xfocused = desk.xfocused
        /\ e.seat \in {desk.seat, NoSurface} /\ e.seat # XMain(x)
        /\ e.serials = desk.serials
    BY <1>0, <1>2, <2>2, XSurface DEF Typed, Fields
  <2> HIDE DEF e
  <2>4. /\ locked => ~OnWindow(e.seat)
        /\ ~locked => \A o \in Outputs : e.seat # Lock(o)
        /\ \A l \in Layers : e.seat = Layer(l) => l \in layers
    BY <1>0, <2>3, OtherSurface, LockSurface DEF Focus
  <2>5. ~KeyboardMayLeave => SeatAgrees(e)
    <3>1. ~OnWindow(NoSurface)
      BY OtherSurface
    <3>. QED
      BY <1>0, <2>3, <3>1 DEF SeatAgrees, Focus, OnWindow
  <2>6. Served(e)
    <3>1. \A y \in XWindows : e.seat = XMain(y) => desk.seat = XMain(y) /\ y # x
      BY <2>3, XSurface
    <3>. QED
      BY <1>0, <2>3, <3>1 DEF Focus, Served
  <2>7. Focus(e)
    BY <1>0, <2>3, <2>4, <2>5, <2>6 DEF Focus
  <2>. QED
    BY <2>1, <2>7, DeskStep
<1>8. CASE XDestroy(x)
  <2> DEFINE forgotten == {x} \ desk.ghosts
             e == [desk EXCEPT
                     !.life[x] = "none",
                     !.xorder = RemoveFirst(@, x),
                     !.serials = RemoveFirst(@, x),
                     !.grabbed = @ \ {x},
                     !.xfocused = IF @ = x THEN NoToplevel ELSE @,
                     !.hidden = @ \ forgotten,
                     !.workspace[x] = IF x \in forgotten THEN 0 ELSE @]
  <2>1. /\ desk' = e /\ desk.life[x] = "bare"
        /\ UNCHANGED <<keyboard, locked, layers>>
    BY <1>8 DEF XDestroy, OnlyDesk
  <2>2. /\ RemoveFirst(desk.xorder, x) \in Seq(XWindows)
        /\ RemoveFirst(desk.serials, x) \in Seq(AllWindows)
        /\ 0 \in Index
    BY <1>0, TypedHere, UnlinkType DEF Typed
  <2> HIDE DEF forgotten
  <2>3. /\ Typed(e)
        /\ e.life = [desk.life EXCEPT ![x] = "none"]
        /\ e.ghosts = desk.ghosts /\ e.focused = desk.focused
        /\ e.xfocused = (IF desk.xfocused = x THEN NoToplevel ELSE desk.xfocused)
        /\ e.seat = desk.seat /\ e.serials = RemoveFirst(desk.serials, x)
    BY <1>0, <1>2, <2>2 DEF Typed, Fields
  <2> HIDE DEF e
  <2>4. ~KeyboardMayLeave => SeatAgrees(e)
    BY <1>0, <2>3 DEF SeatAgrees, Focus
  <2>5. /\ e.focused # NoToplevel => e.life[e.focused] = "mapped"
        /\ e.xfocused # NoToplevel => e.life[e.xfocused] = "mapped"
        /\ \A y \in e.ghosts : e.life[y] \in {"none", "bare"}
        /\ NoToplevel \in {e.focused, e.xfocused}
    BY <1>0, <1>2, <2>3 DEF Focus, Typed, AllWindows
  <2>6. Served(e)
    <3>1. IsInjective(e.serials) /\ ToSet(e.serials) = ToSet(desk.serials) \ {x}
      BY <1>s, <2>3, UnlinkAny
    <3>2. \A y \in XWindows : y # x => e.life[y] = desk.life[y]
      BY <1>0, <2>3 DEF Typed, AllWindows
    <3>3. desk.focused # x
      BY <1>0, <1>2, WindowsAssumption DEF Typed
    <3>. QED
      BY <1>0, <2>1, <2>3, <3>1, <3>2, <3>3 DEF Focus, Served
  <2>7. Focus(e)
    BY <1>0, <2>3, <2>4, <2>5, <2>6 DEF Focus
  <2>. QED
    BY <2>1, <2>7, DeskStep
<1>9. CASE XRequestMove(x)
  <2>1. Keeps(desk, [desk EXCEPT !.grabbed = @ \cup {x}])
    BY <1>0 DEF Keeps, Typed, Fields
  <2>. QED
    BY <1>0, <1>9, <2>1, KeepsStep DEF XRequestMove, OnlyDesk
<1>. QED
  BY <1>1, <1>3, <1>4, <1>5, <1>6, <1>7, <1>8, <1>9

LEMMA OutputFocus ==
    ASSUME WorkspacesInv, FocusInv, OutputNext, layers' = layers
    PROVE  Focus(desk)'
<1>0. Typed(desk) /\ Focus(desk)
  BY TypedHere
<1>1. CASE Frame
  <2>1. \A a, h, l : Keeps(desk, [desk EXCEPT !.anim = a, !.hidden = h, !.lit = l])
    BY <1>0 DEF Keeps, Typed, Fields
  <2>2. \E a, h, l : desk' = [desk EXCEPT !.anim = a, !.hidden = h, !.lit = l]
    BY <1>1 DEF Frame
  <2>. QED
    BY <1>0, <1>1, <2>1, <2>2, KeepsStep DEF Frame, OnlyDesk
<1>2. ASSUME NEW o \in Outputs, PlugOutput(o)
      PROVE  Focus(desk)'
  BY <1>0, <1>2, DeskStep DEF PlugOutput
<1>3. ASSUME NEW o \in Outputs, UnplugOutput(o)
      PROVE  Focus(desk)'
  <2> DEFINE w    == active[o]
             rest == RemoveFirst(outputs, o)
             left == LeaveWorkspace(desk, w)
             tiled == ArrangeIfTiled(left, Head(rest), w)
  <2>1. w \in Index
    BY <1>3, TypedHere DEF UnplugOutput, OutputDestroyed
  <2>2. /\ desk' \in {left, FocusFirst(tiled, w)}
        /\ UNCHANGED <<keyboard, locked, layers>>
    BY <1>3 DEF UnplugOutput
  <2>3. Focus(left)
    BY <1>0, LeaveFocus
  <2> HIDE DEF left
  <2>4. Focus(tiled)
    BY <2>3, ArrangeKeeps, KeepsFocus DEF Focus
  <2> HIDE DEF tiled, w
  <2>. QED
    BY <2>1, <2>2, <2>3, <2>4, FocusFirstFocus, DeskStep
<1>. QED
  BY <1>1, <1>2, <1>3 DEF OutputNext

LEMMA UserFocus ==
    ASSUME WorkspacesInv, FocusInv, UserNext, layers' = layers
    PROVE  Focus(desk)'
<1>0. Typed(desk) /\ Focus(desk)
  BY TypedHere
<1>1. ASSUME NEW o, NEW i, Switch(o, i)
      PROVE  Focus(desk)'
  <2> DEFINE left == LeaveWorkspaceX(LeaveWorkspace(desk, active[o]), active[o])
  <2>1. i \in Index
    BY <1>1 DEF Switch, SwitchOutput
  <2>2. desk' = FocusFirst(left, i) /\ UNCHANGED <<keyboard, locked, layers>>
    BY <1>1 DEF Switch
  <2>3. Focus(left)
    BY <1>0, LeaveFocus
  <2> HIDE DEF left
  <2>. QED
    BY <2>1, <2>2, <2>3, FocusFirstFocus, DeskStep
<1>2. ASSUME NEW i \in Index, IpcWorkspace(i) \/ SwitchKey(i)
      PROVE  Focus(desk)'
  BY <1>1, <1>2 DEF IpcWorkspace, SwitchKey
<1>3. CASE ScratchpadKey
  BY <1>1, <1>3 DEF ScratchpadKey
<1>4. ASSUME NEW i \in Index, MoveFocused(i)
      PROVE  Focus(desk)'
  <2>1. /\ desk.focused # NoToplevel => desk.focused \in Toplevels
        /\ desk.xfocused # NoToplevel => desk.xfocused \in XWindows
    BY <1>0 DEF Typed
  <2> DEFINE e == IF desk.focused # NoToplevel THEN MoveToplevel(desk, desk.focused, i)
                  ELSE IF desk.xfocused # NoToplevel
                  THEN MoveXWindow(desk, desk.xfocused, i) ELSE desk
  <2>2. Focus(e)
    BY <1>0, <2>1, MoveToplevelFocus, MoveXWindowFocus
  <2>3. desk' = e /\ UNCHANGED <<keyboard, locked, layers>>
    BY <1>4 DEF MoveFocused, OnlyDesk
  <2> HIDE DEF e
  <2>. QED
    BY <2>2, <2>3, DeskStep
<1>5. CASE CycleFocusKey
  <2> DEFINE w == Oldest(desk)
             e == IF \E x \in XWindows : desk.life[x] = "bare"
                  THEN [desk EXCEPT !.crashed = "bare"]
                  ELSE IF w \in Toplevels THEN FocusToplevel(desk, w, Main(w))
                  ELSE IF w \in XWindows THEN FocusX(desk, w) ELSE desk
  <2>1. w \in AllWindows => desk.life[w] = "mapped"
    BY <1>0, OldestMapped, WindowsAssumption DEF AllWindows
  <2>2. desk' = e /\ UNCHANGED <<keyboard, locked, layers>>
    BY <1>5 DEF CycleFocusKey, OnlyDesk
  <2> HIDE DEF w
  <2>3. Focus([desk EXCEPT !.crashed = "bare"])
    <3>1. Keeps(desk, [desk EXCEPT !.crashed = "bare"])
      BY <1>0 DEF Keeps, Typed, Fields
    <3>. QED
      BY <1>0, <3>1, KeepsFocus
  <2>4. w \in Toplevels => Focus(FocusToplevel(desk, w, Main(w)))
    BY <1>0, <2>1, FocusToplevelFocus DEF SurfacesOf, AllWindows
  <2>5. w \in XWindows => Focus(FocusX(desk, w))
    BY <1>0, <2>1, FocusXFocus DEF AllWindows
  <2>6. Focus(e)
    BY <1>0, <2>3, <2>4, <2>5
  <2> HIDE DEF e
  <2>. QED
    BY <2>2, <2>6, DeskStep
<1>6. ASSUME NEW o \in Outputs, FocusAdjacentKey(o)
      PROVE  Focus(desk)'
  <2>1. active[o] \in Index
    BY <1>6, TypedHere DEF FocusAdjacentKey
  <2>2. Focus(FocusFirst(desk, active[o]))
    BY <1>0, <2>1, FocusFirstFocus
  <2>. QED
    BY <1>6, <2>2, DeskStep DEF FocusAdjacentKey
<1>7. ASSUME NEW l, SetLayout(l)
      PROVE  Focus(desk)'
  <2> DEFINE e == [desk EXCEPT !.layout[active[cursor]] = l]
  <2>1. Keeps(desk, e)
    BY <1>0 DEF Keeps, Typed, Fields
  <2>2. /\ desk' = Arrange(e, cursor, active[cursor])
        /\ UNCHANGED <<keyboard, locked, layers>>
    BY <1>7 DEF SetLayout, OnlyDesk
  <2> HIDE DEF e
  <2>3. Keeps(desk, Arrange(e, cursor, active[cursor]))
    BY <2>1, ArrangeKeeps, KeepsTransitive DEF Keeps
  <2>. QED
    BY <1>0, <2>2, <2>3, KeepsStep
<1>8. CASE ToggleLayoutKey
  BY <1>7, <1>8 DEF ToggleLayoutKey
<1>9. CASE ToggleFloatingKey
  <2> DEFINE t == desk.focused
             w == desk.workspace[t]
             e == [desk EXCEPT !.floating = (@ \ {t}) \cup ({t} \ @)]
  <2>1. Keeps(desk, e)
    BY <1>0 DEF Keeps, Typed, Fields
  <2>2. /\ desk' = Arrange(e, cursor, w)
        /\ UNCHANGED <<keyboard, locked, layers>>
    BY <1>9 DEF ToggleFloatingKey, OnlyDesk
  <2> HIDE DEF e
  <2>3. Keeps(desk, Arrange(e, cursor, w))
    BY <2>1, ArrangeKeeps, KeepsTransitive DEF Keeps
  <2>. QED
    BY <1>0, <2>2, <2>3, KeepsStep
<1>10. CASE SwapMasterKey
  <2> DEFINE t    == desk.focused
             w    == desk.workspace[t]
             swapped == Append(RemoveFirst(desk.toplevels[w], t), t)
             last == [desk EXCEPT !.toplevels[w] = swapped]
             null == [desk EXCEPT !.crashed = "null"]
  <2>1. /\ desk' \in {null, ArrangeIfShown(last, w)}
        /\ t # NoToplevel
        /\ UNCHANGED <<keyboard, locked, layers>>
    BY <1>10 DEF SwapMasterKey, OnlyDesk
  <2>2. t \in Toplevels /\ w \in Index
    BY <1>0, <2>1 DEF Typed, AllWindows
  <2>3. swapped \in Seq(Toplevels)
    <3>1. RemoveFirst(desk.toplevels[w], t) \in Seq(Toplevels)
      BY <1>0, <2>2, UnlinkType DEF Typed
    <3>. QED
      BY <2>2, <3>1, AppendProperties
  <2> HIDE DEF t, w, swapped
  <2>4. Keeps(desk, last)
    BY <1>0, <2>2, <2>3 DEF Keeps, Typed, Fields
  <2>5. Keeps(desk, null)
    BY <1>0 DEF Keeps, Typed, Fields
  <2> HIDE DEF last, null
  <2>6. Keeps(desk, ArrangeIfShown(last, w))
    BY <2>4, ArrangeKeeps, KeepsTransitive DEF Keeps
  <2>. QED
    BY <1>0, <2>1, <2>5, <2>6, KeepsStep
<1>11. CASE ResizeKey
  <2>1. Keeps(desk, ArrangeIfShown(desk, desk.workspace[desk.focused]))
    BY <1>0, ArrangeKeeps
  <2>. QED
    BY <1>0, <1>11, <2>1, KeepsStep DEF ResizeKey, OnlyDesk
<1>12. CASE Reload
  <2>1. \A l : Keeps(desk, [desk EXCEPT !.lit = l])
    BY <1>0 DEF Keeps, Typed, Fields
  <2>. QED
    BY <1>0, <1>12, <2>1, KeepsStep DEF Reload
<1>13. CASE KeyboardJoins \/ KeyboardLeaves
  BY <1>0, <1>13 DEF KeyboardJoins, KeyboardLeaves, Focus, Typed, SeatAgrees, Served
<1>. QED
  BY <1>2, <1>3, <1>4, <1>5, <1>6, <1>7, <1>8, <1>9, <1>10, <1>11, <1>12, <1>13
     DEF UserNext

(* The lock and the layer surfaces move the seat alone, off the windows.   *)
LEMMA SeatFocus ==
    ASSUME Focus(desk), NEW s, s = NoSurface \/ (\E o \in Outputs : s = Lock(o))
                                 \/ (\E l \in Layers : s = Layer(l)),
           Typed(desk'), desk'.life = desk.life, desk'.ghosts = desk.ghosts,
           desk'.serials = desk.serials,
           desk'.focused = desk.focused, desk'.xfocused = desk.xfocused,
           desk'.seat = s, keyboard' = keyboard,
           ~locked' => \A o \in Outputs : s # Lock(o),
           \A l \in Layers : s = Layer(l) => l \in layers'
    PROVE  Focus(desk)'
<1>1. ~OnWindow(s)
  BY OtherSurface
<1>2. SeatAgrees(desk)'
  BY <1>1 DEF SeatAgrees, OnWindow
<1>3. Served(desk)'
  BY <1>1 DEF Focus, Served, OnWindow
<1>. QED
  BY <1>1, <1>2, <1>3 DEF Focus, OnWindow, Typed

LEMMA LockFocus ==
    ASSUME FocusInv, Typed(desk), LockNext
    PROVE  Focus(desk)'
<1>0. Focus(desk)
  BY DEF FocusInv
<1>s. /\ NoSurface \in Surfaces
      /\ \A o : NoSurface # Lock(o) /\ NoSurface # Layer(o)
  BY OtherSurface, LockSurface
<1>1. CASE NewSessionLock
  <2>1. /\ desk' = [desk EXCEPT !.seat = NoSurface] /\ locked'
        /\ UNCHANGED <<keyboard, layers>>
    BY <1>1 DEF NewSessionLock, ClearSeat
  <2>2. /\ Typed(desk') /\ desk'.life = desk.life /\ desk'.ghosts = desk.ghosts
        /\ desk'.serials = desk.serials
        /\ desk'.focused = desk.focused /\ desk'.xfocused = desk.xfocused
        /\ desk'.seat = NoSurface
    BY <1>s, <2>1 DEF Typed, Fields
  <2>. QED
    BY <1>0, <1>s, <2>1, <2>2, SeatFocus
<1>2. ASSUME NEW o \in Outputs, NewLockSurface(o)
      PROVE  Focus(desk)'
  <2>1. /\ desk' = [desk EXCEPT !.seat = Lock(o)] /\ locked'
        /\ UNCHANGED <<keyboard, layers>>
    BY <1>2 DEF NewLockSurface, OnlyDesk, FocusInv
  <2>2. Lock(o) \in Surfaces
    BY OtherSurface
  <2>3. /\ Typed(desk') /\ desk'.life = desk.life /\ desk'.ghosts = desk.ghosts
        /\ desk'.serials = desk.serials
        /\ desk'.focused = desk.focused /\ desk'.xfocused = desk.xfocused
        /\ desk'.seat = Lock(o)
    BY <2>1, <2>2 DEF Typed, Fields
  <2>. QED
    BY <1>0, <2>1, <2>3, LockSurface, SeatFocus
<1>3. CASE Unlock
  <2>1. PICK crash : desk' = [desk EXCEPT !.seat = NoSurface, !.crashed = crash]
    BY <1>3 DEF Unlock
  <2>2. UNCHANGED <<keyboard, layers>>
    BY <1>3 DEF Unlock
  <2>3. /\ Typed(desk') /\ desk'.life = desk.life /\ desk'.ghosts = desk.ghosts
        /\ desk'.serials = desk.serials
        /\ desk'.focused = desk.focused /\ desk'.xfocused = desk.xfocused
        /\ desk'.seat = NoSurface
    BY <1>s, <2>1 DEF Typed, Fields
  <2>. QED
    BY <1>0, <1>s, <2>2, <2>3, SeatFocus
<1>4. ASSUME NEW o, LockSurfaceGone(o) \/ LockClientDies
      PROVE  Focus(desk)'
  <2>1. /\ \/ desk' = [desk EXCEPT !.seat = NoSurface]
           \/ desk' = [desk EXCEPT !.seat = desk.seat]
        /\ UNCHANGED <<keyboard, locked, layers>>
    BY <1>4 DEF LockSurfaceGone, LockClientDies, OnlyDesk
  <2>2. CASE desk' = [desk EXCEPT !.seat = NoSurface]
    <3>1. /\ Typed(desk') /\ desk'.life = desk.life /\ desk'.ghosts = desk.ghosts
          /\ desk'.serials = desk.serials
          /\ desk'.focused = desk.focused /\ desk'.xfocused = desk.xfocused
          /\ desk'.seat = NoSurface
      BY <1>s, <2>2 DEF Typed, Fields
    <3>. QED
      BY <1>0, <1>s, <2>1, <3>1, SeatFocus
  <2>3. CASE desk' = [desk EXCEPT !.seat = desk.seat]
    <3>1. Keeps(desk, [desk EXCEPT !.seat = desk.seat])
      BY DEF Keeps, Typed, Fields
    <3>. QED
      BY <1>0, <2>1, <2>3, <3>1, KeepsStep
  <2>. QED
    BY <2>1, <2>2, <2>3
<1>. QED
  BY <1>1, <1>2, <1>3, <1>4 DEF LockNext

LEMMA LayerFocus ==
    ASSUME FocusInv, Typed(desk), LayerNext
    PROVE  Focus(desk)'
<1>0. Focus(desk)
  BY DEF FocusInv
<1>1. \A o : Keeps(desk, Recalculate(desk, o))
  BY ArrangeKeeps DEF Recalculate
<1>2. PICK l \in Layers : LayerMap(l) \/ LayerUnmap(l) \/ LayerCommit(l)
  BY DEF LayerNext
<1> DEFINE e == Recalculate(desk, LayerOutput[l])
<1>3. Keeps(desk, e) /\ Typed(e) /\ Focus(e)
  BY <1>0, <1>1, KeepsFocus DEF Keeps
<1>s. /\ NoSurface \in Surfaces /\ Layer(l) \in Surfaces
      /\ \A o : NoSurface # Lock(o) /\ NoSurface # Layer(o) /\ Lock(o) # Layer(l)
      /\ \A m : Layer(m) = Layer(l) => m = l
  BY OtherSurface, LockSurface DEF Layer
<1>4. CASE LayerMap(l)
  <2>1. /\ desk' = [e EXCEPT !.seat = Layer(l)] /\ layers' = layers \cup {l}
        /\ UNCHANGED <<keyboard, locked>>
    BY <1>4 DEF LayerMap, OnlyDesk
  <2> HIDE DEF e
  <2>2. /\ Typed(desk') /\ desk'.life = desk.life /\ desk'.ghosts = desk.ghosts
        /\ desk'.serials = desk.serials
        /\ desk'.focused = desk.focused /\ desk'.xfocused = desk.xfocused
        /\ desk'.seat = Layer(l)
    BY <1>3, <1>s, <2>1 DEF Typed, Fields, Keeps
  <2>. QED
    BY <1>0, <1>s, <2>1, <2>2, SeatFocus
<1>5. CASE LayerUnmap(l)
  <2>1. /\ desk' = [e EXCEPT !.seat = IF @ = Layer(l) THEN NoSurface ELSE @]
        /\ layers' = layers \ {l}
        /\ UNCHANGED <<keyboard, locked>>
    BY <1>5 DEF LayerUnmap, OnlyDesk
  <2> HIDE DEF e
  <2>2. /\ Typed(desk') /\ desk'.life = desk.life /\ desk'.ghosts = desk.ghosts
        /\ desk'.serials = desk.serials
        /\ desk'.focused = desk.focused /\ desk'.xfocused = desk.xfocused
        /\ desk'.seat = (IF desk.seat = Layer(l) THEN NoSurface ELSE desk.seat)
    BY <1>3, <1>s, <2>1 DEF Typed, Fields, Keeps
  <2>3. CASE desk.seat = Layer(l)
    BY <1>0, <1>s, <2>1, <2>2, <2>3, SeatFocus
  <2>4. CASE desk.seat # Layer(l)
    <3>1. \A m \in Layers : desk.seat = Layer(m) => m \in layers'
      BY <1>0, <2>1, <2>4 DEF Focus
    <3>2. SeatAgrees(desk) => SeatAgrees(desk)'
      BY <2>1, <2>2, <2>4 DEF SeatAgrees
    <3>3. Served(desk)'
      BY <1>0, <2>2, <2>4 DEF Focus, Served
    <3>. QED
      BY <1>0, <2>1, <2>2, <2>4, <3>1, <3>2, <3>3 DEF Focus, Typed
  <2>. QED
    BY <2>3, <2>4
<1>6. CASE LayerCommit(l)
  BY <1>3, <1>6, DeskStep DEF LayerCommit, OnlyDesk
<1>. QED
  BY <1>2, <1>4, <1>5, <1>6

LEMMA PointerFocus ==
    ASSUME FocusInv, Typed(desk), PointerNext
    PROVE  Focus(desk)'
<1>0. Focus(desk)
  BY DEF FocusInv
<1>n. \A t \in Toplevels : t \notin desk.ghosts
  BY WindowsAssumption DEF Typed
<1>1. ASSUME NEW o \in Outputs, NEW t \in Toplevels, NEW s \in SurfacesOf(t),
             PointerOver(o, t, s)
      PROVE  Focus(desk)'
  <2>1. desk.life[t] = "mapped"
    BY <1>1, <1>n DEF PointerOver, CanHit
  <2>2. desk' \in {desk, FocusToplevel(desk, t, s)}
        /\ UNCHANGED <<keyboard, locked, layers>>
    BY <1>1 DEF PointerOver, Hovered
  <2>. QED
    BY <1>0, <2>1, <2>2, FocusToplevelFocus, DeskStep
<1>2. ASSUME NEW x \in XWindows, desk.life[x] = "mapped" \/ x \in desk.ghosts
      PROVE  Focus(FocusHit(x))
  <2>1. CASE desk.life[x] = "none"
    <3>1. Keeps(desk, [desk EXCEPT !.crashed = "freed"])
      BY DEF Keeps, Typed, Fields
    <3>. QED
      BY <1>0, <2>1, <3>1, KeepsFocus DEF FocusHit
  <2>2. CASE desk.life[x] # "none"
    <3>1. desk.life[x] \in {"mapped", "bare"}
      BY <1>0, <1>2, <2>2 DEF Focus
    <3>. QED
      BY <1>0, <2>2, <3>1, FocusXFocus DEF FocusHit
  <2>. QED
    BY <2>1, <2>2
<1>3. ASSUME NEW o \in Outputs, NEW x \in XWindows, XPointerOver(o, x)
      PROVE  Focus(desk)'
  <2>1. /\ desk' \in {desk, FocusHit(x)}
        /\ desk.life[x] = "mapped" \/ x \in desk.ghosts
        /\ UNCHANGED <<keyboard, locked, layers>>
    BY <1>3 DEF XPointerOver, CanHit
  <2>. QED
    BY <1>0, <1>2, <2>1, DeskStep
<1>4. ASSUME NEW x \in XWindows, NEW grab \in BOOLEAN, XPointerPress(x, grab)
      PROVE  Focus(desk)'
  <2> DEFINE clicked == FocusHit(x)
             held == [clicked EXCEPT !.grabbed = @ \cup {x}]
  <2>1. /\ desk' \in {clicked, held}
        /\ desk.life[x] = "mapped" \/ x \in desk.ghosts
        /\ UNCHANGED <<keyboard, locked, layers>>
    BY <1>4 DEF XPointerPress, CanHit, OnlyDesk
  <2>2. Focus(clicked)
    BY <1>2, <2>1
  <2> HIDE DEF clicked
  <2>3. Keeps(clicked, held)
    BY <2>2 DEF Focus, Keeps, Typed, Fields
  <2>4. Focus(held)
    BY <2>2, <2>3, KeepsFocus
  <2>. QED
    BY <2>1, <2>2, <2>4, DeskStep
<1>5. ASSUME NEW o \in Outputs, PointerElsewhere(o) \/ PointerDrag(o)
      PROVE  Focus(desk)'
  <2>1. \A l : Keeps(desk, [desk EXCEPT !.lit = l]) /\ Keeps(desk, desk)
    BY DEF Keeps, Typed, Fields
  <2>2. /\ desk' = desk \/ \E l : desk' = [desk EXCEPT !.lit = l]
        /\ UNCHANGED <<keyboard, locked, layers>>
    BY <1>5 DEF PointerElsewhere, PointerDrag
  <2>. QED
    BY <1>0, <2>1, <2>2, KeepsStep
<1>6. ASSUME NEW t \in Toplevels, NEW s \in SurfacesOf(t), NEW grab \in BOOLEAN,
             PointerPress(t, s, grab)
      PROVE  Focus(desk)'
  <2> DEFINE clicked == FocusToplevel(desk, t, s)
  <2>1. desk.life[t] = "mapped"
    BY <1>6, <1>n DEF PointerPress, CanHit
  <2>2. /\ desk' \in {clicked, BeginInteractive(clicked, t)}
        /\ UNCHANGED <<keyboard, locked, layers>>
    BY <1>6 DEF PointerPress, OnlyDesk
  <2>3. Focus(clicked)
    BY <1>0, <2>1, FocusToplevelFocus
  <2> HIDE DEF clicked
  <2>. QED
    BY <2>2, <2>3, BeginInteractiveFocus, DeskStep
<1>7. CASE PointerRelease
  <2>1. Keeps(desk, [desk EXCEPT !.grabbed = {}])
    BY DEF Keeps, Typed, Fields
  <2>. QED
    BY <1>0, <1>7, <2>1, KeepsStep DEF PointerRelease, OnlyDesk
<1>. QED
  BY <1>1, <1>3, <1>4, <1>5, <1>6, <1>7 DEF PointerNext
-----------------------------------------------------------------------------
(* Only the lock's own handlers lock and unlock; the pointer is on an      *)
(* output, if on anything.                                                 *)
LEMMA SidesStep ==
    ASSUME DesktopNext, FocusInv, Connected \subseteq Outputs,
           Connected' \subseteq Outputs
    PROVE  /\ activeLock' => locked'
           /\ cursor' \in Outputs \cup {NoOutput}
<1>0. (activeLock => locked) /\ cursor \in Outputs \cup {NoOutput}
  BY DEF FocusInv
<1>1. CASE WindowsStep
  <2>1. CASE ClientNext \/ XClientNext
    BY ZenonT(60), <1>0, <1>1, <2>1
       DEF WindowsStep, ClientNext, NewXdgToplevel, MapToplevel, UnmapToplevel,
           CommitToplevel, DestroyToplevel, SurfaceGone, RequestMove, XClientNext,
           NewXWindow, XAssociate, XMap, XDissociate, XSurfaceGone, XDestroy,
           XRequestMove, OnlyDesk
  <2>2. CASE OutputNext
    BY <1>0, <1>1, <2>2
       DEF WindowsStep, OutputNext, Frame, PlugOutput, UnplugOutput, OnlyDesk
  <2>3. CASE UserNext
    <3>1. locked' = locked /\ activeLock' = activeLock
      BY <1>1, <2>3
         DEF WindowsStep, UserNext, IpcWorkspace, SwitchKey, ScratchpadKey, Switch,
             MoveFocused, CycleFocusKey, FocusAdjacentKey, ToggleLayoutKey, SetLayout,
             ToggleFloatingKey, SwapMasterKey, ResizeKey, Reload, KeyboardJoins,
             KeyboardLeaves, OnlyDesk
    <3>2. cursor' \in Outputs \cup {NoOutput}
      BY <1>0, <2>3
         DEF UserNext, IpcWorkspace, SwitchKey, ScratchpadKey, Switch,
             MoveFocused, CycleFocusKey, FocusAdjacentKey, ToggleLayoutKey, SetLayout,
             ToggleFloatingKey, SwapMasterKey, ResizeKey, Reload, KeyboardJoins,
             KeyboardLeaves, OnlyDesk
    <3>. QED
      BY <1>0, <3>1, <3>2
  <2>. QED
    BY <1>1, <2>1, <2>2, <2>3 DEF WindowsStep
<1>2. CASE LockNext
  <2>1. cursor' = cursor
    BY <1>2 DEF LockNext, NewSessionLock, NewLockSurface, LockSurfaceGone, Unlock,
                LockClientDies, OnlyDesk
  <2>2. NewSessionLock => locked' = TRUE
    BY DEF NewSessionLock
  <2>4. Unlock \/ LockClientDies => activeLock' = FALSE
    BY DEF Unlock, LockClientDies
  <2>3. ASSUME NEW o, NewLockSurface(o) \/ LockSurfaceGone(o)
        PROVE  locked' = locked /\ activeLock' = activeLock
    BY <2>3 DEF NewLockSurface, LockSurfaceGone, OnlyDesk
  <2>. QED
    BY <1>0, <1>2, <2>1, <2>2, <2>3, <2>4 DEF LockNext
<1>3. CASE LayerNext
  BY <1>0, <1>3 DEF LayerNext, LayerMap, LayerUnmap, LayerCommit, OnlyDesk, lockVars
<1>4. CASE PointerNext
  <2>1. locked' = locked /\ activeLock' = activeLock
    BY <1>4 DEF PointerNext, PointerOver, XPointerOver, PointerElsewhere,
                PointerDrag, PointerPress, XPointerPress, PointerRelease, OnlyDesk,
                lockVars
  <2>2. cursor' \in Outputs \cup {cursor}
    BY <1>4 DEF PointerNext, PointerOver, XPointerOver, PointerElsewhere,
                PointerDrag, PointerPress, XPointerPress, PointerRelease, OnlyDesk
  <2>. QED
    BY <1>0, <2>1, <2>2
<1>. QED
  BY <1>1, <1>2, <1>3, <1>4 DEF DesktopNext

LEMMA FocusStep ==
    WorkspacesInv /\ WorkspacesInv' /\ FocusInv /\ [DesktopNext]_desktopVars
        => FocusInv'
<1> SUFFICES ASSUME WorkspacesInv, WorkspacesInv', FocusInv,
                    [DesktopNext]_desktopVars
             PROVE  FocusInv'
  OBVIOUS
<1>0. Typed(desk)
  BY TypedHere
<1>1. CASE UNCHANGED desktopVars
  BY <1>1 DEF desktopVars, windowVars, lockVars, FocusInv, Focus, Typed, SeatAgrees,
              Served
<1>2. CASE DesktopNext
  <2>1. Focus(desk)'
    BY <1>0, <1>2, ClientFocus, XClientFocus, OutputFocus, UserFocus, LockFocus,
       LayerFocus, PointerFocus DEF DesktopNext, WindowsStep
  <2>2. Connected \subseteq Outputs /\ Connected' \subseteq Outputs
    BY LenProperties, ElementOfSeq DEF WorkspacesInv, WorkspacesTypeOK, Connected, ToSet
  <2>. QED
    BY <1>2, <2>1, <2>2, SidesStep DEF FocusInv
<1>. QED
  BY <1>1, <1>2

LEMMA FocusInit == DesktopInit => FocusInv
<1> SUFFICES ASSUME DesktopInit
             PROVE  FocusInv
  OBVIOUS
<1>1. desk.seat = NoSurface /\ ~OnWindow(NoSurface) /\ NoSurface \in Surfaces
  BY OtherSurface DEF DesktopInit, WindowsInit
<1>2. /\ desk.focused = NoToplevel /\ desk.xfocused = NoToplevel
      /\ desk.ghosts = {} /\ ~activeLock /\ cursor = NoOutput /\ ~locked
  BY DEF DesktopInit, WindowsInit
<1>3. Typed(desk)
  BY <1>1, WorkspacesAssumption, EmptySeq
     DEF DesktopInit, WindowsInit, Typed, Fields, Index
<1>4. \A o : desk.seat # Lock(o) /\ desk.seat # Layer(o)
  BY <1>1, LockSurface
<1>5. SeatAgrees(desk)
  BY <1>1 DEF SeatAgrees, OnWindow
<1>6. Served(desk)
  <2>1. desk.serials = << >>
    BY DEF DesktopInit, WindowsInit
  <2>2. IsInjective(desk.serials)
    BY <2>1, EmptySeq DEF IsInjective
  <2>. QED
    BY <1>1, <1>2, <2>2 DEF Served, OnWindow
<1>. QED
  BY <1>1, <1>2, <1>3, <1>4, <1>5, <1>6 DEF FocusInv, Focus

(* The inductive invariant of the focus, in every session *)
THEOREM FocusKept == DesktopSpec => []FocusInv
BY FocusInit, FocusStep, DesktopWorkspacesInv, PTL DEF DesktopSpec

(* No key reaches a window while the session is locked, nor a lock surface *)
(* once it is open, whichever of the paths that move the seat was taken.   *)
THEOREM LockKeepsKeys == DesktopSpec => []LockedSeat
<1>1. FocusInv => LockedSeat
  BY DEF FocusInv, Focus, OnWindow, LockedSeat
<1>. QED
  BY <1>1, FocusKept, PTL

(* server->focused and server->focused_xwayland never dangle.              *)
THEOREM FocusNeverDangles == DesktopSpec => []FocusedMapped
<1>1. FocusInv => FocusedMapped
  BY DEF FocusInv, Focus, FocusedMapped
<1>. QED
  BY <1>1, FocusKept, PTL

(* As long as the seat keeps its keyboard, it is on no other window than   *)
(* the one commands act on.                                                *)
THEOREM SeatAndFocusAgree ==
    ASSUME ~KeyboardMayLeave
    PROVE  DesktopSpec => []SeatMatchesFocus
<1>1. FocusInv => SeatMatchesFocus
  BY DEF FocusInv, Focus, SeatAgrees, SeatMatchesFocus
<1>. QED
  BY <1>1, FocusKept, PTL

(* The seat is never left on a layer surface that was unmapped.            *)
THEOREM LayersLetGo == DesktopSpec => []SeatOnMappedLayer
<1>1. FocusInv => SeatOnMappedLayer
  BY DEF FocusInv, Focus, SeatOnMappedLayer
<1>. QED
  BY <1>1, FocusKept, PTL
-----------------------------------------------------------------------------
(* The lists that five functions link and unlink by hand hold the living   *)
(* windows, each once, and those of a workspace the windows on it.         *)
Lists(d) ==
    /\ IsInjective(d.order) /\ IsInjective(d.xorder) /\ IsInjective(d.serials)
    /\ ToSet(d.order) = {t \in Toplevels : d.life[t] # "none"}
    /\ ToSet(d.xorder) = {x \in XWindows : d.life[x] # "none"}
    /\ \A w \in d.grabbed : d.life[w] # "none"
    /\ \A w \in Index :
          /\ IsInjective(d.toplevels[w])
          /\ ToSet(d.toplevels[w]) = {t \in ToSet(d.order) : d.workspace[t] = w}

(* The window the seat is on was focused last, if it ever was.             *)
NewestSeated(d) ==
    \A w \in AllWindows :
        d.seat \in {Main(w), XMain(w)} /\ w \in ToSet(d.serials) => d.serials[1] = w

Lit(d) == d.focused # NoToplevel => d.focused \in d.lit

NullTiled(d) == d.crashed = "null" => \E w \in Index : d.layout[w] = "tile"

(* What every operation on the desk preserves, besides Focus.              *)
Session(d) ==
    /\ d \in DeskType
    /\ Lists(d)
    /\ Lit(d)
    /\ ~KeyboardMayLeave => NewestSeated(d)
    /\ NullTiled(d)

(* How an operation may move the seat: off every surface, or, in an open   *)
(* session, to a window.                                                   *)
SeatMoves(d, e) ==
    e.seat = d.seat \/ e.seat = NoSurface \/ (~locked /\ OnWindow(e.seat))

Goes(d, e) == Session(e) /\ SeatMoves(d, e)

LEMMA GoesOn ==
    ASSUME NEW c, NEW d, NEW e, Goes(c, d), Goes(d, e)
    PROVE  Goes(c, e)
BY DEF Goes, SeatMoves

LEMMA GoesNowhere == ASSUME NEW d, Session(d) PROVE Goes(d, d)
BY DEF Goes, SeatMoves

(* An operation that leaves the lists, the windows' lives and the seat     *)
(* alone                                                                   *)
Quiet(d, e) ==
    /\ e \in DeskType
    /\ e.life = d.life /\ e.workspace = d.workspace /\ e.toplevels = d.toplevels
    /\ e.order = d.order /\ e.xorder = d.xorder /\ e.serials = d.serials
    /\ e.grabbed = d.grabbed /\ e.seat = d.seat

LEMMA QuietGoes ==
    ASSUME NEW d, Session(d), NEW e, Quiet(d, e), Lit(e), NullTiled(e)
    PROVE  Goes(d, e)
<1>1. Lists(e)
  BY DEF Session, Lists, Quiet
<1>2. NewestSeated(d) => NewestSeated(e)
  BY DEF NewestSeated, Quiet
<1>. QED
  BY <1>1, <1>2 DEF Session, Quiet, Goes, SeatMoves

(* Taking the seat off, with less focused than before                      *)
LEMMA UnseatGoes ==
    ASSUME NEW d, Session(d), NEW e, e \in DeskType,
           e.life = d.life, e.workspace = d.workspace, e.toplevels = d.toplevels,
           e.order = d.order, e.xorder = d.xorder, e.serials = d.serials,
           e.grabbed = d.grabbed, e.layout = d.layout, e.lit = d.lit,
           e.crashed = d.crashed,
           e.focused \in {d.focused, NoToplevel}, e.seat = NoSurface
    PROVE  Goes(d, e)
<1>1. Lists(e)
  BY DEF Session, Lists
<1>2. \A w : NoSurface \notin {Main(w), XMain(w)}
  BY DEF NoSurface, Main, XMain
<1>3. NewestSeated(e)
  BY <1>2 DEF NewestSeated
<1>. QED
  BY <1>1, <1>3 DEF Session, Goes, SeatMoves, Lit, NullTiled

LEMMA ClearGoes ==
    ASSUME NEW d, Session(d)
    PROVE  Goes(d, ClearFocus(d)) /\ Goes(d, ClearXFocus(d))
<1> DEFINE e == ClearFocus(d)
           f == ClearXFocus(d)
<1>1. d \in DeskType /\ NoSurface \in Surfaces
  BY OtherSurface DEF Session
<1>2. /\ e \in DeskType
      /\ e.life = d.life /\ e.workspace = d.workspace /\ e.toplevels = d.toplevels
      /\ e.order = d.order /\ e.xorder = d.xorder /\ e.serials = d.serials
      /\ e.grabbed = d.grabbed /\ e.layout = d.layout /\ e.lit = d.lit
      /\ e.crashed = d.crashed /\ e.focused = NoToplevel /\ e.seat = NoSurface
  BY <1>1 DEF ClearFocus, DeskType
<1>3. /\ f \in DeskType
      /\ f.life = d.life /\ f.workspace = d.workspace /\ f.toplevels = d.toplevels
      /\ f.order = d.order /\ f.xorder = d.xorder /\ f.serials = d.serials
      /\ f.grabbed = d.grabbed /\ f.layout = d.layout /\ f.lit = d.lit
      /\ f.crashed = d.crashed /\ f.focused = d.focused /\ f.seat = NoSurface
  BY <1>1 DEF ClearXFocus, DeskType
<1> HIDE DEF e, f
<1>4. Goes(d, e)
  BY <1>2, UnseatGoes
<1>5. Goes(d, f)
  BY <1>3, UnseatGoes
<1>. QED
  BY <1>4, <1>5 DEF e, f

LEMMA LeaveGoes ==
    ASSUME NEW d, Session(d), NEW w
    PROVE  Goes(d, LeaveWorkspace(d, w)) /\ Goes(d, LeaveWorkspaceX(d, w))
BY ClearGoes, GoesNowhere DEF LeaveWorkspace, LeaveWorkspaceX

LEMMA ConcatFacts ==
    ASSUME NEW S, NEW T, NEW s \in Seq(S), NEW t \in Seq(T)
    PROVE  ToSet(s \o t) = ToSet(s) \cup ToSet(t)
<1> DEFINE c == s \o t
<1>1. s \in Seq(S \cup T) /\ t \in Seq(S \cup T)
  BY SeqMonotonic
<1>2. /\ c \in Seq(S \cup T) /\ Len(c) = Len(s) + Len(t)
      /\ Len(s) \in Nat /\ Len(t) \in Nat
      /\ \A i \in 1 .. Len(s) : c[i] = s[i]
      /\ \A i \in 1 .. Len(t) : c[Len(s) + i] = t[i]
  BY <1>1, ConcatProperties, LenProperties
<1> HIDE DEF c
<1>3. ToSet(c) = {c[i] : i \in 1 .. Len(c)} /\ ToSet(s) = {s[i] : i \in 1 .. Len(s)}
      /\ ToSet(t) = {t[i] : i \in 1 .. Len(t)}
  BY <1>1, <1>2, LenProperties DEF ToSet
<1>4. ASSUME NEW e \in ToSet(c)
      PROVE  e \in ToSet(s) \cup ToSet(t)
  <2>1. PICK i \in 1 .. Len(c) : e = c[i]
    BY <1>3
  <2>2. CASE i <= Len(s)
    BY <1>2, <1>3, <2>1, <2>2
  <2>3. CASE i > Len(s)
    <3>1. i - Len(s) \in 1 .. Len(t) /\ Len(s) + (i - Len(s)) = i
      BY <1>2, <2>1, <2>3
    <3>2. e = t[i - Len(s)]
      BY <1>2, <2>1, <3>1
    <3>. QED
      BY <1>3, <3>1, <3>2
  <2>. QED
    BY <1>2, <2>1, <2>2, <2>3
<1>5. ToSet(s) \subseteq ToSet(c)
  BY <1>2, <1>3
<1>6. ASSUME NEW j \in 1 .. Len(t)
      PROVE  t[j] \in ToSet(c)
  <2>1. Len(s) + j \in 1 .. Len(c)
    BY <1>2
  <2>. QED
    BY <1>2, <1>3, <2>1
<1>7. ToSet(t) \subseteq ToSet(c)
  BY <1>3, <1>6
<1>8. ToSet(c) = ToSet(s) \cup ToSet(t)
  BY <1>4, <1>5, <1>7
<1>. QED
  BY <1>8 DEF c

LEMMA SeatedOnWindow ==
    ASSUME NEW s \in Surfaces, NEW w, s \in {Main(w), XMain(w)}
    PROVE  OnWindow(s)
<1>1. CASE s = Main(w)
  <2>1. w \in Toplevels
    BY <1>1 DEF Surfaces, NoSurface, Main
  <2>. QED
    BY <1>1, <2>1 DEF OnWindow, SurfacesOf
<1>2. CASE s = XMain(w)
  <2>1. w \in XWindows
    BY <1>2 DEF Surfaces, NoSurface, XMain
  <2>. QED
    BY <1>2, <2>1 DEF OnWindow
<1>. QED
  BY <1>1, <1>2

(* The seat moves to a window that is promoted, or stays off the windows.  *)
LEMMA SeatNewest ==
    ASSUME NEW d, Session(d), Focus(d), NEW e, NEW t \in AllWindows,
           e.serials[1] = t,
           \/ ~keyboard /\ e.seat = d.seat
           \/ \A w \in AllWindows : e.seat \in {Main(w), XMain(w)} => w = t
    PROVE  ~KeyboardMayLeave => NewestSeated(e)
<1>1. CASE ~keyboard /\ e.seat = d.seat
  <2>1. d.seat \in Surfaces /\ (~KeyboardMayLeave => ~OnWindow(d.seat))
    BY <1>1 DEF Focus, SeatAgrees, Typed
  <2>. QED
    BY <1>1, <2>1, SeatedOnWindow DEF NewestSeated
<1>2. CASE \A w \in AllWindows : e.seat \in {Main(w), XMain(w)} => w = t
  BY <1>2 DEF NewestSeated
<1>. QED
  BY <1>1, <1>2

LEMMA FocusToplevelGoes ==
    ASSUME NEW d, Focus(d), Session(d), NEW t \in Toplevels, NEW s \in SurfacesOf(t),
           d.life[t] = "mapped"
    PROVE  Goes(d, FocusToplevel(d, t, s))
<1> DEFINE e == FocusToplevel(d, t, s)
<1>1. CASE locked \/ d.seat = s
  BY <1>1, GoesNowhere DEF FocusToplevel
<1>2. CASE ~(locked \/ d.seat = s)
  <2>0. d \in DeskType /\ Lists(d) /\ t \in AllWindows
    BY DEF Session, AllWindows
  <2> DEFINE o == Promoted(d.order, t)
             n == Promoted(d.serials, t)
  <2>1. /\ o \in Seq(Toplevels) /\ IsInjective(o) /\ ToSet(o) = ToSet(d.order) \cup {t}
        /\ n \in Seq(AllWindows) /\ IsInjective(n) /\ n[1] = t
    <3>1. /\ d.order \in Seq(Toplevels) /\ IsInjective(d.order)
          /\ d.serials \in Seq(AllWindows) /\ IsInjective(d.serials)
      BY <2>0 DEF DeskType, Lists
    <3>2. o \in Seq(Toplevels) /\ IsInjective(o) /\ ToSet(o) = ToSet(d.order) \cup {t}
      BY <3>1, PromotedFacts
    <3>3. n \in Seq(AllWindows) /\ IsInjective(n) /\ n[1] = t
      BY <2>0, <3>1, PromotedFacts
    <3>. QED
      BY <3>2, <3>3
  <2>2. ToSet(o) = ToSet(d.order)
    BY <2>0, <2>1 DEF Lists
  <2>3. s \in Surfaces
    BY WindowSurface
  <2> HIDE DEF o, n
  <2>4. e \in DeskType
    BY ZenonT(60), <1>2, <2>0, <2>1, <2>3 DEF FocusToplevel, DeskType, o, n
  <2>5. /\ e.life = d.life /\ e.workspace = d.workspace /\ e.toplevels = d.toplevels
        /\ e.order = o /\ e.xorder = d.xorder /\ e.serials = n
        /\ e.grabbed = d.grabbed /\ e.layout = d.layout /\ e.crashed = d.crashed
        /\ t \in e.lit /\ e.focused = t
        /\ e.seat = IF keyboard THEN s ELSE d.seat
    BY <1>2, <2>0 DEF FocusToplevel, DeskType, o, n
  <2> HIDE DEF e
  <2>6. Lists(e)
    BY <2>0, <2>1, <2>2, <2>5 DEF Lists
  <2>7. ~KeyboardMayLeave => NewestSeated(e)
    <3>1. \A w : s \in {Main(w), XMain(w)} => w = t
      BY WindowSurface DEF SurfacesOf
    <3>. QED
      BY <2>0, <2>1, <2>5, <3>1, SeatNewest
  <2>8. SeatMoves(d, e)
    BY <1>2, <2>5, WindowSurface DEF SeatMoves
  <2>9. Goes(d, e)
    BY <2>4, <2>5, <2>6, <2>7, <2>8 DEF Goes, Session, Lit, NullTiled
  <2>. QED
    BY <2>9 DEF e
<1>. QED
  BY <1>1, <1>2

LEMMA CrashGoes ==
    ASSUME NEW d, Session(d), NEW c \in {"bare", "freed"}
    PROVE  Goes(d, [d EXCEPT !.crashed = c])
<1> DEFINE e == [d EXCEPT !.crashed = c]
<1>1. /\ Quiet(d, e)
      /\ e.focused = d.focused /\ e.lit = d.lit /\ e.crashed = c
  BY DEF Session, DeskType, Quiet
<1> HIDE DEF e
<1>2. Lit(e) /\ NullTiled(e)
  BY <1>1 DEF Session, Lit, NullTiled
<1>3. Goes(d, e)
  BY <1>1, <1>2, QuietGoes
<1>. QED
  BY <1>3 DEF e

LEMMA FocusXGoes ==
    ASSUME NEW d, Focus(d), Session(d), NEW x \in XWindows
    PROVE  Goes(d, FocusX(d, x))
<1> DEFINE e == FocusX(d, x)
<1>1. CASE e \in {d, [d EXCEPT !.crashed = "bare"]}
  BY <1>1, GoesNowhere, CrashGoes
<1>2. CASE e \notin {d, [d EXCEPT !.crashed = "bare"]}
  <2>0. d \in DeskType /\ Lists(d) /\ x \in AllWindows
    BY DEF Session, AllWindows
  <2>1. ~locked
    BY <1>2 DEF FocusX
  <2> DEFINE n == Promoted(d.serials, x)
  <2>2. n \in Seq(AllWindows) /\ IsInjective(n) /\ n[1] = x
    BY <2>0, PromotedFacts DEF DeskType, Lists
  <2>3. XMain(x) \in Surfaces
    BY XSurface
  <2> HIDE DEF n
  <2>4. e \in DeskType
    BY <1>2, <2>0, <2>2, <2>3 DEF FocusX, DeskType, n
  <2>5. /\ e.life = d.life /\ e.workspace = d.workspace /\ e.toplevels = d.toplevels
        /\ e.order = d.order /\ e.xorder = d.xorder /\ e.serials = n
        /\ e.grabbed = d.grabbed /\ e.layout = d.layout /\ e.crashed = d.crashed
        /\ e.focused = NoToplevel
        /\ e.seat = IF keyboard THEN XMain(x) ELSE d.seat
    BY <1>2, <2>0 DEF FocusX, DeskType, n
  <2> HIDE DEF e
  <2>6. Lists(e)
    BY <2>0, <2>2, <2>5 DEF Lists
  <2>7. ~KeyboardMayLeave => NewestSeated(e)
    <3>1. \A w : XMain(x) \in {Main(w), XMain(w)} => w = x
      BY XSurface DEF SurfacesOf
    <3>. QED
      BY <2>0, <2>2, <2>5, <3>1, SeatNewest
  <2>8. SeatMoves(d, e)
    BY <2>1, <2>5, XSurface DEF SeatMoves
  <2>9. Goes(d, e)
    BY <2>4, <2>5, <2>6, <2>7, <2>8 DEF Goes, Session, Lit, NullTiled
  <2>. QED
    BY <2>9 DEF e
<1>. QED
  BY <1>1, <1>2

LEMMA FocusFirstGoes ==
    ASSUME NEW d, Focus(d), Session(d), NEW w \in Index
    PROVE  Goes(d, FocusFirst(d, w))
<1>1. Typed(d)
  BY DEF Focus
<1>2. CASE FocusFirst(d, w) \in {d, [d EXCEPT !.crashed = "bare"]}
  BY <1>2, GoesNowhere, CrashGoes
<1>. QED
  BY <1>1, <1>2, FocusFirstFinds, FocusToplevelGoes, FocusXGoes DEF SurfacesOf

(* An arrangement of a workspace on an output, or of one laid out as tiles *)
(* on none                                                                 *)
LEMMA ArrangeGoes ==
    ASSUME NEW d, Session(d), NEW o, NEW w \in Index,
           o # NoOutput \/ d.layout[w] = "tile"
    PROVE  Goes(d, Arrange(d, o, w))
<1> DEFINE e == Arrange(d, o, w)
           lit == (d.lit \ Tiled(d, w)) \cup (Tiled(d, w) \cap {d.focused})
<1>1. CASE e = d
  BY <1>1, GoesNowhere
<1>2. CASE e = [d EXCEPT !.crashed = "null"] /\ d.layout[w] = "tile"
  <2>1. /\ Quiet(d, e)
        /\ e.focused = d.focused /\ e.lit = d.lit /\ e.layout = d.layout
    BY ZenonT(60), <1>2 DEF Session, DeskType, Quiet
  <2> HIDE DEF e
  <2>2. Lit(e) /\ NullTiled(e)
    BY <1>2, <2>1 DEF Session, Lit, NullTiled
  <2>. QED
    BY <2>1, <2>2, QuietGoes DEF e
<1>3. CASE e = [d EXCEPT !.lit = lit]
  <2>0. ToSet(d.toplevels[w]) \in SUBSET Toplevels
    BY DEF Session, Lists
  <2>1. lit \in SUBSET Toplevels /\ (d.focused \in d.lit => d.focused \in lit)
    BY <2>0 DEF Session, DeskType, Tiled
  <2> HIDE DEF lit
  <2>2. /\ Quiet(d, e)
        /\ e.focused = d.focused /\ e.lit = lit /\ e.layout = d.layout
        /\ e.crashed = d.crashed
    BY ZenonT(60), <1>3, <2>1 DEF Session, DeskType, Quiet
  <2> HIDE DEF e
  <2>3. Lit(e) /\ NullTiled(e)
    BY <2>1, <2>2 DEF Session, Lit, NullTiled
  <2>. QED
    BY <2>2, <2>3, QuietGoes DEF e
<1>. QED
  BY <1>1, <1>2, <1>3 DEF Arrange

LEMMA ArrangeIfGoes ==
    ASSUME WorkspacesInv, NEW d, Session(d), NEW w \in Index
    PROVE  /\ \A o : Goes(d, ArrangeIfTiled(d, o, w))
           /\ Goes(d, ArrangeIfShown(d, w))
BY ShownOutput, ArrangeGoes, GoesNowhere DEF ArrangeIfTiled, ArrangeIfShown

LEMMA DeskTyped == ASSUME NEW d \in DeskType PROVE Typed(d)
BY DEF DeskType, Typed, Fields

(* A window hidden or shown, floating or tiled, lit or animated: the rest  *)
(* is as it was, and the focused window stays lit.                         *)
Carried == {"life", "workspace", "toplevels", "order", "xorder", "layout", "grabbed",
            "ghosts", "serials", "focused", "xfocused", "seat", "crashed"}

Redrawn(d, e) ==
    /\ e \in DeskType
    /\ \A f \in Carried : e[f] = d[f]
    /\ d.focused \in d.lit => d.focused \in e.lit

LEMMA RedrawnGoes ==
    ASSUME NEW d, Session(d), NEW e, Redrawn(d, e)
    PROVE  Goes(d, e) /\ Keeps(d, e)
<1>1. /\ e.life = d.life /\ e.workspace = d.workspace /\ e.toplevels = d.toplevels
      /\ e.order = d.order /\ e.xorder = d.xorder /\ e.serials = d.serials
      /\ e.grabbed = d.grabbed /\ e.seat = d.seat /\ e.layout = d.layout
      /\ e.ghosts = d.ghosts /\ e.focused = d.focused /\ e.xfocused = d.xfocused
      /\ e.crashed = d.crashed
  BY DEF Redrawn, Carried
<1>2. Quiet(d, e) /\ NullTiled(e) /\ Lit(e)
  BY <1>1 DEF Session, Quiet, NullTiled, Lit, Redrawn
<1>3. Goes(d, e)
  BY <1>2, QuietGoes
<1>4. Keeps(d, e)
  BY <1>1, DeskTyped DEF Keeps, Redrawn
<1>. QED
  BY <1>3, <1>4

(* A living window is grabbed; a grab ends.                                *)
LEMMA GrabGoes ==
    ASSUME NEW d, Session(d), NEW g \in SUBSET AllWindows,
           \A w \in g : d.life[w] # "none"
    PROVE  /\ Goes(d, [d EXCEPT !.grabbed = g])
           /\ Keeps(d, [d EXCEPT !.grabbed = g])
<1> DEFINE e == [d EXCEPT !.grabbed = g]
<1>1. /\ e \in DeskType
      /\ e.life = d.life /\ e.workspace = d.workspace /\ e.toplevels = d.toplevels
      /\ e.order = d.order /\ e.xorder = d.xorder /\ e.serials = d.serials
      /\ e.grabbed = g /\ e.seat = d.seat /\ e.layout = d.layout
      /\ e.ghosts = d.ghosts /\ e.focused = d.focused /\ e.xfocused = d.xfocused
      /\ e.crashed = d.crashed /\ e.lit = d.lit
  BY DEF Session, DeskType
<1> HIDE DEF e
<1>2. Lists(e)
  BY <1>1 DEF Session, Lists
<1>3. Lit(e) /\ NullTiled(e) /\ (NewestSeated(d) => NewestSeated(e))
  BY <1>1 DEF Session, Lit, NullTiled, NewestSeated
<1>4. Goes(d, e) /\ Keeps(d, e)
  BY <1>1, <1>2, <1>3, DeskTyped DEF Session, Goes, SeatMoves, Keeps
<1>. QED
  BY <1>4 DEF e

LEMMA MoveToplevelGoes ==
    ASSUME WorkspacesInv, NEW d, Focus(d), Session(d), NEW t \in Toplevels,
           d.life[t] = "mapped", NEW w \in Index
    PROVE  Goes(d, MoveToplevel(d, t, w))
<1> DEFINE old     == d.workspace[t]
           moved   == [d EXCEPT !.toplevels[old] = RemoveFirst(@, t),
                                !.toplevels[w] = <<t>> \o @,
                                !.workspace[t] = w]
           placed  == IF OnShow(w) THEN Arrange(moved, OutputFor(w), w)
                      ELSE [moved EXCEPT !.hidden = @ \cup {t}]
           settled == ArrangeIfShown(placed, old)
<1>0. d \in DeskType /\ Lists(d) /\ t \in AllWindows
  BY DEF Session, AllWindows
<1>1. old \in Index
  BY <1>0 DEF DeskType
<1>2. CASE w = old
  BY <1>2, GoesNowhere DEF MoveToplevel
<1>3. CASE w # old
  <2> DEFINE without == RemoveFirst(d.toplevels[old], t)
             with    == <<t>> \o d.toplevels[w]
  <2>1. /\ without \in Seq(Toplevels) /\ IsInjective(without)
        /\ ToSet(without) = ToSet(d.toplevels[old]) \ {t}
    <3>1. d.toplevels[old] \in Seq(Toplevels) /\ IsInjective(d.toplevels[old])
      BY <1>0, <1>1 DEF DeskType, Lists
    <3>. QED
      BY <3>1, UnlinkAny
  <2>2. /\ with \in Seq(Toplevels) /\ IsInjective(with)
        /\ ToSet(with) = {t} \cup ToSet(d.toplevels[w])
    <3>1. /\ d.toplevels[w] \in Seq(Toplevels) /\ IsInjective(d.toplevels[w])
          /\ t \notin ToSet(d.toplevels[w])
      BY <1>0, <1>3 DEF DeskType, Lists
    <3>. QED
      BY <3>1, InsertFacts
  <2> HIDE DEF without, with
  <2>3. /\ moved \in DeskType
        /\ \A f \in Carried \ {"toplevels", "workspace"} : moved[f] = d[f]
        /\ moved.lit = d.lit
        /\ moved.workspace = [d.workspace EXCEPT ![t] = w]
        /\ moved.toplevels = [d.toplevels EXCEPT ![old] = without, ![w] = with]
    BY <1>0, <1>1, <1>3, <2>1, <2>2 DEF DeskType, Carried, without, with
  <2> HIDE DEF moved
  <2>4. /\ moved.life = d.life
        /\ moved.order = d.order /\ moved.xorder = d.xorder
        /\ moved.serials = d.serials /\ moved.ghosts = d.ghosts
        /\ moved.grabbed = d.grabbed /\ moved.seat = d.seat
        /\ moved.layout = d.layout /\ moved.focused = d.focused
        /\ moved.xfocused = d.xfocused /\ moved.crashed = d.crashed
    BY <2>3 DEF Carried
  <2>5. Lists(moved)
    <3>1. ASSUME NEW v \in Index
          PROVE  /\ IsInjective(moved.toplevels[v])
                 /\ ToSet(moved.toplevels[v]) =
                       {u \in ToSet(moved.order) : moved.workspace[u] = v}
      <4>1. /\ ToSet(d.toplevels[v]) = {u \in ToSet(d.order) : d.workspace[u] = v}
            /\ IsInjective(d.toplevels[v])
            /\ t \in ToSet(d.order)
        BY <1>0 DEF Lists
      <4>2. \A u \in ToSet(d.order) :
               moved.workspace[u] = IF u = t THEN w ELSE d.workspace[u]
        BY <1>0, <2>3 DEF Lists, AllWindows, DeskType
      <4>3. moved.toplevels[v] = IF v = w THEN with ELSE IF v = old THEN without
                                 ELSE d.toplevels[v]
        BY <1>0, <2>3 DEF DeskType
      <4>. QED
        BY <1>3, <2>1, <2>2, <2>4, <4>1, <4>2, <4>3
    <3>. QED
      BY <1>0, <2>4, <3>1 DEF Lists
  <2>6. Goes(d, moved)
    BY <2>3, <2>4, <2>5 DEF Session, Goes, SeatMoves, Lit, NullTiled, NewestSeated
  <2>7. Keeps(d, moved)
    BY <2>3, <2>4, DeskTyped DEF Keeps
  <2>8. Goes(d, placed) /\ Keeps(d, placed)
    <3>1. Session(moved) /\ Typed(moved)
      BY <2>6, <2>7 DEF Goes, Keeps
    <3>2. Redrawn(moved, [moved EXCEPT !.hidden = @ \cup {t}])
      <4>1. moved \in DeskType /\ t \in AllWindows
        BY <1>0, <2>3
      <4>. QED
        BY ZenonT(60), <4>1 DEF Redrawn, Carried, DeskType
    <3>3. Goes(moved, placed) /\ Keeps(moved, placed)
      <4>1. CASE OnShow(w)
        <5>1. placed = Arrange(moved, OutputFor(w), w) /\ OutputFor(w) # NoOutput
          BY <4>1, ShownOutput
        <5>2. Goes(moved, Arrange(moved, OutputFor(w), w))
          BY <3>1, <5>1, ArrangeGoes
        <5>3. Keeps(moved, Arrange(moved, OutputFor(w), w))
          BY <3>1, ArrangeKeeps
        <5>. QED
          BY <5>1, <5>2, <5>3
      <4>2. CASE ~OnShow(w)
        BY <3>1, <3>2, <4>2, RedrawnGoes
      <4>. QED
        BY <4>1, <4>2
    <3>. QED
      BY <2>6, <2>7, <3>3, GoesOn, KeepsTransitive
  <2> HIDE DEF placed
  <2>9. Goes(d, settled) /\ Keeps(d, settled)
    <3>1. Session(placed) /\ Typed(placed)
      BY <2>8 DEF Goes, Keeps
    <3>2. Goes(placed, settled) /\ Keeps(placed, settled)
      BY <1>1, <3>1, ArrangeIfGoes, ArrangeKeeps
    <3>. QED
      BY <2>8, <3>2, GoesOn, KeepsTransitive
  <2> HIDE DEF settled
  <2>10. Goes(d, ClearFocus(settled)) /\ Focus(ClearFocus(settled))
    <3>1. Session(settled) /\ Focus(settled)
      BY <2>9, KeepsFocus DEF Goes
    <3>. QED
      BY <2>9, <3>1, ClearGoes, ClearFocusFocus, GoesOn
  <2>11. Goes(d, FocusFirst(ClearFocus(settled), old))
    BY <1>1, <2>10, FocusFirstGoes, GoesOn DEF Goes
  <2>12. MoveToplevel(d, t, w) \in {settled, ClearFocus(settled),
                                    FocusFirst(ClearFocus(settled), old)}
    BY <1>3 DEF MoveToplevel, settled, placed, moved
  <2>. QED
    BY <2>9, <2>10, <2>11, <2>12
<1>. QED
  BY <1>2, <1>3

LEMMA MoveXWindowGoes ==
    ASSUME NEW d, Session(d), NEW x \in XWindows, NEW w \in Index
    PROVE  Goes(d, MoveXWindow(d, x, w))
<1> DEFINE placed == [d EXCEPT !.workspace[x] = w,
                               !.hidden = IF OnShow(w) THEN @ ELSE @ \cup {x}]
<1>0. d \in DeskType /\ Lists(d) /\ x \in AllWindows
  BY DEF Session, AllWindows
<1>1. /\ placed \in DeskType
      /\ \A f \in Carried \ {"workspace"} : placed[f] = d[f]
      /\ placed.lit = d.lit
      /\ placed.workspace = [d.workspace EXCEPT ![x] = w]
  BY <1>0 DEF DeskType, Carried
<1> HIDE DEF placed
<1>2. /\ placed.life = d.life /\ placed.toplevels = d.toplevels
      /\ placed.order = d.order /\ placed.xorder = d.xorder
      /\ placed.serials = d.serials
      /\ placed.grabbed = d.grabbed /\ placed.seat = d.seat
      /\ placed.layout = d.layout /\ placed.focused = d.focused
      /\ placed.crashed = d.crashed
  BY <1>1 DEF Carried
<1>3. \A t \in ToSet(d.order) : placed.workspace[t] = d.workspace[t]
  BY <1>0, <1>1, WindowsAssumption DEF Lists, DeskType, AllWindows
<1>4. Lists(placed)
  BY <1>0, <1>2, <1>3 DEF Lists
<1>5. Goes(d, placed)
  BY <1>1, <1>2, <1>4 DEF Session, Goes, SeatMoves, Lit, NullTiled, NewestSeated
<1>6. Goes(d, ClearXFocus(placed))
  BY <1>5, ClearGoes, GoesOn DEF Goes
<1>7. MoveXWindow(d, x, w) \in {d, placed, ClearXFocus(placed)}
  BY DEF MoveXWindow, placed
<1>. QED
  BY <1>5, <1>6, <1>7, GoesNowhere

LEMMA RulesApplyGoes ==
    ASSUME WorkspacesInv, NEW d, Focus(d), Session(d), NEW t \in Toplevels,
           d.life[t] = "mapped", NEW r \in Rules
    PROVE  Goes(d, RulesApply(d, t, r))
<1> DEFINE moved == IF r.workspace = -1 THEN d ELSE MoveToplevel(d, t, r.workspace)
           e     == [moved EXCEPT !.floating = @ \cup {t}]
<1>1. r.workspace = -1 \/ r.workspace \in Index
  BY WindowsAssumption
<1>2. Goes(d, moved)
  BY <1>1, GoesNowhere, MoveToplevelGoes
<1>3. RulesApply(d, t, r) \in {moved, e}
  BY DEF RulesApply
<1> HIDE DEF moved
<1>4. Redrawn(moved, e)
  <2>1. moved \in DeskType
    BY <1>2 DEF Goes, Session
  <2>2. /\ e \in DeskType /\ e.lit = moved.lit
        /\ \A f \in Carried : e[f] = moved[f]
    BY <2>1 DEF DeskType, Carried
  <2> HIDE DEF e
  <2>. QED
    BY <2>2 DEF Redrawn
<1> HIDE DEF e
<1>. QED
  BY <1>2, <1>3, <1>4, RedrawnGoes, GoesOn DEF Goes

LEMMA BeginInteractiveGoes ==
    ASSUME WorkspacesInv, NEW d, Session(d), NEW t \in Toplevels, d.life[t] # "none"
    PROVE  Goes(d, BeginInteractive(d, t))
<1> DEFINE w == d.workspace[t]
           floated == [d EXCEPT !.floating = @ \cup {t}]
           promoted == Arrange(floated, OutputFor(w), w)
           chosen == IF d.layout[w] = "tile" /\ t \notin d.floating THEN promoted
                     ELSE d
           g == chosen.grabbed \cup {t}
<1>0. d \in DeskType /\ t \in AllWindows /\ w \in Index
  BY DEF Session, DeskType, AllWindows
<1>1. Redrawn(d, floated) /\ floated.layout = d.layout
  BY <1>0 DEF Redrawn, Carried, DeskType
<1> HIDE DEF floated
<1>2. Goes(d, floated) /\ Keeps(d, floated)
  BY <1>1, RedrawnGoes
<1>3. Goes(d, chosen) /\ Keeps(d, chosen)
  <2>1. CASE d.layout[w] = "tile" /\ t \notin d.floating
    <3>1. Goes(floated, promoted) /\ Keeps(floated, promoted)
      BY <1>0, <1>1, <1>2, <2>1, ArrangeGoes, ArrangeKeeps DEF Goes, Keeps
    <3>. QED
      BY <1>2, <2>1, <3>1, GoesOn, KeepsTransitive
  <2>2. CASE ~(d.layout[w] = "tile" /\ t \notin d.floating)
    BY <1>0, <2>2, GoesNowhere, DeskTyped DEF Keeps
  <2>. QED
    BY <2>1, <2>2
<1>4. BeginInteractive(d, t) = [chosen EXCEPT !.grabbed = g]
  BY DEF BeginInteractive, floated
<1> HIDE DEF chosen
<1>5. g \in SUBSET AllWindows /\ \A v \in g : chosen.life[v] # "none"
  BY <1>0, <1>3 DEF Goes, Session, Lists, Keeps, DeskType
<1> HIDE DEF g
<1>6. Goes(chosen, [chosen EXCEPT !.grabbed = g])
  BY <1>3, <1>5, GrabGoes DEF Goes
<1>. QED
  BY <1>3, <1>4, <1>6, GoesOn

-----------------------------------------------------------------------------
(* A living window changes its life.                                       *)
LEMMA AliveGoes ==
    ASSUME NEW d, Session(d), NEW e, e \in DeskType,
           NEW w \in AllWindows, d.life[w] # "none", e.life[w] # "none",
           \A v \in AllWindows \ {w} : e.life[v] = d.life[v],
           e.workspace = d.workspace, e.toplevels = d.toplevels,
           e.order = d.order, e.xorder = d.xorder, e.serials = d.serials,
           e.grabbed = d.grabbed, e.seat = d.seat, e.layout = d.layout,
           e.crashed = d.crashed, Lit(e)
    PROVE  Goes(d, e)
<1>1. \A v \in AllWindows : e.life[v] = "none" <=> d.life[v] = "none"
  OBVIOUS
<1>2. Lists(e)
  BY <1>1 DEF Session, Lists, AllWindows, DeskType
<1>. QED
  BY <1>2 DEF Session, Goes, SeatMoves, NullTiled, NewestSeated

(* The serial of a destroyed window is dropped; who was focused last stays *)
(* so.                                                                     *)
LEMMA NewestKept ==
    ASSUME NEW d, NEW e, NEW t, d.serials \in Seq(AllWindows), IsInjective(d.serials),
           e.serials = RemoveFirst(d.serials, t), e.seat = d.seat, NewestSeated(d)
    PROVE  NewestSeated(e)
<1> SUFFICES ASSUME NEW w \in AllWindows, e.seat \in {Main(w), XMain(w)},
                    w \in ToSet(e.serials)
             PROVE  e.serials[1] = w
  BY DEF NewestSeated
<1>1. ToSet(e.serials) = ToSet(d.serials) \ {t}
  BY UnlinkAny
<1>2. w \in ToSet(d.serials) /\ w # t
  BY <1>1
<1>3. d.serials[1] = w
  BY <1>2 DEF NewestSeated
<1>4. Len(d.serials) > 0
  BY <1>2, LenProperties DEF ToSet
<1>. QED
  BY <1>2, <1>3, <1>4, UnlinkKeepsFirst

LEMMA DestroyedGoes ==
    ASSUME NEW d, Session(d), NEW t \in Toplevels, NEW w, w = d.workspace[t],
           d.focused # t, 0 \in Index, NEW e, e \in DeskType,
           e.life = [d.life EXCEPT ![t] = "none"],
           e.workspace = [d.workspace EXCEPT ![t] = 0],
           e.toplevels = [d.toplevels EXCEPT ![w] = RemoveFirst(@, t)],
           e.order = RemoveFirst(d.order, t),
           e.serials = RemoveFirst(d.serials, t),
           e.xorder = d.xorder, e.grabbed = d.grabbed \ {t},
           e.seat = d.seat, e.layout = d.layout, e.crashed = d.crashed,
           e.focused = d.focused, e.lit = d.lit
    PROVE  Goes(d, e)
<1>0. /\ Lists(d) /\ t \in AllWindows /\ w \in Index
      /\ d.life \in [AllWindows -> {"none", "bare", "unmapped", "mapped"}]
      /\ d.workspace \in [AllWindows -> Index]
      /\ d.toplevels \in [Index -> Seq(Toplevels)]
      /\ d.order \in Seq(Toplevels)
      /\ d.serials \in Seq(AllWindows)
      /\ d.grabbed \in SUBSET AllWindows
  BY DEF Session, Lists, AllWindows, DeskType
<1> DEFINE list == RemoveFirst(d.toplevels[w], t)
<1>1. IsInjective(e.order) /\ ToSet(e.order) = ToSet(d.order) \ {t}
  BY <1>0, UnlinkAny DEF Lists
<1>2. /\ list \in Seq(Toplevels) /\ IsInjective(list)
      /\ ToSet(list) = ToSet(d.toplevels[w]) \ {t}
  <2>1. d.toplevels[w] \in Seq(Toplevels) /\ IsInjective(d.toplevels[w])
    BY <1>0 DEF Lists
  <2>. QED
    BY <2>1, UnlinkAny
<1>3. IsInjective(e.serials)
  BY <1>0, UnlinkAny DEF Lists
<1>5. /\ \A u \in AllWindows : e.life[u] = IF u = t THEN "none" ELSE d.life[u]
      /\ \A u \in AllWindows : e.workspace[u] = IF u = t THEN 0 ELSE d.workspace[u]
      /\ \A v \in Index : e.toplevels[v] = IF v = w THEN list ELSE d.toplevels[v]
  BY <1>0
<1> HIDE DEF list
<1>6. Lists(e)
  <2>1. ToSet(e.order) = {u \in Toplevels : e.life[u] # "none"}
    BY <1>0, <1>1, <1>5 DEF Lists, AllWindows
  <2>2. ToSet(e.xorder) = {x \in XWindows : e.life[x] # "none"}
    BY <1>0, <1>5, WindowsAssumption DEF Lists, AllWindows
  <2>3. \A u \in e.grabbed : e.life[u] # "none"
    BY <1>0, <1>5 DEF Lists
  <2>4. ASSUME NEW v \in Index
        PROVE  /\ IsInjective(e.toplevels[v])
               /\ ToSet(e.toplevels[v]) = {u \in ToSet(e.order) : e.workspace[u] = v}
    <3>1. \A u \in ToSet(d.order) : u \in AllWindows
      BY <1>0 DEF Lists, AllWindows
    <3>2. /\ IsInjective(d.toplevels[v])
          /\ ToSet(d.toplevels[v]) = {u \in ToSet(d.order) : d.workspace[u] = v}
      BY <1>0 DEF Lists
    <3>3. v # w => t \notin ToSet(d.toplevels[v])
      BY <3>2
    <3>4. ToSet(e.toplevels[v]) = ToSet(d.toplevels[v]) \ {t}
      BY <1>2, <1>5, <3>3
    <3>5. {u \in ToSet(e.order) : e.workspace[u] = v}
             = {u \in ToSet(d.order) : d.workspace[u] = v} \ {t}
      BY <1>1, <1>5, <3>1
    <3>6. IsInjective(e.toplevels[v])
      BY <1>2, <1>5, <3>2
    <3>. QED
      BY <3>2, <3>4, <3>5, <3>6
  <2>. QED
    BY <1>0, <1>1, <1>3, <2>1, <2>2, <2>3, <2>4 DEF Lists
<1>7. NewestSeated(d) => NewestSeated(e)
  BY <1>0, NewestKept DEF Lists
<1>. QED
  BY <1>6, <1>7 DEF Session, Goes, SeatMoves, Lit, NullTiled

LEMMA UnseatedGoes ==
    ASSUME NEW d, Session(d)
    PROVE  Goes(d, [d EXCEPT !.seat = NoSurface])
<1> DEFINE e == [d EXCEPT !.seat = NoSurface]
<1>1. NoSurface \in Surfaces
  BY OtherSurface
<1>2. /\ e \in DeskType
      /\ e.life = d.life /\ e.workspace = d.workspace /\ e.toplevels = d.toplevels
      /\ e.order = d.order /\ e.xorder = d.xorder /\ e.serials = d.serials
      /\ e.grabbed = d.grabbed /\ e.layout = d.layout /\ e.lit = d.lit
      /\ e.crashed = d.crashed /\ e.focused = d.focused /\ e.seat = NoSurface
  BY <1>1 DEF Session, DeskType
<1> HIDE DEF e
<1>3. Goes(d, e)
  BY <1>2, UnseatGoes
<1>. QED
  BY <1>3 DEF e

LEMMA ClientGoes ==
    ASSUME WorkspacesInv, FocusInv, Session(desk), ClientNext
    PROVE  Goes(desk, desk')
<1>0. Typed(desk) /\ Focus(desk) /\ desk \in DeskType /\ 0 \in Index
  BY TypedHere DEF Session
<1>1. PICK t \in Toplevels :
        \/ NewXdgToplevel(t)
        \/ \E r \in Rules : MapToplevel(t, r)
        \/ UnmapToplevel(t)
        \/ CommitToplevel(t)
        \/ DestroyToplevel(t)
        \/ \E s \in SurfacesOf(t) : SurfaceGone(t, s)
        \/ RequestMove(t)
  BY DEF ClientNext
<1>2. t \in AllWindows /\ t \notin desk.ghosts
  BY <1>0, WindowsAssumption DEF AllWindows, Typed
<1>c. /\ Lists(desk) /\ desk.grabbed \in SUBSET AllWindows
      /\ \A u \in ToSet(desk.order) : u \in AllWindows
  BY <1>0 DEF Session, Lists, DeskType, AllWindows
<1>3. CASE NewXdgToplevel(t)
  <2> DEFINE w == IF cursor = NoOutput THEN 0 ELSE active[cursor]
             list == <<t>> \o desk.toplevels[w]
             e == [desk EXCEPT
                     !.life[t] = "unmapped",
                     !.workspace[t] = w,
                     !.toplevels[w] = <<t>> \o @,
                     !.order = <<t>> \o @,
                     !.hidden = @ \cup {t}]
  <2>1. w \in Index
    BY TypedHere
  <2>2. desk' = e /\ desk.life[t] = "none"
    BY <1>3 DEF NewXdgToplevel
  <2> HIDE DEF w
  <2>3. <<t>> \o desk.order \in Seq(Toplevels) /\ <<t>> \o desk.toplevels[w] \in Seq(Toplevels)
    BY <1>0, <2>1, ConcatProperties DEF Typed
  <2>4. e \in DeskType
    BY <1>0, <1>2, <2>1, <2>3 DEF DeskType
  <2>5. /\ e.life = [desk.life EXCEPT ![t] = "unmapped"]
        /\ e.workspace = [desk.workspace EXCEPT ![t] = w]
        /\ e.toplevels = [desk.toplevels EXCEPT ![w] = list]
        /\ e.order = <<t>> \o desk.order
        /\ e.xorder = desk.xorder /\ e.serials = desk.serials
        /\ e.grabbed = desk.grabbed
        /\ e.seat = desk.seat /\ e.layout = desk.layout /\ e.crashed = desk.crashed
        /\ e.focused = desk.focused /\ e.lit = desk.lit
    BY <1>0 DEF DeskType
  <2> HIDE DEF e
  <2>6. desk.life[t] = "none" /\ w \in Index /\ list = <<t>> \o desk.toplevels[w]
    BY <2>1, <2>2
  <2>7. /\ \A u \in AllWindows : e.life[u] = IF u = t THEN "unmapped" ELSE desk.life[u]
        /\ \A u \in AllWindows :
              e.workspace[u] = IF u = t THEN w ELSE desk.workspace[u]
        /\ \A v \in Index : e.toplevels[v] = IF v = w THEN list ELSE desk.toplevels[v]
    BY <1>0, <2>5 DEF Typed
  <2> HIDE DEF list
  <2>8. /\ IsInjective(list) /\ ToSet(list) = {t} \cup ToSet(desk.toplevels[w])
        /\ IsInjective(e.order) /\ ToSet(e.order) = {t} \cup ToSet(desk.order)
    <3>1. /\ desk.toplevels[w] \in Seq(Toplevels) /\ IsInjective(desk.toplevels[w])
          /\ desk.order \in Seq(Toplevels) /\ IsInjective(desk.order)
          /\ t \notin ToSet(desk.toplevels[w]) /\ t \notin ToSet(desk.order)
      BY <1>0, <2>6 DEF Typed, Session, Lists
    <3>2. IsInjective(list) /\ ToSet(list) = {t} \cup ToSet(desk.toplevels[w])
      BY <2>6, <3>1, InsertFacts
    <3>3. IsInjective(e.order) /\ ToSet(e.order) = {t} \cup ToSet(desk.order)
      BY <2>5, <3>1, InsertFacts
    <3>. QED
      BY <3>2, <3>3
  <2>9. Lists(e)
    <3>1. ToSet(e.order) = {u \in Toplevels : e.life[u] # "none"}
      <4>1. \A u \in Toplevels : u \in AllWindows
        BY DEF AllWindows
      <4>2. ToSet(desk.order) = {u \in Toplevels : desk.life[u] # "none"}
        BY <1>c DEF Lists
      <4>. QED
        BY <2>6, <2>7, <2>8, <4>1, <4>2
    <3>2. ToSet(e.xorder) = {x \in XWindows : e.life[x] # "none"}
      <4>1. \A x \in XWindows : x \in AllWindows /\ x # t
        BY WindowsAssumption DEF AllWindows
      <4>2. ToSet(desk.xorder) = {x \in XWindows : desk.life[x] # "none"}
        BY <1>c DEF Lists
      <4>. QED
        BY <2>5, <2>7, <4>1, <4>2
    <3>3. \A u \in e.grabbed : e.life[u] # "none"
      BY <1>c, <2>5, <2>7 DEF Lists
    <3>4. ASSUME NEW v \in Index
          PROVE  /\ IsInjective(e.toplevels[v])
                 /\ ToSet(e.toplevels[v]) = {u \in ToSet(e.order) : e.workspace[u] = v}
      <4>1. \A u \in ToSet(desk.order) : u \in AllWindows /\ u # t
        BY <1>c, <2>6 DEF Lists
      <4>2. /\ IsInjective(desk.toplevels[v])
            /\ ToSet(desk.toplevels[v]) = {u \in ToSet(desk.order) : desk.workspace[u] = v}
        BY <1>c DEF Lists
      <4>3. CASE v = w
        <5>1. {u \in ToSet(e.order) : e.workspace[u] = v}
                 = {t} \cup {u \in ToSet(desk.order) : desk.workspace[u] = v}
          BY <1>2, <2>7, <2>8, <4>1, <4>3
        <5>. QED
          BY <2>7, <2>8, <4>2, <4>3, <5>1
      <4>4. CASE v # w
        <5>1. {u \in ToSet(e.order) : e.workspace[u] = v}
                 = {u \in ToSet(desk.order) : desk.workspace[u] = v}
          BY <1>2, <2>7, <2>8, <4>1, <4>4
        <5>. QED
          BY <2>7, <4>2, <4>4, <5>1
      <4>. QED
        BY <4>3, <4>4
    <3>. QED
      BY <1>c, <2>5, <2>8, <3>1, <3>2, <3>3, <3>4 DEF Lists
  <2>10. Goes(desk, e)
    BY <2>4, <2>5, <2>9 DEF Session, Goes, SeatMoves, Lit, NullTiled, NewestSeated
  <2>. QED
    BY <2>2, <2>10
<1>4. CASE \E r \in Rules : MapToplevel(t, r)
  <2>1. PICK r \in Rules : MapToplevel(t, r)
    BY <1>4
  <2> DEFINE w       == desk.workspace[t]
             raised  == [desk EXCEPT !.life[t] = "mapped", !.hidden = @ \ {t},
                                     !.lit = @ \ {t}]
             tiled   == IF t \in desk.floating THEN raised
                        ELSE ArrangeIfTiled(raised, OutputFor(w), w)
             opening == IF Animations THEN [tiled EXCEPT !.anim[t] = "opening"]
                        ELSE tiled
             ruled   == RulesApply(opening, t, r)
  <2>2. desk' = FocusToplevel(ruled, t, Main(t)) /\ desk.life[t] = "unmapped"
    BY <2>1 DEF MapToplevel
  <2>3. w \in Index /\ desk.focused # t
    BY <1>0, <1>2, <2>2, WindowsAssumption DEF Typed, Focus, AllWindows
  <2>4. raised \in DeskType
    BY <1>0, <1>2 DEF DeskType
  <2>5. /\ raised.life[t] = "mapped"
        /\ \A v \in AllWindows \ {t} : raised.life[v] = desk.life[v]
        /\ raised.workspace = desk.workspace /\ raised.toplevels = desk.toplevels
        /\ raised.order = desk.order /\ raised.xorder = desk.xorder
        /\ raised.serials = desk.serials /\ raised.grabbed = desk.grabbed
        /\ raised.seat = desk.seat /\ raised.layout = desk.layout
        /\ raised.crashed = desk.crashed /\ raised.ghosts = desk.ghosts
        /\ raised.focused = desk.focused /\ raised.xfocused = desk.xfocused
        /\ raised.lit = desk.lit \ {t}
    BY <1>0, <1>2 DEF DeskType
  <2> HIDE DEF raised, w
  <2>6. Goes(desk, raised)
    <3>1. Lit(raised)
      BY <2>3, <2>5 DEF Session, Lit
    <3>. QED
      BY <1>2, <2>2, <2>4, <2>5, <3>1, AliveGoes
  <2>7. Focus(raised) /\ Typed(raised)
    <3>1. IsInjective(raised.serials) /\ ToSet(desk.serials) \ {t} \subseteq ToSet(raised.serials)
      BY <1>0, <2>5 DEF Focus, Served
    <3>. QED
      BY <1>0, <1>2, <2>2, <2>4, <2>5, <3>1, LifeFocus, DeskTyped
  <2>8. Goes(desk, tiled) /\ Keeps(raised, tiled)
    <3>1. Goes(raised, tiled)
      BY <2>3, <2>6, ArrangeIfGoes, GoesNowhere DEF Goes
    <3>. QED
      BY <2>6, <2>7, <3>1, GoesOn, ArrangeKeeps
  <2> HIDE DEF tiled
  <2>9. Goes(desk, opening) /\ Keeps(raised, opening)
    <3>1. Redrawn(tiled, [tiled EXCEPT !.anim[t] = "opening"])
      BY <2>8 DEF Goes, Session, Redrawn, Carried, DeskType
    <3>2. Session(tiled)
      BY <2>8 DEF Goes
    <3>. QED
      BY <2>8, <3>1, <3>2, RedrawnGoes, GoesOn, KeepsTransitive
  <2> HIDE DEF opening
  <2>10. Session(opening) /\ Focus(opening) /\ opening.life[t] = "mapped"
    BY <2>5, <2>7, <2>9, KeepsFocus DEF Goes, Keeps
  <2>11. /\ Goes(desk, ruled) /\ Session(ruled) /\ Focus(ruled)
         /\ ruled.life[t] = "mapped"
    BY <2>9, <2>10, RulesApplyGoes, RulesApplyFocus, GoesOn DEF Goes
  <2> HIDE DEF ruled
  <2>12. Goes(ruled, FocusToplevel(ruled, t, Main(t)))
    BY <2>11, FocusToplevelGoes DEF SurfacesOf
  <2>. QED
    BY <2>2, <2>11, <2>12, GoesOn
<1>5. CASE UnmapToplevel(t)
  <2> DEFINE w == desk.workspace[t]
             dropped == [desk EXCEPT
                           !.life[t] = "unmapped",
                           !.hidden = @ \cup {t},
                           !.focused = IF @ = t THEN NoToplevel ELSE @,
                           !.anim[t] = IF Animations THEN "closing" ELSE @,
                           !.lit = @ \ {t}]
  <2>1. /\ desk' \in {dropped, ArrangeIfTiled(dropped, OutputFor(w), w)}
        /\ desk.life[t] = "mapped"
    BY <1>5 DEF UnmapToplevel
  <2>2. w \in Index
    BY <1>0, <1>2 DEF Typed
  <2>3. dropped \in DeskType
    <3> DEFINE life == [desk.life EXCEPT ![t] = "unmapped"]
               anim == [desk.anim EXCEPT ![t] = IF Animations THEN "closing" ELSE @]
               half == [desk EXCEPT !.life = life, !.anim = anim]
    <3>1. life \in [AllWindows -> {"none", "bare", "unmapped", "mapped"}]
      BY <1>0, <1>2 DEF DeskType
    <3>2. anim \in [Toplevels -> {"none", "opening", "closing", "focusing"}]
      BY <1>0, <1>2 DEF DeskType
    <3>3. dropped = [half EXCEPT
                       !.hidden = desk.hidden \cup {t},
                       !.focused = IF desk.focused = t THEN NoToplevel ELSE desk.focused,
                       !.lit = desk.lit \ {t}]
      BY <1>0 DEF DeskType
    <3> HIDE DEF life, anim, dropped
    <3>4. half \in DeskType
      BY <1>0, <3>1, <3>2 DEF DeskType
    <3> HIDE DEF half
    <3>5. /\ desk.hidden \cup {t} \in SUBSET AllWindows
          /\ (IF desk.focused = t THEN NoToplevel ELSE desk.focused)
                \in Toplevels \cup {NoToplevel}
          /\ desk.lit \ {t} \in SUBSET Toplevels
      BY <1>0, <1>2 DEF DeskType
    <3>. QED
      BY <3>3, <3>4, <3>5 DEF DeskType
  <2>4. /\ dropped.life[t] = "unmapped"
        /\ \A v \in AllWindows \ {t} : dropped.life[v] = desk.life[v]
        /\ dropped.workspace = desk.workspace /\ dropped.toplevels = desk.toplevels
        /\ dropped.order = desk.order /\ dropped.xorder = desk.xorder
        /\ dropped.serials = desk.serials /\ dropped.grabbed = desk.grabbed
        /\ dropped.seat = desk.seat /\ dropped.layout = desk.layout
        /\ dropped.crashed = desk.crashed
        /\ dropped.focused = (IF desk.focused = t THEN NoToplevel ELSE desk.focused)
        /\ dropped.lit = desk.lit \ {t}
    BY <1>0, <1>2 DEF DeskType
  <2> HIDE DEF dropped, w
  <2>5. Goes(desk, dropped)
    <3>1. Lit(dropped)
      BY <2>4 DEF Session, Lit
    <3>. QED
      BY <1>2, <2>1, <2>3, <2>4, <3>1, AliveGoes
  <2>6. Goes(desk, ArrangeIfTiled(dropped, OutputFor(w), w))
    BY <2>2, <2>5, ArrangeIfGoes, GoesOn DEF Goes
  <2>. QED
    BY <2>1, <2>5, <2>6
<1>6. CASE CommitToplevel(t)
  <2>1. Redrawn(desk, [desk EXCEPT !.lit = IF desk.focused = t THEN @ \cup {t}
                                           ELSE @ \ {t}])
    BY <1>0 DEF Redrawn, Carried, DeskType
  <2>. QED
    BY <1>6, <2>1, RedrawnGoes DEF CommitToplevel
<1>7. CASE DestroyToplevel(t)
  <2> DEFINE w == desk.workspace[t]
             e == [desk EXCEPT
                     !.life[t] = "none",
                     !.toplevels[w] = RemoveFirst(@, t),
                     !.order = RemoveFirst(@, t),
                     !.floating = @ \ {t}, !.hidden = @ \ {t},
                     !.grabbed = @ \ {t}, !.serials = RemoveFirst(@, t),
                     !.anim[t] = "none", !.workspace[t] = 0]
  <2>1. desk' = e /\ desk.life[t] = "unmapped"
    BY <1>7 DEF DestroyToplevel
  <2>2. desk.focused # t
    BY <1>0, <2>1, WindowsAssumption DEF Focus
  <2>3. /\ RemoveFirst(desk.order, t) \in Seq(Toplevels)
        /\ RemoveFirst(desk.serials, t) \in Seq(AllWindows)
        /\ w \in Index /\ RemoveFirst(desk.toplevels[w], t) \in Seq(Toplevels)
    BY <1>0, <1>2, UnlinkType DEF Typed
  <2>4. e \in DeskType
    BY ZenonT(60), <1>0, <1>2, <2>3 DEF DeskType
  <2>5. /\ e.life = [desk.life EXCEPT ![t] = "none"]
        /\ e.workspace = [desk.workspace EXCEPT ![t] = 0]
        /\ e.toplevels = [desk.toplevels EXCEPT ![w] = RemoveFirst(@, t)]
        /\ e.order = RemoveFirst(desk.order, t)
        /\ e.serials = RemoveFirst(desk.serials, t)
        /\ e.xorder = desk.xorder /\ e.grabbed = desk.grabbed \ {t}
        /\ e.seat = desk.seat /\ e.layout = desk.layout /\ e.crashed = desk.crashed
        /\ e.focused = desk.focused /\ e.lit = desk.lit
    BY <1>0 DEF DeskType
  <2> HIDE DEF e
  <2>6. Goes(desk, e)
    BY <1>0, <2>2, <2>4, <2>5, DestroyedGoes
  <2>. QED
    BY <2>1, <2>6
<1>8. CASE \E s \in SurfacesOf(t) : SurfaceGone(t, s)
  <2>1. desk' = [desk EXCEPT !.seat = NoSurface]
    BY <1>8 DEF SurfaceGone
  <2>. QED
    BY <2>1, UnseatedGoes
<1>9. CASE RequestMove(t)
  BY <1>9, BeginInteractiveGoes DEF RequestMove
<1>. QED
  BY <1>1, <1>3, <1>4, <1>5, <1>6, <1>7, <1>8, <1>9

(* xwayland_surface_destroy(): out of both lists, and the last focused     *)
(* window stays so.                                                        *)
LEMMA XDestroyedGoes ==
    ASSUME NEW d, Session(d), NEW x \in XWindows, NEW e, e \in DeskType,
           e.life = [d.life EXCEPT ![x] = "none"],
           \A t \in Toplevels : e.workspace[t] = d.workspace[t],
           e.toplevels = d.toplevels, e.order = d.order,
           e.xorder = RemoveFirst(d.xorder, x),
           e.serials = RemoveFirst(d.serials, x), e.grabbed = d.grabbed \ {x},
           e.seat = d.seat, e.layout = d.layout, e.crashed = d.crashed,
           e.focused = d.focused, e.lit = d.lit
    PROVE  Goes(d, e)
<1>0. /\ Lists(d) /\ x \in AllWindows /\ x \notin Toplevels
      /\ d.life \in [AllWindows -> {"none", "bare", "unmapped", "mapped"}]
      /\ d.xorder \in Seq(XWindows)
      /\ d.serials \in Seq(AllWindows)
      /\ d.grabbed \in SUBSET AllWindows
  BY WindowsAssumption DEF Session, AllWindows, DeskType
<1>1. IsInjective(e.xorder) /\ ToSet(e.xorder) = ToSet(d.xorder) \ {x}
  BY <1>0, UnlinkAny DEF Lists
<1>2. IsInjective(e.serials)
  BY <1>0, UnlinkAny DEF Lists
<1>3. \A u \in AllWindows : e.life[u] = IF u = x THEN "none" ELSE d.life[u]
  BY <1>0
<1>4. Lists(e)
  <2>1. ToSet(e.order) = {t \in Toplevels : e.life[t] # "none"}
    BY <1>0, <1>3 DEF Lists, AllWindows
  <2>2. ToSet(e.xorder) = {y \in XWindows : e.life[y] # "none"}
    BY <1>0, <1>1, <1>3 DEF Lists, AllWindows
  <2>3. \A u \in e.grabbed : e.life[u] # "none"
    BY <1>0, <1>3 DEF Lists
  <2>4. \A w \in Index :
           /\ IsInjective(e.toplevels[w])
           /\ ToSet(e.toplevels[w]) = {t \in ToSet(e.order) : e.workspace[t] = w}
    BY <1>0 DEF Lists
  <2>. QED
    BY <1>0, <1>1, <1>2, <2>1, <2>2, <2>3, <2>4 DEF Lists
<1>5. NewestSeated(d) => NewestSeated(e)
  BY <1>0, NewestKept DEF Lists
<1>. QED
  BY <1>4, <1>5 DEF Session, Goes, SeatMoves, Lit, NullTiled

(* handle_new_xwayland_surface(): at the head of ->xwayland_surfaces       *)
LEMMA XCreatedGoes ==
    ASSUME NEW d, Session(d), NEW x \in XWindows, d.life[x] = "none",
           NEW e, e \in DeskType,
           e.life = [d.life EXCEPT ![x] = "bare"],
           \A t \in Toplevels : e.workspace[t] = d.workspace[t],
           e.toplevels = d.toplevels, e.order = d.order,
           NEW l, l = <<x>> \o d.xorder, e.xorder = l,
           e.serials = d.serials, e.grabbed = d.grabbed,
           e.seat = d.seat, e.layout = d.layout, e.crashed = d.crashed,
           e.focused = d.focused, e.lit = d.lit
    PROVE  Goes(d, e)
<1>0. /\ Lists(d) /\ x \in AllWindows /\ x \notin Toplevels
      /\ d.life \in [AllWindows -> {"none", "bare", "unmapped", "mapped"}]
      /\ d.xorder \in Seq(XWindows) /\ IsInjective(d.xorder)
      /\ d.grabbed \in SUBSET AllWindows
      /\ x \notin ToSet(d.xorder)
  BY WindowsAssumption DEF Session, AllWindows, DeskType, Lists
<1>1. IsInjective(l) /\ ToSet(l) = {x} \cup ToSet(d.xorder)
  BY <1>0, InsertFacts
<1>3. \A u \in AllWindows : e.life[u] = IF u = x THEN "bare" ELSE d.life[u]
  BY <1>0
<1>4. Lists(e)
  <2>1. ToSet(e.order) = {t \in Toplevels : e.life[t] # "none"}
    BY <1>0, <1>3 DEF Lists, AllWindows
  <2>2. ToSet(e.xorder) = {y \in XWindows : e.life[y] # "none"}
    BY <1>0, <1>1, <1>3 DEF Lists, AllWindows
  <2>3. \A u \in e.grabbed : e.life[u] # "none"
    BY <1>0, <1>3 DEF Lists
  <2>4. \A w \in Index :
           /\ IsInjective(e.toplevels[w])
           /\ ToSet(e.toplevels[w]) = {t \in ToSet(e.order) : e.workspace[t] = w}
    BY <1>0 DEF Lists
  <2>. QED
    BY <1>0, <1>1, <2>1, <2>2, <2>3, <2>4 DEF Lists
<1>. QED
  BY <1>4 DEF Session, Goes, SeatMoves, Lit, NullTiled, NewestSeated

LEMMA XClientGoes ==
    ASSUME WorkspacesInv, FocusInv, Session(desk), XClientNext
    PROVE  Goes(desk, desk')
<1>0. Typed(desk) /\ Focus(desk) /\ desk \in DeskType /\ 0 \in Index
  BY TypedHere DEF Session
<1>1. PICK x \in XWindows :
        \/ NewXWindow(x)
        \/ XAssociate(x)
        \/ \E r \in Rules : XMap(x, r)
        \/ XDissociate(x)
        \/ XSurfaceGone(x)
        \/ XDestroy(x)
        \/ XRequestMove(x)
  BY DEF XClientNext
<1>2. x \in AllWindows /\ \A t \in Toplevels : t \in AllWindows /\ t # x
  BY WindowsAssumption DEF AllWindows
<1>3. CASE NewXWindow(x)
  <2> DEFINE w == IF cursor = NoOutput THEN 0 ELSE active[cursor]
             l == <<x>> \o desk.xorder
             e == [desk EXCEPT !.life[x] = "bare", !.workspace[x] = w,
                               !.xorder = <<x>> \o @]
  <2>1. desk' = e /\ desk.life[x] = "none" /\ w \in Index
    BY <1>3, TypedHere DEF NewXWindow
  <2> HIDE DEF w
  <2>2. l \in Seq(XWindows)
    BY <1>0, InsertFacts DEF Typed
  <2>3. e \in DeskType
    BY <1>0, <1>2, <2>1, <2>2 DEF DeskType
  <2>4. /\ e.life = [desk.life EXCEPT ![x] = "bare"]
        /\ e.workspace = [desk.workspace EXCEPT ![x] = w]
        /\ e.toplevels = desk.toplevels /\ e.order = desk.order
        /\ e.xorder = l /\ e.serials = desk.serials
        /\ e.grabbed = desk.grabbed /\ e.seat = desk.seat
        /\ e.layout = desk.layout /\ e.crashed = desk.crashed
        /\ e.focused = desk.focused /\ e.lit = desk.lit
    BY <1>0 DEF DeskType
  <2>5. \A t \in Toplevels : e.workspace[t] = desk.workspace[t]
    BY <1>0, <1>2, <2>4 DEF Typed
  <2> HIDE DEF e
  <2>6. Goes(desk, e)
    BY <2>1, <2>3, <2>4, <2>5, XCreatedGoes
  <2>. QED
    BY <2>1, <2>6
<1>4. CASE XAssociate(x)
  <2> DEFINE e == [desk EXCEPT !.life[x] = "unmapped"]
  <2>1. desk' = e /\ desk.life[x] # "none"
    BY <1>4 DEF XAssociate
  <2>2. e \in DeskType
    BY <1>0, <1>2 DEF DeskType
  <2>3. /\ e.life[x] # "none"
        /\ \A v \in AllWindows \ {x} : e.life[v] = desk.life[v]
        /\ e.workspace = desk.workspace
        /\ e.toplevels = desk.toplevels /\ e.order = desk.order
        /\ e.xorder = desk.xorder /\ e.serials = desk.serials
        /\ e.grabbed = desk.grabbed /\ e.seat = desk.seat
        /\ e.layout = desk.layout /\ e.crashed = desk.crashed
        /\ e.focused = desk.focused /\ e.lit = desk.lit
    BY <1>0, <1>2 DEF DeskType
  <2> HIDE DEF e
  <2>4. Lit(e)
    BY <2>3 DEF Session, Lit
  <2>5. Goes(desk, e)
    BY <1>2, <2>1, <2>2, <2>3, <2>4, AliveGoes
  <2>. QED
    BY <2>1, <2>5
<1>5. CASE \E r \in Rules : XMap(x, r)
  <2>1. PICK r \in Rules : XMap(x, r)
    BY <1>5
  <2> DEFINE e == [desk EXCEPT !.life[x] = "mapped"]
             ruled == IF r.workspace = -1 THEN e ELSE MoveXWindow(e, x, r.workspace)
             f == [ruled EXCEPT !.hidden = @ \ {x}]
  <2>2. desk' = f /\ desk.life[x] # "none"
    BY <2>1 DEF XMap
  <2>3. e \in DeskType
    BY <1>0, <1>2 DEF DeskType
  <2>4. /\ e.life[x] # "none"
        /\ \A v \in AllWindows \ {x} : e.life[v] = desk.life[v]
        /\ e.workspace = desk.workspace
        /\ e.toplevels = desk.toplevels /\ e.order = desk.order
        /\ e.xorder = desk.xorder /\ e.serials = desk.serials
        /\ e.grabbed = desk.grabbed /\ e.seat = desk.seat
        /\ e.layout = desk.layout /\ e.crashed = desk.crashed
        /\ e.focused = desk.focused /\ e.lit = desk.lit
    BY <1>0, <1>2 DEF DeskType
  <2> HIDE DEF e
  <2>5. Lit(e)
    BY <2>4 DEF Session, Lit
  <2>6. Goes(desk, e)
    BY <1>2, <2>2, <2>3, <2>4, <2>5, AliveGoes
  <2>7. r.workspace = -1 \/ r.workspace \in Index
    BY WindowsAssumption
  <2>8. Goes(e, ruled)
    BY <2>6, <2>7, MoveXWindowGoes, GoesNowhere DEF Goes
  <2> HIDE DEF ruled
  <2>9. ruled \in DeskType /\ Session(ruled)
    BY <2>8 DEF Goes, Session
  <2>10. Redrawn(ruled, f)
    BY <2>9 DEF Redrawn, Carried, DeskType
  <2> HIDE DEF f
  <2>11. Goes(ruled, f)
    BY <2>9, <2>10, RedrawnGoes
  <2>12. Goes(desk, ruled)
    BY <2>6, <2>8, GoesOn
  <2>13. Goes(desk, f)
    BY <2>11, <2>12, GoesOn
  <2>. QED
    BY <2>2, <2>13
<1>6. CASE XDissociate(x)
  <2> DEFINE e == [desk EXCEPT
                     !.life[x] = "bare",
                     !.xfocused = IF @ = x THEN NoToplevel ELSE @,
                     !.ghosts = @ \cup ({x} \cap {y \in XWindows : desk.life[y] = "mapped"})]
  <2>1. desk' = e /\ desk.life[x] # "none"
    BY <1>6 DEF XDissociate
  <2>2. e \in DeskType
    BY <1>0, <1>2 DEF DeskType
  <2>3. /\ e.life[x] # "none"
        /\ \A v \in AllWindows \ {x} : e.life[v] = desk.life[v]
        /\ e.workspace = desk.workspace
        /\ e.toplevels = desk.toplevels /\ e.order = desk.order
        /\ e.xorder = desk.xorder /\ e.serials = desk.serials
        /\ e.grabbed = desk.grabbed /\ e.seat = desk.seat
        /\ e.layout = desk.layout /\ e.crashed = desk.crashed
        /\ e.focused = desk.focused /\ e.lit = desk.lit
    BY <1>0, <1>2 DEF DeskType
  <2> HIDE DEF e
  <2>4. Lit(e)
    BY <2>3 DEF Session, Lit
  <2>5. Goes(desk, e)
    BY <1>2, <2>1, <2>2, <2>3, <2>4, AliveGoes
  <2>. QED
    BY <2>1, <2>5
<1>7. CASE XSurfaceGone(x)
  <2> DEFINE forgotten == {x} \cap {y \in XWindows : desk.life[y] = "none"}
             s == IF desk.seat = XMain(x) THEN NoSurface ELSE desk.seat
             e == [desk EXCEPT
                     !.ghosts = @ \ {x}, !.hidden = @ \ forgotten,
                     !.workspace[x] = IF x \in forgotten THEN 0 ELSE @,
                     !.seat = IF @ = XMain(x) THEN NoSurface ELSE @]
  <2>1. desk' = e
    BY <1>7 DEF XSurfaceGone
  <2>2. s \in Surfaces /\ s \in {desk.seat, NoSurface}
    BY <1>0, OtherSurface DEF Typed
  <2> HIDE DEF forgotten
  <2>3. e \in DeskType
    BY <1>0, <1>2, <2>2 DEF DeskType
  <2>4. /\ e.life = desk.life
        /\ \A t \in Toplevels : e.workspace[t] = desk.workspace[t]
        /\ e.toplevels = desk.toplevels /\ e.order = desk.order
        /\ e.xorder = desk.xorder /\ e.serials = desk.serials
        /\ e.grabbed = desk.grabbed /\ e.seat = s
        /\ e.layout = desk.layout /\ e.crashed = desk.crashed
        /\ e.focused = desk.focused /\ e.lit = desk.lit
    BY <1>0, <1>2 DEF DeskType
  <2> HIDE DEF e, s
  <2>5. Lists(e)
    BY <2>4 DEF Session, Lists
  <2>6. \A w : NoSurface \notin {Main(w), XMain(w)}
    BY DEF NoSurface, Main, XMain
  <2>7. NewestSeated(desk) => NewestSeated(e)
    BY <2>2, <2>4, <2>6 DEF NewestSeated
  <2>8. Goes(desk, e)
    BY <2>2, <2>3, <2>4, <2>5, <2>7 DEF Session, Goes, SeatMoves, Lit, NullTiled
  <2>. QED
    BY <2>1, <2>8
<1>8. CASE XDestroy(x)
  <2> DEFINE forgotten == {x} \ desk.ghosts
             e == [desk EXCEPT
                     !.life[x] = "none",
                     !.xorder = RemoveFirst(@, x), !.serials = RemoveFirst(@, x),
                     !.grabbed = @ \ {x},
                     !.xfocused = IF @ = x THEN NoToplevel ELSE @,
                     !.hidden = @ \ forgotten,
                     !.workspace[x] = IF x \in forgotten THEN 0 ELSE @]
  <2>1. desk' = e
    BY <1>8 DEF XDestroy
  <2>2. /\ RemoveFirst(desk.xorder, x) \in Seq(XWindows)
        /\ RemoveFirst(desk.serials, x) \in Seq(AllWindows)
    BY <1>0, <1>2, UnlinkType DEF Typed
  <2> HIDE DEF forgotten
  <2>3. e \in DeskType
    <3> DEFINE life  == [desk.life EXCEPT ![x] = "none"]
               place == [desk.workspace EXCEPT ![x] = IF x \in forgotten THEN 0 ELSE @]
               half  == [desk EXCEPT !.life = life, !.workspace = place]
    <3>1. life \in [AllWindows -> {"none", "bare", "unmapped", "mapped"}]
      BY <1>0, <1>2 DEF DeskType
    <3>2. place \in [AllWindows -> Index]
      BY <1>0, <1>2 DEF DeskType
    <3>3. e = [half EXCEPT
                 !.xorder = RemoveFirst(desk.xorder, x),
                 !.serials = RemoveFirst(desk.serials, x),
                 !.grabbed = desk.grabbed \ {x},
                 !.xfocused = IF desk.xfocused = x THEN NoToplevel ELSE desk.xfocused,
                 !.hidden = desk.hidden \ forgotten]
      BY ZenonT(60), <1>0 DEF DeskType
    <3> HIDE DEF life, place, e
    <3>4. half \in DeskType
      BY <1>0, <3>1, <3>2 DEF DeskType
    <3> HIDE DEF half
    <3>. QED
      BY <1>0, <2>2, <3>3, <3>4 DEF DeskType
  <2>4. /\ e.life = [desk.life EXCEPT ![x] = "none"]
        /\ \A t \in Toplevels : e.workspace[t] = desk.workspace[t]
        /\ e.toplevels = desk.toplevels /\ e.order = desk.order
        /\ e.xorder = RemoveFirst(desk.xorder, x)
        /\ e.serials = RemoveFirst(desk.serials, x)
        /\ e.grabbed = desk.grabbed \ {x} /\ e.seat = desk.seat
        /\ e.layout = desk.layout /\ e.crashed = desk.crashed
        /\ e.focused = desk.focused /\ e.lit = desk.lit
    BY <1>0, <1>2 DEF DeskType
  <2> HIDE DEF e
  <2>5. Goes(desk, e)
    BY <2>3, <2>4, XDestroyedGoes
  <2>. QED
    BY <2>1, <2>5
<1>9. CASE XRequestMove(x)
  <2>1. /\ desk' = [desk EXCEPT !.grabbed = desk.grabbed \cup {x}]
        /\ desk.life[x] # "none"
    BY <1>9 DEF XRequestMove
  <2>2. /\ desk.grabbed \cup {x} \in SUBSET AllWindows
        /\ \A w \in desk.grabbed \cup {x} : desk.life[w] # "none"
    BY <1>0, <1>2, <2>1 DEF Session, Lists, DeskType
  <2>3. Goes(desk, [desk EXCEPT !.grabbed = desk.grabbed \cup {x}])
    BY <2>2, GrabGoes
  <2>. QED
    BY <2>1, <2>3
<1>. QED
  BY <1>1, <1>3, <1>4, <1>5, <1>6, <1>7, <1>8, <1>9

LEMMA OutputGoes ==
    ASSUME WorkspacesInv, FocusInv, Session(desk), OutputNext
    PROVE  Goes(desk, desk')
<1>0. Typed(desk) /\ Focus(desk) /\ desk \in DeskType
  BY TypedHere DEF Session
<1>1. CASE Frame
  <2> DEFINE running == {t \in Toplevels : desk.anim[t] # "none"}
             fading  == {t \in running : desk.anim[t] # "focusing"}
  <2>1. PICK done \in SUBSET running, dim \in SUBSET fading :
           desk' = [desk EXCEPT
              !.anim = [t \in Toplevels |-> IF t \in done THEN "none" ELSE @[t]],
              !.hidden = (@ \ fading) \cup
                  {t \in fading : IF t \in done THEN desk.anim[t] = "closing"
                                  ELSE t \in dim},
              !.lit = @ \cup ((running \ fading) \cap Mapped(desk))]
    BY <1>1 DEF Frame
  <2> DEFINE a == [t \in Toplevels |-> IF t \in done THEN "none" ELSE desk.anim[t]]
             h == (desk.hidden \ fading) \cup
                  {t \in fading : IF t \in done THEN desk.anim[t] = "closing"
                                  ELSE t \in dim}
             l == desk.lit \cup ((running \ fading) \cap Mapped(desk))
  <2>2. desk' = [desk EXCEPT !.anim = a, !.hidden = h, !.lit = l]
    BY <2>1
  <2>3. /\ a \in [Toplevels -> {"none", "opening", "closing", "focusing"}]
        /\ h \in SUBSET AllWindows /\ l \in SUBSET Toplevels /\ desk.lit \subseteq l
    BY <1>0 DEF DeskType, AllWindows
  <2> HIDE DEF a, h, l
  <2>4. Redrawn(desk, desk')
    BY <1>0, <2>2, <2>3 DEF Redrawn, Carried, DeskType
  <2>. QED
    BY <2>4, RedrawnGoes
<1>2. ASSUME NEW o \in Outputs, PlugOutput(o)
      PROVE  Goes(desk, desk')
  BY <1>2, GoesNowhere DEF PlugOutput
<1>3. ASSUME NEW o \in Outputs, UnplugOutput(o)
      PROVE  Goes(desk, desk')
  <2> DEFINE w    == active[o]
             rest == RemoveFirst(outputs, o)
             left == LeaveWorkspace(desk, w)
             tiled == ArrangeIfTiled(left, Head(rest), w)
  <2>1. w \in Index
    BY <1>3, TypedHere DEF UnplugOutput, OutputDestroyed
  <2>2. desk' \in {left, FocusFirst(tiled, w)}
    BY <1>3 DEF UnplugOutput
  <2>3. Focus(left) /\ Goes(desk, left)
    BY <1>0, LeaveFocus, LeaveGoes
  <2> HIDE DEF left
  <2>4. Focus(tiled)
    BY <2>3, ArrangeKeeps, KeepsFocus DEF Focus
  <2>5. Goes(desk, tiled)
    BY <2>1, <2>3, ArrangeIfGoes, GoesOn DEF Goes
  <2> HIDE DEF tiled, w
  <2>6. Goes(desk, FocusFirst(tiled, w))
    BY <2>1, <2>4, <2>5, FocusFirstGoes, GoesOn DEF Goes
  <2>. QED
    BY <2>2, <2>3, <2>6
<1>. QED
  BY <1>1, <1>2, <1>3 DEF OutputNext

(* kum_tiling_swap_master(): the same windows in another order, and a NULL *)
(* iterator followed in a tiled layout only                                *)
LEMMA SwapMasterGoes ==
    ASSUME WorkspacesInv, FocusInv, Session(desk), SwapMasterKey
    PROVE  Goes(desk, desk')
<1> DEFINE t    == desk.focused
           w    == desk.workspace[t]
           swapped == Append(RemoveFirst(desk.toplevels[w], t), t)
           last == [desk EXCEPT !.toplevels[w] = swapped]
           null == [desk EXCEPT !.crashed = "null"]
<1>0. Typed(desk) /\ Focus(desk) /\ desk \in DeskType /\ Lists(desk)
  BY TypedHere DEF Session
<1>1. /\ desk' \in {null, ArrangeIfShown(last, w)}
      /\ t # NoToplevel /\ desk.layout[w] = "tile"
  BY DEF SwapMasterKey
<1>2. t \in Toplevels /\ t \in AllWindows /\ w \in Index /\ desk.life[t] = "mapped"
  BY <1>0, <1>1 DEF Typed, AllWindows, Focus
<1>3. /\ desk.toplevels[w] \in Seq(Toplevels) /\ IsInjective(desk.toplevels[w])
      /\ t \in ToSet(desk.toplevels[w])
  <2>1. t \in ToSet(desk.order)
    BY <1>0, <1>2 DEF Lists
  <2>. QED
    BY <1>0, <1>2, <2>1 DEF Lists, Typed
<1>4. /\ swapped \in Seq(Toplevels) /\ IsInjective(swapped)
      /\ ToSet(swapped) = ToSet(desk.toplevels[w])
  <2> DEFINE r == RemoveFirst(desk.toplevels[w], t)
  <2>1. /\ r \in Seq(Toplevels) /\ IsInjective(r)
        /\ ToSet(r) = ToSet(desk.toplevels[w]) \ {t}
    BY <1>3, UnlinkAny
  <2> HIDE DEF r
  <2>2. /\ Append(r, t) \in Seq(Toplevels) /\ IsInjective(Append(r, t))
        /\ ToSet(Append(r, t)) = ToSet(r) \cup {t}
    BY <1>2, <2>1, AppendFacts
  <2>3. swapped = Append(r, t)
    BY DEF r
  <2> HIDE DEF swapped
  <2>. QED
    BY <1>3, <2>1, <2>2, <2>3
<1> HIDE DEF swapped, t
<1>5. last \in DeskType
  BY <1>0, <1>2, <1>4 DEF DeskType
<1>6. /\ last.life = desk.life /\ last.workspace = desk.workspace
      /\ last.toplevels = [desk.toplevels EXCEPT ![w] = swapped]
      /\ last.order = desk.order /\ last.xorder = desk.xorder
      /\ last.serials = desk.serials /\ last.grabbed = desk.grabbed
      /\ last.seat = desk.seat /\ last.layout = desk.layout
      /\ last.crashed = desk.crashed /\ last.focused = desk.focused
      /\ last.lit = desk.lit
  BY <1>0 DEF DeskType
<1>7. \A v \in Index : last.toplevels[v] = IF v = w THEN swapped ELSE desk.toplevels[v]
  BY <1>0, <1>6 DEF Typed
<1>8. null \in DeskType
  BY <1>0 DEF DeskType
<1>9. Quiet(desk, null) /\ Lit(null) /\ NullTiled(null)
  BY <1>0, <1>1, <1>2, <1>8 DEF Session, Lit, NullTiled, Quiet, DeskType
<1> HIDE DEF last, null, w
<1>10. Lists(last)
  <2>1. ASSUME NEW v \in Index
        PROVE  /\ IsInjective(last.toplevels[v])
               /\ ToSet(last.toplevels[v])
                     = {u \in ToSet(last.order) : last.workspace[u] = v}
    <3>1. /\ IsInjective(desk.toplevels[v])
          /\ ToSet(desk.toplevels[v]) = {u \in ToSet(desk.order) : desk.workspace[u] = v}
      BY <1>0 DEF Lists
    <3>2. /\ IsInjective(last.toplevels[v])
          /\ ToSet(last.toplevels[v]) = ToSet(desk.toplevels[v])
      BY <1>4, <1>7, <3>1
    <3>. QED
      BY <1>6, <3>1, <3>2
  <2>. QED
    BY <1>0, <1>6, <2>1 DEF Lists
<1>11. Goes(desk, last)
  BY <1>5, <1>6, <1>10 DEF Session, Goes, SeatMoves, Lit, NullTiled, NewestSeated
<1>12. Goes(desk, ArrangeIfShown(last, w))
  BY <1>2, <1>11, ArrangeIfGoes, GoesOn DEF Goes
<1>13. Goes(desk, null)
  BY <1>9, QuietGoes
<1>. QED
  BY <1>1, <1>12, <1>13

LEMMA UserGoes ==
    ASSUME WorkspacesInv, FocusInv, Session(desk), desk.crashed = "no", UserNext
    PROVE  Goes(desk, desk')
<1>0. Typed(desk) /\ Focus(desk) /\ desk \in DeskType
  BY TypedHere DEF Session
<1>1. ASSUME NEW o, NEW i, Switch(o, i)
      PROVE  Goes(desk, desk')
  <2> DEFINE gone == LeaveWorkspace(desk, active[o])
             left == LeaveWorkspaceX(gone, active[o])
  <2>1. i \in Index
    BY <1>1 DEF Switch, SwitchOutput
  <2>2. desk' = FocusFirst(left, i)
    BY <1>1 DEF Switch
  <2>3. Focus(gone) /\ Goes(desk, gone)
    BY <1>0, LeaveFocus, LeaveGoes
  <2> HIDE DEF gone
  <2>4. Focus(left) /\ Goes(desk, left)
    BY <2>3, LeaveFocus, LeaveGoes, GoesOn DEF Goes
  <2> HIDE DEF left
  <2>5. Goes(left, FocusFirst(left, i))
    BY <2>1, <2>4, FocusFirstGoes DEF Goes
  <2>. QED
    BY <2>2, <2>4, <2>5, GoesOn
<1>2. ASSUME NEW i \in Index, IpcWorkspace(i) \/ SwitchKey(i)
      PROVE  Goes(desk, desk')
  BY <1>1, <1>2 DEF IpcWorkspace, SwitchKey
<1>3. CASE ScratchpadKey
  BY <1>1, <1>3 DEF ScratchpadKey
<1>4. ASSUME NEW i \in Index, MoveFocused(i)
      PROVE  Goes(desk, desk')
  <2>1. /\ desk.focused # NoToplevel =>
              desk.focused \in Toplevels /\ desk.life[desk.focused] = "mapped"
        /\ desk.xfocused # NoToplevel => desk.xfocused \in XWindows
    BY <1>0 DEF Typed, Focus
  <2>. QED
    BY <1>0, <1>4, <2>1, MoveToplevelGoes, MoveXWindowGoes, GoesNowhere
       DEF MoveFocused
<1>5. CASE CycleFocusKey
  <2> DEFINE w == Oldest(desk)
  <2>1. w \in AllWindows => desk.life[w] = "mapped"
    BY <1>0, OldestMapped, WindowsAssumption DEF AllWindows
  <2>2. desk' = IF \E x \in XWindows : desk.life[x] = "bare"
                THEN [desk EXCEPT !.crashed = "bare"]
                ELSE IF w \in Toplevels THEN FocusToplevel(desk, w, Main(w))
                ELSE IF w \in XWindows THEN FocusX(desk, w) ELSE desk
    BY <1>5 DEF CycleFocusKey
  <2> HIDE DEF w
  <2>3. Goes(desk, [desk EXCEPT !.crashed = "bare"])
    BY CrashGoes
  <2>4. w \in Toplevels => Goes(desk, FocusToplevel(desk, w, Main(w)))
    BY <1>0, <2>1, FocusToplevelGoes DEF SurfacesOf, AllWindows
  <2>5. w \in XWindows => Goes(desk, FocusX(desk, w))
    BY <1>0, FocusXGoes
  <2>. QED
    BY <2>2, <2>3, <2>4, <2>5, GoesNowhere
<1>6. ASSUME NEW o \in Outputs, FocusAdjacentKey(o)
      PROVE  Goes(desk, desk')
  <2>1. active[o] \in Index
    BY <1>6, TypedHere DEF FocusAdjacentKey
  <2>. QED
    BY <1>0, <1>6, <2>1, FocusFirstGoes DEF FocusAdjacentKey
<1>7. ASSUME NEW l, SetLayout(l)
      PROVE  Goes(desk, desk')
  <2> DEFINE w == active[cursor]
             e == [desk EXCEPT !.layout[w] = l]
  <2>1. /\ desk' = Arrange(e, cursor, w)
        /\ w \in Index /\ cursor # NoOutput
        /\ l \in {"floating", "tile", "monocle"}
    BY <1>7, TypedHere, WindowsAssumption DEF SetLayout
  <2> HIDE DEF w
  <2>2. e \in DeskType
    BY <1>0, <2>1 DEF DeskType
  <2>3. /\ Quiet(desk, e) /\ e.focused = desk.focused /\ e.lit = desk.lit
        /\ e.crashed = desk.crashed
    BY <1>0, <2>2 DEF Quiet, DeskType
  <2> HIDE DEF e
  <2>4. Lit(e) /\ NullTiled(e)
    BY <2>3 DEF Session, Lit, NullTiled
  <2>5. Goes(desk, e)
    BY <2>3, <2>4, QuietGoes
  <2>6. Goes(e, Arrange(e, cursor, w))
    BY <2>1, <2>5, ArrangeGoes DEF Goes
  <2>. QED
    BY <2>1, <2>5, <2>6, GoesOn
<1>8. CASE ToggleLayoutKey
  BY <1>7, <1>8 DEF ToggleLayoutKey
<1>9. CASE ToggleFloatingKey
  <2> DEFINE t == desk.focused
             w == desk.workspace[t]
             e == [desk EXCEPT !.floating = (@ \ {t}) \cup ({t} \ @)]
  <2>1. /\ desk' = Arrange(e, cursor, w)
        /\ t # NoToplevel /\ desk.layout[w] = "tile"
    BY <1>9 DEF ToggleFloatingKey
  <2>2. t \in Toplevels /\ w \in Index
    BY <1>0, <2>1 DEF Typed, AllWindows
  <2> HIDE DEF t, w
  <2>3. Redrawn(desk, e) /\ e.layout = desk.layout
    BY <1>0, <2>2 DEF Redrawn, Carried, DeskType
  <2> HIDE DEF e
  <2>4. Goes(desk, e)
    BY <2>3, RedrawnGoes
  <2>5. Goes(e, Arrange(e, cursor, w))
    BY <2>1, <2>2, <2>3, <2>4, ArrangeGoes DEF Goes
  <2>. QED
    BY <2>1, <2>4, <2>5, GoesOn
<1>10. CASE SwapMasterKey
  BY <1>10, SwapMasterGoes
<1>11. CASE ResizeKey
  <2> DEFINE t == desk.focused
             w == desk.workspace[t]
  <2>1. desk' = ArrangeIfShown(desk, w) /\ t # NoToplevel
    BY <1>11 DEF ResizeKey
  <2>2. w \in Index
    BY <1>0, <2>1 DEF Typed, AllWindows
  <2>. QED
    BY <2>1, <2>2, ArrangeIfGoes
<1>12. CASE Reload
  <2> DEFINE l == (desk.lit \ Mapped(desk)) \cup (Mapped(desk) \cap {desk.focused})
  <2>1. desk' = [desk EXCEPT !.lit = l]
    BY <1>12 DEF Reload
  <2>2. l \in SUBSET Toplevels /\ (desk.focused \in desk.lit => desk.focused \in l)
    BY <1>0 DEF Mapped, DeskType
  <2> HIDE DEF l
  <2>3. Redrawn(desk, desk')
    BY <1>0, <2>1, <2>2 DEF Redrawn, Carried, DeskType
  <2>. QED
    BY <2>3, RedrawnGoes
<1>13. CASE KeyboardJoins \/ KeyboardLeaves
  BY <1>13, GoesNowhere DEF KeyboardJoins, KeyboardLeaves
<1>. QED
  BY <1>2, <1>3, <1>4, <1>5, <1>6, <1>7, <1>8, <1>9, <1>10, <1>11, <1>12, <1>13
     DEF UserNext

(* The seat goes to a surface that is no window's, or to none.             *)
LEMMA ReseatedSession ==
    ASSUME NEW d, Session(d),
           NEW s, s = NoSurface \/ (\E o \in Outputs : s = Lock(o))
                                \/ (\E l \in Layers : s = Layer(l)),
           NEW e, e \in DeskType,
           e.life = d.life, e.workspace = d.workspace, e.toplevels = d.toplevels,
           e.order = d.order, e.xorder = d.xorder, e.serials = d.serials,
           e.grabbed = d.grabbed, e.layout = d.layout, e.lit = d.lit,
           e.crashed \in {d.crashed, "no", "freed"}, e.focused = d.focused, e.seat = s
    PROVE  Session(e)
<1>1. Lists(e)
  BY DEF Session, Lists
<1>2. s \in Surfaces /\ ~OnWindow(s)
  BY OtherSurface
<1>3. NewestSeated(e)
  BY <1>2, SeatedOnWindow DEF NewestSeated
<1>. QED
  BY <1>1, <1>3 DEF Session, Lit, NullTiled

LEMMA LockSession ==
    ASSUME WorkspacesInv, FocusInv, Session(desk), LockNext
    PROVE  Session(desk')
<1>0. Typed(desk) /\ desk \in DeskType
  BY TypedHere DEF Session
<1>1. ASSUME NEW s, s = NoSurface \/ (\E o \in Outputs : s = Lock(o)),
             NEW c \in {desk.crashed, "no", "freed"}
      PROVE  Session([desk EXCEPT !.seat = s, !.crashed = c])
  <2> DEFINE e == [desk EXCEPT !.seat = s, !.crashed = c]
  <2>1. s \in Surfaces
    BY <1>1, OtherSurface
  <2>2. e \in DeskType
    BY <1>0, <2>1 DEF DeskType
  <2>3. /\ e.life = desk.life /\ e.workspace = desk.workspace
        /\ e.toplevels = desk.toplevels
        /\ e.order = desk.order /\ e.xorder = desk.xorder /\ e.serials = desk.serials
        /\ e.grabbed = desk.grabbed /\ e.layout = desk.layout /\ e.lit = desk.lit
        /\ e.crashed = c /\ e.focused = desk.focused /\ e.seat = s
    BY <1>0 DEF DeskType
  <2> HIDE DEF e
  <2>4. Session(e)
    BY <1>1, <2>2, <2>3, ReseatedSession
  <2>. QED
    BY <2>4 DEF e
<1>2. \A s : [desk EXCEPT !.seat = s] = [desk EXCEPT !.seat = s, !.crashed = desk.crashed]
  BY <1>0 DEF DeskType
<1>3. \/ desk' = desk
      \/ \E s : /\ s = NoSurface \/ (\E o \in Outputs : s = Lock(o))
                /\ \E c \in {desk.crashed, "no", "freed"} :
                      desk' = [desk EXCEPT !.seat = s, !.crashed = c]
  <2>1. [desk EXCEPT !.seat = desk.seat] = desk
    BY <1>0 DEF DeskType
  <2>2. CASE NewSessionLock
    BY <1>2, <2>2 DEF NewSessionLock, ClearSeat
  <2>3. ASSUME NEW o \in Outputs, NewLockSurface(o)
        PROVE  <1>3!:
    BY <1>2, <2>3 DEF NewLockSurface
  <2>4. ASSUME NEW o \in Outputs, LockSurfaceGone(o)
        PROVE  <1>3!:
    BY <1>2, <2>1, <2>4 DEF LockSurfaceGone
  <2>5. CASE Unlock
    BY <2>5 DEF Unlock
  <2>6. CASE LockClientDies
    BY <1>2, <2>1, <2>6 DEF LockClientDies
  <2>. QED
    BY <2>2, <2>3, <2>4, <2>5, <2>6 DEF LockNext
<1>4. ASSUME NEW s, s = NoSurface \/ (\E o \in Outputs : s = Lock(o)),
             NEW c \in {desk.crashed, "no", "freed"},
             desk' = [desk EXCEPT !.seat = s, !.crashed = c]
      PROVE  Session(desk')
  <2>1. Session([desk EXCEPT !.seat = s, !.crashed = c])
    BY <1>1, <1>4
  <2>. QED
    BY ONLY <2>1, <1>4
<1>. QED
  BY ZenonT(60), <1>3, <1>4

LEMMA RecalculateGoes ==
    ASSUME WorkspacesInv, FocusInv, NEW d, Session(d), NEW o
    PROVE  Goes(d, Recalculate(d, o))
<1>1. o \in Connected => active[o] \in Index /\ o # NoOutput
  BY TypedHere, OutputsAssumption
<1>. QED
  BY <1>1, ArrangeGoes, GoesNowhere DEF Recalculate

LEMMA LayerSession ==
    ASSUME WorkspacesInv, FocusInv, Session(desk), LayerNext
    PROVE  Session(desk')
<1>1. PICK l \in Layers : LayerMap(l) \/ LayerUnmap(l) \/ LayerCommit(l)
  BY DEF LayerNext
<1> DEFINE d == Recalculate(desk, LayerOutput[l])
<1>2. Session(d) /\ d \in DeskType
  BY RecalculateGoes DEF Goes, Session
<1>3. \/ desk' = d
      \/ \E s \in {NoSurface, Layer(l), d.seat} : desk' = [d EXCEPT !.seat = s]
  BY <1>1 DEF LayerMap, LayerUnmap, LayerCommit
<1> HIDE DEF d
<1>4. [d EXCEPT !.seat = d.seat] = d
  BY <1>2 DEF DeskType
<1>5. ASSUME NEW s \in {NoSurface, Layer(l)}
      PROVE  Session([d EXCEPT !.seat = s])
  <2> DEFINE e == [d EXCEPT !.seat = s]
  <2>1. s \in Surfaces
    BY OtherSurface
  <2>2. e \in DeskType
    BY <1>2, <2>1 DEF DeskType
  <2>3. /\ e.life = d.life /\ e.workspace = d.workspace
        /\ e.toplevels = d.toplevels
        /\ e.order = d.order /\ e.xorder = d.xorder /\ e.serials = d.serials
        /\ e.grabbed = d.grabbed /\ e.layout = d.layout /\ e.lit = d.lit
        /\ e.crashed = d.crashed /\ e.focused = d.focused /\ e.seat = s
    BY <1>2 DEF DeskType
  <2> HIDE DEF e
  <2>4. Session(e)
    BY <1>2, <2>2, <2>3, ReseatedSession
  <2>. QED
    BY <2>4 DEF e
<1>. QED
  BY <1>2, <1>3, <1>4, <1>5

LEMMA PointerGoes ==
    ASSUME WorkspacesInv, FocusInv, Session(desk), PointerNext
    PROVE  Goes(desk, desk')
<1>0. Typed(desk) /\ Focus(desk) /\ desk \in DeskType
  BY TypedHere DEF Session
<1>n. \A t \in Toplevels : t \notin desk.ghosts
  BY <1>0, WindowsAssumption DEF Typed
<1>1. ASSUME NEW o \in Outputs, NEW t \in Toplevels, NEW s \in SurfacesOf(t),
             PointerOver(o, t, s)
      PROVE  Goes(desk, desk')
  <2>1. desk.life[t] = "mapped"
    BY <1>1, <1>n DEF PointerOver, CanHit
  <2>2. desk' \in {desk, FocusToplevel(desk, t, s)}
    BY <1>1 DEF PointerOver, Hovered
  <2>. QED
    BY <1>0, <2>1, <2>2, FocusToplevelGoes, GoesNowhere
<1>2. ASSUME NEW x \in XWindows
      PROVE  /\ Goes(desk, FocusHit(x))
             /\ \/ FocusHit(x).crashed = "freed"
                \/ FocusHit(x).life = desk.life /\ desk.life[x] # "none"
  <2>1. CASE desk.life[x] = "none"
    <3>1. FocusHit(x).crashed = "freed"
      BY <1>0, <2>1 DEF FocusHit, DeskType
    <3>. QED
      BY <2>1, <3>1, CrashGoes DEF FocusHit
  <2>2. CASE desk.life[x] # "none"
    BY <1>0, <2>2, FocusXGoes, LifeKept DEF FocusHit
  <2>. QED
    BY <2>1, <2>2
<1>3. ASSUME NEW o \in Outputs, NEW x \in XWindows, XPointerOver(o, x)
      PROVE  Goes(desk, desk')
  <2>1. desk' \in {desk, FocusHit(x)}
    BY <1>3 DEF XPointerOver
  <2>. QED
    BY <1>2, <2>1, GoesNowhere
<1>4. ASSUME NEW x \in XWindows, NEW grab \in BOOLEAN, XPointerPress(x, grab)
      PROVE  Goes(desk, desk')
  <2> DEFINE d == FocusHit(x)
             g == d.grabbed \cup {x}
  <2>1. desk' = d \/ (desk' = [d EXCEPT !.grabbed = g] /\ d.crashed = "no")
    BY <1>4 DEF XPointerPress
  <2>2. /\ Goes(desk, d) /\ Session(d)
        /\ d.crashed = "no" => d.life[x] # "none"
    BY <1>2 DEF Goes
  <2> HIDE DEF d
  <2>3. CASE d.crashed = "no"
    <3>1. g \in SUBSET AllWindows /\ \A w \in g : d.life[w] # "none"
      <4>1. d.grabbed \in SUBSET AllWindows /\ x \in AllWindows
        BY <2>2 DEF Session, DeskType, AllWindows
      <4>2. \A w \in d.grabbed : d.life[w] # "none"
        BY <2>2 DEF Session, Lists
      <4>. QED
        BY <2>2, <2>3, <4>1, <4>2
    <3> HIDE DEF g
    <3>2. Goes(d, [d EXCEPT !.grabbed = g])
      BY <2>2, <3>1, GrabGoes
    <3>. QED
      BY <2>1, <2>2, <3>2, GoesOn
  <2>. QED
    BY <2>1, <2>2, <2>3
<1>5. ASSUME NEW o \in Outputs, PointerElsewhere(o) \/ PointerDrag(o)
      PROVE  Goes(desk, desk')
  <2>1. CASE PointerElsewhere(o)
    BY <2>1, GoesNowhere DEF PointerElsewhere
  <2>2. CASE PointerDrag(o)
    <3> DEFINE I == {k \in 1 .. Len(desk.order) : desk.order[k] \in desk.grabbed}
               i == IF I # {} THEN Min(I) ELSE 0
               t == desk.order[i]
    <3>1. /\ \/ desk' = desk
             \/ /\ i # 0
                /\ desk' = [desk EXCEPT !.lit = IF desk.focused = t THEN @ \cup {t}
                                                ELSE @ \ {t}]
      BY <2>2 DEF PointerDrag, SelectInSeq
    <3>2. i # 0 => t \in Toplevels
      <4>1. /\ Len(desk.order) \in Nat
            /\ \A k \in 1 .. Len(desk.order) : desk.order[k] \in Toplevels
        BY <1>0, LenProperties, ElementOfSeq DEF Typed
      <4>2. CASE I # {}
        <5>1. I \in SUBSET Nat
          BY <4>1
        <5>2. Min(I) \in I
          BY <4>2, <5>1, MinFacts
        <5>. QED
          BY <4>1, <4>2, <5>2
      <4>. QED
        BY <4>2
    <3> HIDE DEF i, t
    <3>3. CASE desk' = desk
      BY <3>3, GoesNowhere
    <3>4. CASE t \in Toplevels /\ desk' = [desk EXCEPT
                  !.lit = IF desk.focused = t THEN @ \cup {t} ELSE @ \ {t}]
      <4>1. Redrawn(desk, desk')
        BY <1>0, <3>4 DEF Redrawn, Carried, DeskType
      <4>. QED
        BY <4>1, RedrawnGoes
    <3>. QED
      BY <3>1, <3>2, <3>3, <3>4
  <2>. QED
    BY <1>5, <2>1, <2>2
<1>6. ASSUME NEW t \in Toplevels, NEW s \in SurfacesOf(t), NEW grab \in BOOLEAN,
             PointerPress(t, s, grab)
      PROVE  Goes(desk, desk')
  <2> DEFINE d == FocusToplevel(desk, t, s)
  <2>1. desk.life[t] = "mapped"
    BY <1>6, <1>n DEF PointerPress, CanHit
  <2>2. desk' \in {d, BeginInteractive(d, t)}
    BY <1>6 DEF PointerPress
  <2>3. Goes(desk, d)
    BY <1>0, <2>1, FocusToplevelGoes
  <2>4. d.life[t] # "none"
    BY <1>0, <2>1, LifeKept
  <2> HIDE DEF d
  <2>5. Goes(d, BeginInteractive(d, t))
    BY <2>3, <2>4, BeginInteractiveGoes DEF Goes
  <2>. QED
    BY <2>2, <2>3, <2>5, GoesOn
<1>7. CASE PointerRelease
  BY <1>7, GrabGoes DEF PointerRelease
<1>. QED
  BY <1>1, <1>3, <1>4, <1>5, <1>6, <1>7 DEF PointerNext

-----------------------------------------------------------------------------
(* What the windows do not see: the pointer and the lock's surfaces are on *)
(* outputs that are plugged in, whatever is unplugged.                     *)
Sides ==
    /\ cursor \in Connected \cup {NoOutput}
    /\ {keyboard, locked, activeLock} \subseteq BOOLEAN
    /\ covered \subseteq Outputs
    /\ lockSurfaces \subseteq Connected
    /\ layers \subseteq Layers

LEMMA ScreensStay ==
    ASSUME UNCHANGED screenVars
    PROVE  Connected' = Connected /\ active' = active /\ treeOn' = treeOn
BY DEF screenVars, Connected

LEMMA ClientSides ==
    ASSUME ClientNext \/ XClientNext \/ Frame
    PROVE  UNCHANGED <<screenVars, cursor, keyboard, locked>>
BY DEF ClientNext, NewXdgToplevel, MapToplevel, UnmapToplevel, CommitToplevel,
       DestroyToplevel, SurfaceGone, RequestMove, XClientNext, NewXWindow,
       XAssociate, XMap, XDissociate, XSurfaceGone, XDestroy, XRequestMove,
       Frame, OnlyDesk

LEMMA UserSides ==
    ASSUME WorkspacesInv, FocusInv, cursor \in Connected \cup {NoOutput}, UserNext
    PROVE  /\ Connected' = Connected
           /\ cursor' \in Connected \cup {NoOutput}
           /\ keyboard' \in {keyboard, TRUE, FALSE} /\ locked' = locked
<1>1. ASSUME NEW o, NEW i, Switch(o, i)
      PROVE  Connected' = Connected /\ UNCHANGED <<cursor, keyboard, locked>>
  BY <1>1 DEF Switch, SwitchOutput, Connected
<1>2. CASE ScratchpadKey \/ (\E i \in Index : IpcWorkspace(i) \/ SwitchKey(i))
  BY <1>1, <1>2 DEF ScratchpadKey, IpcWorkspace, SwitchKey
<1>3. ASSUME \/ \E i \in Index : MoveFocused(i)
             \/ CycleFocusKey
             \/ \E l : SetLayout(l)
             \/ ToggleLayoutKey \/ ToggleFloatingKey \/ SwapMasterKey \/ ResizeKey
      PROVE  UNCHANGED <<screenVars, cursor, keyboard, locked>>
  BY <1>3 DEF MoveFocused, CycleFocusKey, SetLayout, ToggleLayoutKey,
              ToggleFloatingKey, SwapMasterKey, ResizeKey, OnlyDesk
<1>4. CASE \/ \E o \in Outputs : FocusAdjacentKey(o)
           \/ Reload \/ KeyboardJoins \/ KeyboardLeaves
  BY <1>4, ScreensStay DEF FocusAdjacentKey, Reload, KeyboardJoins, KeyboardLeaves
<1>. QED
  BY <1>2, <1>3, <1>4, ScreensStay DEF UserNext

LEMMA LockSides ==
    ASSUME Sides, Connected \subseteq Outputs, LockNext
    PROVE  Sides' /\ UNCHANGED <<screenVars, keyboard, layers>>
<1>1. CASE NewSessionLock
  BY <1>1, ScreensStay DEF NewSessionLock, Sides
<1>2. ASSUME NEW o \in Outputs, NewLockSurface(o) \/ LockSurfaceGone(o)
      PROVE  Sides' /\ UNCHANGED <<screenVars, keyboard, layers>>
  BY <1>2, ScreensStay DEF NewLockSurface, LockSurfaceGone, OnlyDesk, Sides
<1>3. CASE Unlock
  BY <1>3, ScreensStay DEF Unlock, Sides
<1>4. CASE LockClientDies
  BY <1>4, ScreensStay DEF LockClientDies, OnlyDesk, Sides
<1>. QED
  BY <1>1, <1>2, <1>3, <1>4 DEF LockNext

LEMMA LayerSides ==
    ASSUME Sides, LayerNext
    PROVE  Sides' /\ UNCHANGED <<screenVars, keyboard, locked, activeLock>>
BY ScreensStay DEF LayerNext, LayerMap, LayerUnmap, LayerCommit, OnlyDesk, lockVars,
                   Sides

LEMMA PointerSides ==
    ASSUME Sides, PointerNext
    PROVE  Sides' /\ UNCHANGED <<screenVars, keyboard, locked, activeLock, layers>>
<1>1. /\ UNCHANGED <<screenVars, keyboard, locked, lockVars, layers>>
      /\ cursor' \in Connected \cup {cursor}
  BY DEF PointerNext, PointerOver, XPointerOver, PointerElsewhere, PointerDrag,
         PointerPress, XPointerPress, PointerRelease, OnlyDesk
<1>. QED
  BY <1>1, ScreensStay DEF Sides, lockVars

LEMMA WindowsSides ==
    ASSUME WorkspacesInv, WorkspacesInv', FocusInv, Sides, WindowsStep
    PROVE  Sides' /\ UNCHANGED <<locked, activeLock, layers>>
<1>1. /\ UNCHANGED <<activeLock, layers>>
      /\ lockSurfaces' \subseteq Connected'
      /\ covered' \subseteq covered \cup Connected'
  BY DEF WindowsStep
<1>2. Connected' \subseteq Outputs
  BY LenProperties, ElementOfSeq DEF WorkspacesInv, WorkspacesTypeOK, Connected, ToSet
<1>3. /\ cursor' \in Connected' \cup {NoOutput}
      /\ keyboard' \in {keyboard, TRUE, FALSE} /\ locked' = locked
  <2>1. CASE ClientNext \/ XClientNext \/ Frame
    BY <2>1, ClientSides, ScreensStay DEF Sides
  <2>2. ASSUME NEW o, PlugOutput(o) \/ UnplugOutput(o)
        PROVE  <1>3!:
    BY <2>2 DEF PlugOutput, UnplugOutput
  <2>3. CASE UserNext
    BY <2>3, UserSides DEF Sides
  <2>. QED
    BY <2>1, <2>2, <2>3 DEF WindowsStep, OutputNext
<1>. QED
  BY <1>1, <1>2, <1>3 DEF Sides

-----------------------------------------------------------------------------
(* The seat is on a surface of a window, of the lock or of the shell, or   *)
(* on none.                                                                *)
Somewhere(s) ==
    \/ s = NoSurface \/ OnWindow(s)
    \/ \E o \in Outputs : s = Lock(o)
    \/ \E l \in Layers : s = Layer(l)

SessionInv == Session(desk) /\ Sides /\ Somewhere(desk.seat)

LEMMA LockSeat ==
    ASSUME Session(desk), LockNext
    PROVE  \/ desk'.seat \in {desk.seat, NoSurface}
           \/ \E o \in Outputs : desk'.seat = Lock(o)
<1>1. desk \in DeskType
  BY DEF Session
<1>. QED
  BY <1>1 DEF LockNext, NewSessionLock, ClearSeat, NewLockSurface, LockSurfaceGone,
              Unlock, LockClientDies, DeskType

LEMMA LayerSeat ==
    ASSUME WorkspacesInv, FocusInv, Session(desk), LayerNext
    PROVE  \/ desk'.seat \in {desk.seat, NoSurface}
           \/ \E l \in Layers : desk'.seat = Layer(l)
<1>1. PICK l \in Layers : LayerMap(l) \/ LayerUnmap(l) \/ LayerCommit(l)
  BY DEF LayerNext
<1> DEFINE d == Recalculate(desk, LayerOutput[l])
<1>2. d \in DeskType /\ d.seat = desk.seat
  BY TypedHere, RecalculateGoes, ArrangeKeeps DEF Goes, Session, Keeps, Recalculate
<1>3. \/ desk' = d
      \/ \E s \in {NoSurface, Layer(l), d.seat} : desk' = [d EXCEPT !.seat = s]
  BY <1>1 DEF LayerMap, LayerUnmap, LayerCommit
<1> HIDE DEF d
<1>. QED
  BY <1>2, <1>3 DEF DeskType

LEMMA SessionInit == DesktopInit => SessionInv
<1> SUFFICES ASSUME DesktopInit
             PROVE  SessionInv
  OBVIOUS
<1>1. NoSurface \in Surfaces /\ 0 \in Index
  BY OtherSurface, WorkspacesAssumption DEF Index
<1>2. /\ desk \in DeskType
      /\ desk.life = [t \in AllWindows |-> "none"]
      /\ desk.toplevels = [w \in Index |-> << >>]
      /\ desk.order = << >> /\ desk.xorder = << >> /\ desk.serials = << >>
      /\ desk.grabbed = {} /\ desk.seat = NoSurface
      /\ desk.crashed = "no" /\ desk.focused = NoToplevel
  BY <1>1 DEF DesktopInit, WindowsInit, DeskType
<1>3. ToSet(<< >>) = {} /\ IsInjective(<< >>)
  BY EmptySeq, LenProperties DEF ToSet, IsInjective
<1>4. Lists(desk)
  BY <1>2, <1>3 DEF Lists, AllWindows
<1>5. NewestSeated(desk)
  BY <1>2, <1>3 DEF NewestSeated
<1>6. Sides
  BY <1>3 DEF DesktopInit, WindowsInit, WorkspacesInit, Sides, Connected
<1>. QED
  BY <1>2, <1>4, <1>5, <1>6 DEF SessionInv, Session, Lit, NullTiled, Somewhere

LEMMA WindowsGoes ==
    ASSUME WorkspacesInv, FocusInv, Session(desk), desk.crashed = "no", WindowsStep
    PROVE  Goes(desk, desk')
BY ClientGoes, XClientGoes, OutputGoes, UserGoes DEF WindowsStep

LEMMA SessionStep ==
    WorkspacesInv /\ WorkspacesInv' /\ FocusInv /\ SessionInv /\ [DesktopNext]_desktopVars
        => SessionInv'
<1> SUFFICES ASSUME WorkspacesInv, WorkspacesInv', FocusInv, SessionInv,
                    [DesktopNext]_desktopVars
             PROVE  SessionInv'
  OBVIOUS
<1>0. Session(desk) /\ Sides /\ Somewhere(desk.seat)
  BY DEF SessionInv
<1>1. CASE UNCHANGED desktopVars
  <2>1. desk' = desk /\ UNCHANGED screenVars
    BY <1>1 DEF desktopVars, windowVars
  <2>2. Sides'
    BY <1>0, <1>1, <2>1, ScreensStay DEF desktopVars, windowVars, lockVars, Sides
  <2>. QED
    BY <1>0, <2>1, <2>2 DEF SessionInv
<1>2. CASE DesktopNext
  <2>1. Session(desk')
    BY <1>0, <1>2, WindowsGoes, LockSession, LayerSession, PointerGoes
       DEF DesktopNext, Goes
  <2>2. Connected \subseteq Outputs
    BY ConnectedSubset DEF WorkspacesInv
  <2>3. Sides'
    BY <1>0, <1>2, <2>2, WindowsSides, LockSides, LayerSides, PointerSides
       DEF DesktopNext
  <2>4. Somewhere(desk'.seat)
    <3>1. CASE WindowsStep \/ PointerNext
      BY <1>0, <1>2, <3>1, WindowsGoes, PointerGoes
         DEF DesktopNext, Goes, SeatMoves, Somewhere
    <3>2. CASE LockNext \/ LayerNext
      BY <1>0, <3>2, LockSeat, LayerSeat DEF Somewhere
    <3>. QED
      BY <1>2, <3>1, <3>2 DEF DesktopNext
  <2>. QED
    BY <2>1, <2>3, <2>4 DEF SessionInv
<1>. QED
  BY <1>1, <1>2

(* Nothing that happens to the windows, the outputs, the pointer, the lock *)
(* or the layer surfaces breaks the session's invariant.                   *)
THEOREM SessionKept == DesktopSpec => []SessionInv
BY SessionInit, SessionStep, FocusKept, DesktopWorkspacesInv, PTL DEF DesktopSpec

(* Every variable of the session keeps its type: workspace numbers index   *)
(* the array, lists hold windows, the seat is on a surface that may exist, *)
(* and the pointer and the lock surfaces are on outputs plugged in.        *)
THEOREM SessionTypeCorrect == DesktopSpec => []DesktopTypeOK
<1>1. WorkspacesInv /\ SessionInv => DesktopTypeOK
  BY DEF WorkspacesInv, SessionInv, Session, Sides, DesktopTypeOK
<1>. QED
  BY <1>1, SessionKept, DesktopWorkspacesInv, PTL

(* server->toplevels, ->xwayland_surfaces and the lists of the workspaces, *)
(* which five functions link and unlink by hand, hold exactly the living   *)
(* windows, each once, on the workspace it believes it is on; a grab never *)
(* outlives its window.                                                    *)
THEOREM ListsHoldTheLiving == DesktopSpec => []ListsAgree
<1>1. SessionInv => ListsAgree
  <2> SUFFICES ASSUME SessionInv
               PROVE  ListsAgree
    OBVIOUS
  <2>1. /\ Lists(desk) /\ desk.order \in Seq(Toplevels) /\ desk.xorder \in Seq(XWindows)
        /\ desk.grabbed \in SUBSET AllWindows
    BY DEF SessionInv, Session, DeskType
  <2>2. ToSet(desk.order \o desk.xorder) = ToSet(desk.order) \cup ToSet(desk.xorder)
    BY <2>1, ConcatFacts
  <2>3. ToSet(desk.order \o desk.xorder) = {t \in AllWindows : desk.life[t] # "none"}
    BY <2>1, <2>2 DEF Lists, AllWindows
  <2>. QED
    BY <2>1, <2>3 DEF Lists, ListsAgree
<1>. QED
  BY <1>1, SessionKept, PTL

(* The window that commands act on is drawn with the active border,        *)
(* whatever arrangement, commit, tick, drag or reload drew it last.        *)
THEOREM FocusIsLit == DesktopSpec => []FocusedLit
<1>1. SessionInv => FocusedLit
  BY DEF SessionInv, Session, Lit, FocusedLit
<1>. QED
  BY <1>1, SessionKept, PTL

(* A NULL output or list iterator is followed only in a tiled layout.      *)
THEOREM NullOnlyTiled == DesktopSpec => []NullNeedsTiling
<1>1. SessionInv => NullNeedsTiling
  BY DEF SessionInv, Session, NullTiled, NullNeedsTiling
<1>. QED
  BY <1>1, SessionKept, PTL

(* action_cycle_focus(): if the seat is on the window it picks, that one   *)
(* was focused last; being also the one focused longest ago, it is alone.  *)
LEMMA StuckUnserved ==
    ASSUME SessionInv, ~KeyboardMayLeave, CycleStuck
    PROVE  Oldest(desk) \notin ToSet(desk.serials)
<1> DEFINE d == desk
           w == Oldest(d)
           list == d.order \o d.xorder
           I == {i \in 1 .. Len(list) :
                   d.life[list[i]] = "mapped" /\ list[i] \notin ToSet(d.serials)}
           J == {j \in 1 .. Len(d.serials) : d.life[d.serials[j]] = "mapped"}
           new == IF I # {} THEN Min(I) ELSE 0
           old == IF J # {} THEN Max(J) ELSE 0
<1> SUFFICES ASSUME w \in ToSet(d.serials),
                    NEW v \in AllWindows, d.life[v] = "mapped", v # w,
                    d.seat \in {Main(w), XMain(w)}
             PROVE  FALSE
  BY DEF CycleStuck
<1>1. /\ Lists(d) /\ NewestSeated(d)
      /\ d.order \in Seq(Toplevels) /\ d.xorder \in Seq(XWindows)
      /\ d.serials \in Seq(AllWindows)
  BY DEF SessionInv, Session, DeskType
<1>2. /\ Len(d.serials) \in Nat /\ DOMAIN d.serials = 1 .. Len(d.serials)
      /\ \A k \in 1 .. Len(d.serials) : d.serials[k] \in AllWindows
      /\ ToSet(d.serials) = {d.serials[k] : k \in 1 .. Len(d.serials)}
  BY <1>1, LenProperties, ElementOfSeq DEF ToSet
<1>3. ToSet(list) = ToSet(d.order) \cup ToSet(d.xorder)
  BY <1>1, ConcatFacts
<1>4. ToSet(list) = {u \in AllWindows : d.life[u] # "none"}
  BY <1>1, <1>3 DEF Lists, AllWindows
<1>5. Len(list) \in Nat /\ ToSet(list) = {list[k] : k \in 1 .. Len(list)}
  <2>1. d.order \in Seq(AllWindows) /\ d.xorder \in Seq(AllWindows)
    BY <1>1, SeqMonotonic DEF AllWindows
  <2>2. list \in Seq(AllWindows)
    BY <2>1, ConcatProperties
  <2>. QED
    BY <2>2, LenProperties DEF ToSet
<1> HIDE DEF list
<1>6. w = IF new # 0 THEN list[new]
          ELSE IF old # 0 THEN d.serials[old] ELSE NoToplevel
  BY DEF Oldest, SelectInSeq, SelectLastInSeq, list
<1> HIDE DEF w
<1>7. w \in AllWindows /\ d.serials[1] = w
  BY <1>1, <1>2 DEF NewestSeated
<1>8. new = 0 /\ I = {}
  <2>1. I \in SUBSET Nat /\ \A i \in I : i # 0
    BY <1>5
  <2>2. \A i \in I : list[i] \notin ToSet(d.serials)
    OBVIOUS
  <2> HIDE DEF I
  <2>3. I # {} => Min(I) \in I
    BY <2>1, MinFacts
  <2>. QED
    BY <1>6, <2>1, <2>2, <2>3
<1>9. v \in ToSet(d.serials)
  <2>1. v \in ToSet(list)
    BY <1>4
  <2>2. PICK k \in 1 .. Len(list) : v = list[k]
    BY <1>5, <2>1
  <2>. QED
    BY <1>8, <2>2
<1>10. PICK k \in 1 .. Len(d.serials) : v = d.serials[k]
  BY <1>2, <1>9
<1>11. k \in J /\ k > 1
  BY <1>2, <1>7, <1>10
<1>12. Max(J) \in J /\ Max(J) >= k
  <2>1. J \in SUBSET (0 .. Len(d.serials))
    BY <1>2
  <2> HIDE DEF J
  <2>. QED
    BY <1>2, <1>11, <2>1, MaxFacts
<1>13. w = d.serials[Max(J)]
  <2>1. Max(J) # 0 /\ J # {}
    BY <1>2, <1>11, <1>12
  <2>. QED
    BY <1>6, <1>8, <2>1
<1>14. Max(J) \in 1 .. Len(d.serials) /\ 1 \in 1 .. Len(d.serials) /\ Max(J) # 1
  BY <1>2, <1>11, <1>12
<1>15. \A i, j \in 1 .. Len(d.serials) : d.serials[i] = d.serials[j] => i = j
  BY <1>1, <1>2 DEF Lists, IsInjective
<1> HIDE DEF I, J, d
<1>. QED
  BY <1>7, <1>13, <1>14, <1>15

LEMMA StuckReborn ==
    ASSUME FocusInv, SessionInv, ~KeyboardMayLeave
    PROVE  StuckOnlyWhenReborn
<1> DEFINE w == Oldest(desk)
<1> SUFFICES ASSUME CycleStuck
             PROVE  /\ w \in Toplevels \ ToSet(desk.serials)
                    /\ desk.focused = NoToplevel /\ desk.xfocused = NoToplevel
  BY DEF StuckOnlyWhenReborn
<1>1. w \notin ToSet(desk.serials) /\ desk.seat \in {Main(w), XMain(w)}
  BY StuckUnserved DEF CycleStuck
<1>2. /\ Focus(desk) /\ Served(desk) /\ SeatAgrees(desk) /\ Typed(desk)
      /\ desk.seat \in Surfaces
  BY DEF FocusInv, Focus, Typed
<1>3. /\ desk.seat = Main(w) => w \in Toplevels
      /\ desk.seat = XMain(w) => w \in XWindows
  BY <1>2 DEF Surfaces, NoSurface, Main, XMain
<1>4. desk.life[w] = "mapped"
  <2>1. w # NoToplevel
    BY <1>1, <1>3, WindowsAssumption
  <2>. QED
    BY <1>2, <2>1, OldestMapped
<1> HIDE DEF w
<1>5. desk.seat # XMain(w)
  BY <1>1, <1>2, <1>3, <1>4 DEF Served, Focus
<1>6. w \in Toplevels /\ desk.seat \in SurfacesOf(w)
  BY <1>1, <1>3, <1>5 DEF SurfacesOf
<1>7. desk.focused \in {w, NoToplevel} /\ desk.xfocused = NoToplevel
  BY <1>2, <1>6 DEF SeatAgrees
<1>8. desk.focused # w
  BY <1>1, <1>2, <1>6, WindowsAssumption DEF Served
<1>. QED
  BY <1>1, <1>6, <1>7, <1>8 DEF w

(* action_cycle_focus(), keybind.c:19: as long as the seat keeps its       *)
(* keyboard, Super+Tab with two windows to choose from picks the one that  *)
(* already has the keyboard, and so gets stuck, in one case only: a native *)
(* window on a wl_surface that kept the keyboard from an earlier window    *)
(* and that was never focused itself, while no window is focused at all.   *)
THEOREM SuperTabStuckOnlyReborn ==
    ASSUME ~KeyboardMayLeave
    PROVE  DesktopSpec => []StuckOnlyWhenReborn
<1>1. FocusInv /\ SessionInv => StuckOnlyWhenReborn
  BY StuckReborn
<1>. QED
  BY <1>1, FocusKept, SessionKept, PTL
-----------------------------------------------------------------------------
(* Only kum_workspace_switch() hides a workspace while the outputs stay.   *)
LEMMA OnlySwitchHides ==
    ASSUME WorkspacesInv, FocusInv, SessionInv, [DesktopNext]_desktopVars,
           Connected' = Connected
    PROVE  treeOn' = treeOn \/ \E o, i : Switch(o, i)
<1>1. CASE UNCHANGED desktopVars
  BY <1>1 DEF desktopVars, windowVars, screenVars
<1>2. CASE LockNext \/ LayerNext \/ PointerNext
  <2>1. Connected \subseteq Outputs
    BY ConnectedSubset DEF WorkspacesInv
  <2>2. UNCHANGED screenVars
    BY <1>2, <2>1, LockSides, LayerSides, PointerSides DEF SessionInv
  <2>. QED
    BY <2>2, ScreensStay
<1>3. CASE ClientNext \/ XClientNext \/ Frame
  BY <1>3, ClientSides, ScreensStay
<1>4. ASSUME NEW o \in Outputs, PlugOutput(o) \/ UnplugOutput(o)
      PROVE  FALSE
  <2>1. CASE PlugOutput(o)
    <3>1. o \notin Connected /\ outputs' = <<o>> \o outputs /\ outputs \in Seq(Outputs)
      BY <2>1 DEF PlugOutput, NewOutput, WorkspacesInv, WorkspacesTypeOK
    <3>2. o \in ToSet(<<o>> \o outputs)
      BY <3>1, InsertFacts
    <3>. QED
      BY <3>1, <3>2 DEF Connected
  <2>2. CASE UnplugOutput(o)
    <3>1. OutputDestroyed(o)
      BY <2>2 DEF UnplugOutput
    <3>. QED
      BY <3>1, OutputDestroyedInv DEF OutputDestroyed
  <2>. QED
    BY <1>4, <2>1, <2>2
<1>5. CASE UserNext
  <2>1. CASE ScratchpadKey \/ (\E i \in Index : IpcWorkspace(i) \/ SwitchKey(i))
    BY <2>1 DEF ScratchpadKey, IpcWorkspace, SwitchKey
  <2>2. CASE \/ \E i \in Index : MoveFocused(i)
             \/ CycleFocusKey
             \/ \E o \in Outputs : FocusAdjacentKey(o)
             \/ \E l \in Layouts : SetLayout(l)
             \/ ToggleLayoutKey \/ ToggleFloatingKey \/ SwapMasterKey \/ ResizeKey
             \/ Reload \/ KeyboardJoins \/ KeyboardLeaves
    BY <2>2 DEF MoveFocused, CycleFocusKey, FocusAdjacentKey, SetLayout,
                ToggleLayoutKey, ToggleFloatingKey, SwapMasterKey, ResizeKey,
                Reload, KeyboardJoins, KeyboardLeaves, OnlyDesk, screenVars
  <2>. QED
    BY <1>5, <2>1, <2>2 DEF UserNext
<1>. QED
  BY <1>1, <1>2, <1>3, <1>4, <1>5 DEF DesktopNext, WindowsStep, OutputNext

(* Whoever is focused is not on workspace w, and the seat is on no window  *)
(* of it.                                                                  *)
Away(d, w) ==
    /\ d.focused # NoToplevel => d.workspace[d.focused] # w
    /\ d.xfocused # NoToplevel => d.workspace[d.xfocused] # w

KeysAway(d, w) ==
    \A t \in AllWindows :
        d.workspace[t] = w => d.seat \notin SurfacesOf(t) \cup {XMain(t)}

LEMMA LeftBehind ==
    ASSUME NEW d, d \in DeskType, NEW w
    PROVE  Away(LeaveWorkspaceX(LeaveWorkspace(d, w), w), w)
<1> DEFINE e == LeaveWorkspace(d, w)
           f == LeaveWorkspaceX(e, w)
<1>1. /\ e \in DeskType
      /\ e.focused # NoToplevel => e.workspace[e.focused] # w
  BY OtherSurface DEF LeaveWorkspace, ClearFocus, DeskType
<1> HIDE DEF e
<1>2. /\ f.focused = e.focused /\ f.workspace = e.workspace
      /\ f.xfocused # NoToplevel => f.workspace[f.xfocused] # w
  BY <1>1 DEF LeaveWorkspaceX, ClearXFocus, DeskType
<1> HIDE DEF f
<1>3. Away(f, w)
  BY <1>1, <1>2 DEF Away
<1>. QED
  BY <1>3 DEF e, f

(* A surface of a window, main or child, is the surface of no other.       *)
LEMMA SurfaceOwner ==
    ASSUME NEW s \in Surfaces, NEW t, s \in SurfacesOf(t) \cup {XMain(t)}
    PROVE  \/ t \in Toplevels /\ s \in SurfacesOf(t)
           \/ t \in XWindows /\ s = XMain(t)
<1>1. s = Main(t) \/ (t \in Parents /\ s = Child(t)) \/ s = XMain(t)
  BY DEF SurfacesOf
<1>2. CASE s = Main(t)
  BY <1>2 DEF Surfaces, NoSurface, Main, SurfacesOf
<1>3. CASE t \in Parents /\ s = Child(t)
  BY <1>3, WindowsAssumption DEF SurfacesOf
<1>4. CASE s = XMain(t)
  BY <1>4 DEF Surfaces, NoSurface, XMain
<1>. QED
  BY <1>1, <1>2, <1>3, <1>4

(* The seat agrees with the pointers, so that taking it off the focused    *)
(* windows of w takes it off all of w; not so when none is focused.        *)
LEMMA LeftKeys ==
    ASSUME NEW d, d \in DeskType, Focus(d), SeatAgrees(d), NEW w,
           d.focused # NoToplevel \/ d.xfocused # NoToplevel
    PROVE  KeysAway(LeaveWorkspaceX(LeaveWorkspace(d, w), w), w)
<1> DEFINE e == LeaveWorkspace(d, w)
           f == LeaveWorkspaceX(e, w)
<1>1. /\ f.workspace = d.workspace
      /\ f.seat = IF (d.focused # NoToplevel /\ d.workspace[d.focused] = w)
                      \/ (d.xfocused # NoToplevel /\ d.workspace[d.xfocused] = w)
                   THEN NoSurface ELSE d.seat
  <2>1. /\ e \in DeskType /\ e.workspace = d.workspace /\ e.xfocused = d.xfocused
        /\ e.seat = IF d.focused # NoToplevel /\ d.workspace[d.focused] = w
                   THEN NoSurface ELSE d.seat
    BY OtherSurface DEF LeaveWorkspace, ClearFocus, DeskType
  <2> HIDE DEF e
  <2>2. /\ f.workspace = e.workspace
        /\ f.seat = IF e.xfocused # NoToplevel /\ e.workspace[e.xfocused] = w
                   THEN NoSurface ELSE e.seat
    BY <2>1 DEF LeaveWorkspaceX, ClearXFocus, DeskType
  <2>. QED
    BY <2>1, <2>2
<1> HIDE DEF e, f
<1>2. d.seat \in Surfaces /\ NoSurface \in Surfaces
  BY OtherSurface DEF DeskType
<1> SUFFICES ASSUME NEW t \in AllWindows, d.workspace[t] = w,
                    f.seat \in SurfacesOf(t) \cup {XMain(t)}
             PROVE  FALSE
  BY <1>1 DEF KeysAway, e, f
<1>3. f.seat # NoSurface
  BY <1>2, SurfaceOwner, WindowSurface, XSurface
<1>4. d.seat \in SurfacesOf(t) \cup {XMain(t)}
  BY <1>1, <1>3
<1>5. \/ t \in Toplevels /\ d.seat \in SurfacesOf(t)
      \/ t \in XWindows /\ d.seat = XMain(t)
  BY <1>2, <1>4, SurfaceOwner
<1>6. t \in {d.focused, d.xfocused} /\ t # NoToplevel
  BY <1>5, WindowsAssumption DEF SeatAgrees, AllWindows
<1>. QED
  BY <1>1, <1>3, <1>6

LEMMA FirstKeepsKeysAway ==
    ASSUME NEW d, Session(d), Focus(d), NEW w, KeysAway(d, w), NEW i \in Index, i # w
    PROVE  KeysAway(FocusFirst(d, i), w)
<1>0. d \in DeskType /\ Typed(d) /\ Lists(d)
  BY DEF Session, Focus
<1>1. ASSUME NEW e, e.workspace = d.workspace, NEW u \in AllWindows,
             d.workspace[u] = i, NEW s, s \in Surfaces,
             s \in SurfacesOf(u) \cup {XMain(u)}, e.seat \in {d.seat, s}
      PROVE  KeysAway(e, w)
  <2> SUFFICES ASSUME NEW t \in AllWindows, d.workspace[t] = w
               PROVE  s \notin SurfacesOf(t) \cup {XMain(t)}
    BY <1>1 DEF KeysAway
  <2>1. t # u
    BY <1>1
  <2>2. CASE u \in Toplevels /\ s \in SurfacesOf(u)
    BY <2>1, <2>2, WindowSurface
  <2>3. CASE u \in XWindows /\ s = XMain(u)
    BY <2>1, <2>3, XSurface
  <2>. QED
    BY <1>1, <2>2, <2>3, SurfaceOwner
<1>2. CASE FocusFirst(d, i) \in {d, [d EXCEPT !.crashed = "bare"]}
  BY <1>0, <1>2 DEF KeysAway, DeskType
<1>3. ASSUME NEW t \in ToSet(d.toplevels[i]) \cap Toplevels
      PROVE  KeysAway(FocusToplevel(d, t, Main(t)), w)
  <2> DEFINE e == FocusToplevel(d, t, Main(t))
  <2>1. d.workspace[t] = i /\ t \in AllWindows
    BY <1>0 DEF Lists, AllWindows
  <2>2. e.workspace = d.workspace /\ e.seat \in {d.seat, Main(t)}
    BY <1>0 DEF FocusToplevel, DeskType
  <2>3. Main(t) \in Surfaces /\ Main(t) \in SurfacesOf(t)
    BY WindowSurface DEF SurfacesOf
  <2> HIDE DEF e
  <2>4. KeysAway(e, w)
    BY <1>1, <2>1, <2>2, <2>3
  <2>. QED
    BY <2>4 DEF e
<1>4. ASSUME NEW x \in ToSet(d.xorder) \cap XWindows, d.life[x] = "mapped",
             d.workspace[x] = i
      PROVE  KeysAway(FocusX(d, x), w)
  <2> DEFINE e == FocusX(d, x)
  <2>1. e.workspace = d.workspace /\ e.seat \in {d.seat, XMain(x)}
    BY <1>0, <1>4 DEF FocusX, DeskType
  <2>2. XMain(x) \in Surfaces /\ x \in AllWindows
    BY XSurface DEF AllWindows
  <2> HIDE DEF e
  <2>3. KeysAway(e, w)
    BY <1>1, <1>4, <2>1, <2>2
  <2>. QED
    BY <2>3 DEF e
<1>. QED
  BY <1>0, <1>2, <1>3, <1>4, FocusFirstFinds

LEMMA FirstIsAway ==
    ASSUME NEW d, Session(d), Focus(d), NEW w, Away(d, w), NEW i \in Index, i # w
    PROVE  Away(FocusFirst(d, i), w)
<1>0. d \in DeskType /\ Typed(d) /\ Lists(d)
  BY DEF Session, Focus
<1>1. CASE FocusFirst(d, i) \in {d, [d EXCEPT !.crashed = "bare"]}
  BY <1>0, <1>1 DEF Away, DeskType
<1>2. ASSUME NEW t \in ToSet(d.toplevels[i]) \cap Toplevels
      PROVE  Away(FocusToplevel(d, t, Main(t)), w)
  <2> DEFINE e == FocusToplevel(d, t, Main(t))
  <2>1. d.workspace[t] = i /\ t # NoToplevel
    BY <1>0, WindowsAssumption DEF Lists
  <2>2. \/ e = d
        \/ e.focused = t /\ e.xfocused = NoToplevel /\ e.workspace = d.workspace
    BY <1>0 DEF FocusToplevel, DeskType
  <2> HIDE DEF e
  <2>3. Away(e, w)
    BY <2>1, <2>2 DEF Away
  <2>. QED
    BY <2>3 DEF e
<1>3. ASSUME NEW x \in ToSet(d.xorder) \cap XWindows, d.life[x] = "mapped",
             d.workspace[x] = i
      PROVE  Away(FocusX(d, x), w)
  <2> DEFINE e == FocusX(d, x)
  <2>1. \/ e = d
        \/ e.focused = NoToplevel /\ e.xfocused = x /\ e.workspace = d.workspace
    BY <1>0, <1>3 DEF FocusX, DeskType
  <2> HIDE DEF e
  <2>2. Away(e, w)
    BY <1>3, <2>1 DEF Away
  <2>. QED
    BY <2>2 DEF e
<1>. QED
  BY <1>0, <1>1, <1>2, <1>3, FocusFirstFinds

(* kum_workspace_switch(), workspace.c:172: as long as the seat keeps its  *)
(* keyboard, switching takes the focus off the windows of the workspace it *)
(* hides, native or X11, and gives it to none of them; and if there was a  *)
(* focused window at all, no key reaches a hidden one.                     *)
THEOREM HidingUnfocuses ==
    ASSUME ~KeyboardMayLeave
    PROVE  DesktopSpec => HiddenLosesFocus
<1> DEFINE gone(w) == {t \in AllWindows : desk'.workspace[t] = w}
           Lost(w) ==
              /\ gone(w) \cap {desk'.focused, desk'.xfocused} = {}
              /\ {desk.focused, desk.xfocused} # {NoToplevel} =>
                    \A t \in gone(w) : desk'.seat \notin SurfacesOf(t) \cup {XMain(t)}
<1>1. WorkspacesInv /\ FocusInv /\ SessionInv /\ [DesktopNext]_desktopVars
        => [Connected' = Connected => \A w \in treeOn \ treeOn' : Lost(w)]_desktopVars
  <2> SUFFICES ASSUME WorkspacesInv, FocusInv, SessionInv, [DesktopNext]_desktopVars,
                      Connected' = Connected, NEW w \in treeOn \ treeOn'
               PROVE  Lost(w)
    OBVIOUS
  <2>1. PICK o, i : Switch(o, i)
    BY OnlySwitchHides
  <2> DEFINE e == LeaveWorkspace(desk, active[o])
             left == LeaveWorkspaceX(e, active[o])
  <2>2. /\ w = active[o] /\ i # w /\ i \in Index
        /\ desk' = FocusFirst(left, i)
    BY <2>1 DEF Switch, SwitchOutput
  <2>3. Focus(desk) /\ SeatAgrees(desk) /\ Session(desk) /\ desk \in DeskType
    BY DEF FocusInv, Focus, SessionInv, Session
  <2>4. /\ Away(left, w)
        /\ {desk.focused, desk.xfocused} # {NoToplevel} => KeysAway(left, w)
    BY <2>2, <2>3, LeftBehind, LeftKeys
  <2>5. Focus(e) /\ Session(e)
    BY <2>3, LeaveFocus, LeaveGoes DEF Goes
  <2> HIDE DEF e
  <2>6. Focus(left) /\ Session(left)
    BY <2>5, LeaveFocus, LeaveGoes DEF Goes
  <2> HIDE DEF left
  <2>7. Away(desk', w)
    BY <2>2, <2>4, <2>6, FirstIsAway
  <2>8. {desk.focused, desk.xfocused} # {NoToplevel} => KeysAway(desk', w)
    BY <2>2, <2>4, <2>6, FirstKeepsKeysAway
  <2>9. NoToplevel \notin AllWindows
    BY WindowsAssumption DEF AllWindows
  <2>. QED
    BY <2>7, <2>8, <2>9 DEF Away, KeysAway
<1>. QED
  BY <1>1, SessionKept, FocusKept, DesktopWorkspacesInv, PTL
     DEF DesktopSpec, HiddenLosesFocus

-----------------------------------------------------------------------------
(* Who has the keyboard, and what becomes of it, as Keyboard.tla sees them *)
HolderOf(s) ==
    IF s = NoSurface THEN "nobody"
    ELSE IF s[1] \in {"layer", "lock"} THEN s[1] ELSE s[2]

LockState ==
    IF ~locked THEN "open" ELSE IF activeLock THEN "locked" ELSE "orphaned"

LEMMA WindowHolds ==
    ASSUME NEW s, OnWindow(s)
    PROVE  HolderOf(s) \in AllWindows
<1>1. CASE \E t \in Toplevels : s \in SurfacesOf(t)
  <2>1. PICK t \in Toplevels : s = Main(t) \/ s = Child(t)
    BY <1>1 DEF SurfacesOf
  <2>2. HolderOf(s) = t
    BY <2>1 DEF HolderOf, Main, Child, NoSurface
  <2>. QED
    BY <2>2 DEF AllWindows
<1>2. CASE \E x \in XWindows : s = XMain(x)
  <2>1. PICK x \in XWindows : s = XMain(x)
    BY <1>2
  <2>2. HolderOf(s) = x
    BY <2>1 DEF HolderOf, XMain, NoSurface
  <2>. QED
    BY <2>2 DEF AllWindows
<1>. QED
  BY <1>1, <1>2 DEF OnWindow

LEMMA ShellHolds ==
    /\ HolderOf(NoSurface) = "nobody"
    /\ \A l : HolderOf(Layer(l)) = "layer"
    /\ \A o : HolderOf(Lock(o)) = "lock"
BY DEF HolderOf, NoSurface, Layer, Lock

(* A handler that is not the lock's gives the keyboard to a window of an   *)
(* open session, takes it away, or leaves it.                              *)
LEMMA SeatMovesKeyboard ==
    ASSUME SeatMoves(desk, desk'), locked' = locked, activeLock' = activeLock
    PROVE  [Seat!KeyboardNext]_<<Holder, LockState>>
<1>1. Holder = HolderOf(desk.seat) /\ Holder' = HolderOf(desk'.seat)
  BY DEF Holder, HolderOf
<1>2. LockState' = LockState
  BY DEF LockState
<1>3. CASE desk'.seat = desk.seat
  BY <1>1, <1>2, <1>3
<1>4. CASE desk'.seat = NoSurface
  BY <1>1, <1>2, <1>4, ShellHolds
     DEF Seat!KeyboardNext, Seat!Take, LockState
<1>5. CASE ~locked /\ OnWindow(desk'.seat)
  <2>1. HolderOf(desk'.seat) \in AllWindows /\ LockState = "open"
    BY <1>5, WindowHolds DEF LockState
  <2>. QED
    BY <1>1, <1>2, <2>1 DEF Seat!KeyboardNext, Seat!Give, LockState
<1>. QED
  BY <1>3, <1>4, <1>5 DEF SeatMoves

LEMMA LockKeyboard ==
    ASSUME FocusInv, SessionInv, LockNext
    PROVE  [Seat!KeyboardNext]_<<Holder, LockState>>
<1>1. Holder = HolderOf(desk.seat) /\ Holder' = HolderOf(desk'.seat)
  BY DEF Holder, HolderOf
<1>2. desk \in DeskType /\ (activeLock => locked) /\ (locked => ~OnWindow(desk.seat))
  BY DEF SessionInv, Session, FocusInv, Focus
<1>3. CASE NewSessionLock
  <2>1. /\ LockState = "open" /\ LockState' = "locked"
        /\ desk'.seat = NoSurface
    BY <1>2, <1>3 DEF NewSessionLock, ClearSeat, LockState, DeskType
  <2>. QED
    BY <1>1, <2>1, ShellHolds DEF Seat!KeyboardNext, Seat!Lock, LockState
<1>4. ASSUME NEW o \in Outputs, NewLockSurface(o)
      PROVE  Seat!KeyboardNext
  <2>1. /\ LockState = "locked" /\ LockState' = "locked"
        /\ desk'.seat = Lock(o)
    BY <1>2, <1>4 DEF NewLockSurface, OnlyDesk, LockState, DeskType
  <2>. QED
    BY <1>1, <2>1, ShellHolds DEF Seat!KeyboardNext, Seat!GiveLockScreen, LockState
<1>5. ASSUME NEW o \in Outputs, LockSurfaceGone(o)
      PROVE  [Seat!KeyboardNext]_<<Holder, LockState>>
  <2>1. /\ locked' = locked /\ activeLock' = activeLock
        /\ desk'.seat \in {desk.seat, NoSurface}
    BY <1>2, <1>5 DEF LockSurfaceGone, OnlyDesk, DeskType
  <2>. QED
    BY <2>1, SeatMovesKeyboard DEF SeatMoves
<1>6. CASE Unlock
  <2>1. /\ LockState = "locked" /\ LockState' = "open"
        /\ desk'.seat = NoSurface
    BY <1>2, <1>6 DEF Unlock, LockState, DeskType
  <2>. QED
    BY <1>1, <2>1, ShellHolds DEF Seat!KeyboardNext, Seat!Unlock, LockState
<1>7. CASE LockClientDies
  <2>1. /\ LockState = "locked" /\ LockState' = "orphaned"
        /\ desk'.seat = IF desk.seat \in {Lock(o) : o \in Outputs} THEN NoSurface
                        ELSE desk.seat
    BY <1>2, <1>7 DEF LockClientDies, OnlyDesk, LockState, DeskType
  <2>2. Holder' = IF Holder = "lock" THEN "nobody" ELSE Holder
    <3>1. \/ desk.seat = NoSurface
          \/ \E o \in Outputs : desk.seat = Lock(o)
          \/ \E l \in Layers : desk.seat = Layer(l)
      BY <1>2, <2>1 DEF SessionInv, Somewhere, LockState
    <3>2. CASE \E o \in Outputs : desk.seat = Lock(o)
      BY <1>1, <2>1, <3>2, ShellHolds
    <3>3. CASE desk.seat = NoSurface \/ \E l \in Layers : desk.seat = Layer(l)
      BY <1>1, <2>1, <3>3, ShellHolds, LockSurface
    <3>. QED
      BY <3>1, <3>2, <3>3
  <2>. QED
    BY <2>1, <2>2 DEF Seat!KeyboardNext, Seat!Orphan, LockState
<1>. QED
  BY <1>3, <1>4, <1>5, <1>6, <1>7 DEF LockNext

LEMMA LayerKeyboard ==
    ASSUME WorkspacesInv, FocusInv, SessionInv, LayerNext
    PROVE  [Seat!KeyboardNext]_<<Holder, LockState>>
<1>1. Holder = HolderOf(desk.seat) /\ Holder' = HolderOf(desk'.seat)
  BY DEF Holder, HolderOf
<1>2. locked' = locked /\ activeLock' = activeLock
  BY LayerSides DEF SessionInv
<1>3. \/ desk'.seat \in {desk.seat, NoSurface}
      \/ \E l \in Layers : desk'.seat = Layer(l)
  BY LayerSeat DEF SessionInv
<1>4. CASE desk'.seat \in {desk.seat, NoSurface}
  BY <1>2, <1>4, SeatMovesKeyboard DEF SeatMoves
<1>5. CASE \E l \in Layers : desk'.seat = Layer(l)
  BY <1>1, <1>2, <1>5, ShellHolds DEF Seat!KeyboardNext, Seat!GiveLayerShell, LockState
<1>. QED
  BY <1>3, <1>4, <1>5

(* The seat and the session lock do what Keyboard.tla promises: a window   *)
(* is given the keyboard only in an open session, and only the client that *)
(* holds the lock ends it (sessionlock.c:4-9, 111-114), by whichever of    *)
(* the handlers of seven files the seat is moved.                          *)
THEOREM KeyboardImplemented == DesktopSpec => ImplementsKeyboard
<1>1. DesktopInit => Seat!KeyboardInit
  BY DEF DesktopInit, WindowsInit, Seat!KeyboardInit, Holder
<1>2. WorkspacesInv /\ WorkspacesInv' /\ FocusInv /\ SessionInv
        /\ [DesktopNext]_desktopVars => [Seat!KeyboardNext]_<<Holder, LockState>>
  <2> SUFFICES ASSUME WorkspacesInv, WorkspacesInv', FocusInv, SessionInv,
                      [DesktopNext]_desktopVars
               PROVE  [Seat!KeyboardNext]_<<Holder, LockState>>
    OBVIOUS
  <2>1. CASE UNCHANGED desktopVars
    BY <2>1 DEF desktopVars, windowVars, lockVars, Holder, LockState
  <2>2. CASE WindowsStep /\ desk.crashed = "no"
    BY <2>2, WindowsGoes, WindowsSides, SeatMovesKeyboard DEF SessionInv, Goes
  <2>3. CASE PointerNext
    BY <2>3, PointerGoes, PointerSides, SeatMovesKeyboard DEF SessionInv, Goes
  <2>4. CASE LockNext \/ LayerNext
    BY <2>4, LockKeyboard, LayerKeyboard
  <2>. QED
    BY <2>1, <2>2, <2>3, <2>4 DEF DesktopNext
<1>. QED
  BY <1>1, <1>2, SessionKept, FocusKept, DesktopWorkspacesInv, PTL
     DEF DesktopSpec, ImplementsKeyboard, Seat!KeyboardSpec, Seat!keyboardVars, LockState
=============================================================================

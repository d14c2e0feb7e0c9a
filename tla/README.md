# Verification of KumDE

TLA+ models of KumDE, a Wayland compositor built on wlroots (`src/src/`) with
a family of small client programs (`src/kumbar`, `src/kumclip`, `src/kumlock`,
...), the TLC runs that check them, and TLAPS proofs of what matters most for
every number of outputs, workspaces and windows. Paths below are relative to
the repository; `PROJECT.json` lists components, runs, mutants, hazards,
findings and theorems in machine-readable form, and maps each definition to
the lines it models.

    tlc -workers 2 -config MCLock.cfg MCDesktop.tla     # one run
    tlapm DesktopProofs.tla                             # one module of proofs

## 1. The system

**kumde** is one process, one thread and one event loop. Everything it does is
a handler: of a client's request, of an input device, of an output (new, frame,
destroyed), of a line on the IPC socket, of SIGHUP. A handler runs to its end
before the next starts (the signal handler excepted), so one handler is one
action of the models. The clients are processes of their own, and talk to kumde
over buffered streams.

| Component | State | Operations | What makes it correct |
|---|---|---|---|
| Outputs and workspaces (`output.c`, `workspace.c`) | list of outputs; active and previous workspace of each; scene tree per workspace | plug, unplug (another output takes the workspace over), switch, swap | no workspace on two outputs; a tree is enabled exactly while shown; pressing twice returns |
| Windows (`toplevel.c`, `focus.c`, `border.c`, `tiling.c`, `keybind.c`, `rules.c`) | two intrusive lists with a workspace index per window; life cycle; `server->focused` and the seat's surface; border; animation; floating; grab | create, map, commit, unmap, destroy; focus; move; arrange; swap master; toggle; drag | lists agree with the indices; focus is on a mapped window on show; seat and `focused` agree; no NULL followed |
| Session lock (`sessionlock.c`) | `locked`, `active_lock`, rectangles, lock surfaces | lock, lock surface, unlock, client death | no window gets keys while locked; fails secure |
| Layer shell (`layer.c`) | mapped layer surfaces | map, unmap, commit, destroy | the keyboard is given back |
| Pointer, keyboards (`input.c`) | output under the pointer; keyboard of the seat | motion, button, drag, key | hovering and clicking respect the lock |
| IPC (`ipc.c`) | clients, their partial lines | commands, broadcasts, snapshot on connect | a reader converges to the truth |
| Configuration (`conf.c`, `outputcfg.c`, `rules.c`, `server.c`) | `cfg`, rules | load, reload, SIGHUP | a reload leaves a consistent desktop |
| XWayland windows (`xwayland.c`) | a list of their own per workspace and for the server; `focused_xwayland`; a scene tree per associated surface | create, associate, map, unmap, dissociate, destroy; move; drag | never two focused windows; a missing surface is not followed; a freed window is not found again |
| Keyboard layouts, animations, decorations | `kblayout.c`; `easing.c`; `shadow.c`, `corners.c` | | |
| kumbar | one bar per output, its mirror of the workspaces, the IPC connection | start, connect, reconnect, read events, click | shows what the output shows |
| kumclip | held content, `is_owner`, pending offer | events of the data-control device, blocking read, claim, send | the last copy survives its application |
| kumlock | lock object, lock surfaces, typed input | start, key, unlock, output events | prompts on every output; password unlocks |
| kumnotify | slots of notifications, the one under the pointer, the times left | receive, show, evict, click, expire, close | stacked without gaps; each goes for a reason and in time; a click dismisses what was clicked |
| kumlauncher | entries, the query, those that match, selection and scroll position, the picture | collect, type, delete, page, point, wheel, launch | selection in view; the list is what matches; what is launched is what was seen |
| kumidle, kumshot, kumwall | three timers; region; image | | |

**Interactions.** Windows call into workspaces (`kum_workspace_arrange`,
`kum_workspace_move_toplevel`), workspaces into focus (`kum_focus_toplevel`),
outputs into both; the lock is a flag that every focus path has to look at;
layer surfaces take the keyboard behind the lock's back; workspace switches
broadcast on the IPC socket, which kumbar mirrors; kumidle starts kumlock,
which asks the session lock of kumde. Native and X11 windows share the seat and
the workspaces, and have a focus pointer each; most paths that set one must
clear the other.

**Hard behaviours.** Sequences of legal handlers in orders nobody tried
(unmap then remap, move then switch, unplug while focused); references kept
across handlers (`server->focused`, the output under the pointer, list links);
requests and events in flight in both directions (kumclip, kumlock); a client
that dies at any point (lock client); a socket that is full; events that arrive
twice (`wl_output.done`); freed memory that the scene graph still shows (X11
windows) or whose address is used again (kumnotify). `PROJECT.json` lists forty
hazards at their lines, with the properties that cover each, or why none does.

## 2. The modules

    Screens  <--implements--  Workspaces  <--EXTENDS--  Windows  <--EXTENDS--  Desktop --implements--> Keyboard
                                  ^                                                 ^
                                  +-- Bar (EXTENDS)          MCDesktop (EXTENDS) ---+
    ListLemmas --> WorkspacesProofs --> DesktopProofs, BarProofs
    KumClip <-- ClipProofs                 KumLauncher <-- MCLauncher, LauncherProofs
    KumLock <-- MCLocker, LockProofs       KumNotify <-- MCNotify, NotifyProofs

* **`Screens`** (abstract): what outputs promise. A partial, injective map
  from outputs to workspaces; plugging, unplugging, and showing a workspace,
  which swaps when another output has it.
* **`Workspaces`**: `output.c` and `workspace.c` without windows. `outputs` is
  the `wl_list` (head first, because `migrate_workspace` picks the head),
  `active`/`previous` the two indices, `treeOn` the enabled scene trees.
  Actions `NewOutput`, `SwitchOutput`, `PressKey`, `OutputDestroyed`. The
  property `ImplementsScreens` is the refinement mapping.
* **`Windows`**: everything a window can do or have done to it. `desk` is one
  record, because the functions of the code are composed: `MapToplevel` is
  `toplevel_map()` calling `kum_rules_apply`, `kum_workspace_move_toplevel`,
  `kum_workspace_arrange` and `kum_focus_toplevel`, each an operator from desk
  to desk with the same name. Windows are native (`Toplevels`) or of X11
  (`XWindows`). Fields: `life` (none, bare, unmapped, mapped; an X11 window is
  bare while it has no `wl_surface`), `workspace`, `toplevels` (list per
  workspace), `order` and `xorder` (`server->toplevels`,
  `server->xwayland_surfaces`), `serials` (the windows with a `focus_serial`,
  highest first), `layout`, `floating`, `focused` and
  `xfocused` (`server->focused`, `server->focused_xwayland`), `seat` (the surface
  with the keyboard), `lit` (border last drawn active), `hidden` (scene node
  disabled or transparent), `anim`, `grabbed`, `ghosts` (X11 windows that were
  freed while the scene still shows their surface), and `crashed`: `"null"` when
  a NULL pointer is followed, `"bare"` when it is the surface of an X11 window
  that has none, `"freed"` when freed memory is used; after that no action is
  enabled.
* **`Desktop`**: adds the session lock (`activeLock`, `covered`,
  `lockSurfaces`), layer surfaces and the pointer (`PointerOver`,
  `PointerDrag`, `PointerPress`, ...), and states the properties of the whole.
* **`Keyboard`** (abstract): who may have the keyboard, with the session open,
  locked or orphaned. `ImplementsKeyboard` maps `Desktop` to it.
* **`Bar`**: `Workspaces` with the socket between kumde and one kumbar. Every
  broadcasting step appends lines, those that fit; kumbar connects late (gets
  the snapshot of `ipc_send_initial_state`), reads as much as its buffer takes,
  puts lines together across reads, and can be started again at any time. Lines
  are cut in pieces, two for an index and three for a title. Occupancy and title
  events only take room. Of a line that lost its middle, the index read may be any
  that `sscanf()` could find.
* **`KumClip`**: kumclip, the compositor and the applications, with the streams
  of events and requests between them. `reading` is the blocking `clip_read()`,
  during which no event is dispatched. Mime types are a number of attempts.
* **`KumLock`**: kumlock against `sessionlock.c`, with `outbox` (written, not
  flushed), `wire` (flushed) and `inbox` per locker. A locker starts with the
  two roundtrips of `main()`, of which the second is modelled, since outputs
  may be plugged in during it. A message that names an output which is gone stays
  on its way and is ignored where it arrives. Keys are Return, BackSpace, Escape, or a
  character, which is the sequence of its UTF-8 bytes.
* **`KumLauncher`**: `main()` collecting its list of programs, one desktop file and
  one program of PATH at a time, in any order and as often as directories hold the
  same, up to the limit of the list (`Collect`; `stage` is how far `main()` is), and
  any order `qsort()` may leave equal entries in; then the query, byte by byte, the
  filtered list, selection and scroll position under keys, wheel and pointer, and
  the picture last drawn, which a failing `shm_open()` leaves stale.
* **`KumNotify`**: the daemon's loop cut at its three stages (`Poll`, `Dispatch`
  of each event, `Receive`, `Expire`), with the datagrams and the events under
  way, a clock of relative times, and the compositor, which hears late of what
  was destroyed: an event may be about a notification that is gone.
* **`MCDesktop`**, **`MCLocker`**, **`MCLauncher`**, **`MCNotify`**: values a
  `.cfg` cannot write. `Bar` and `KumClip` are run as they are.
* **`ListLemmas`**, **`WorkspacesProofs`**, **`DesktopProofs`**,
  **`BarProofs`**, **`ClipProofs`**, **`NotifyProofs`**, **`LauncherProofs`**,
  **`LockProofs`**: section 5.

Operators called "Mutant of ..." are broken variants of a definition, used by
nothing in the models; each property must fail when its mutant replaces the
original (`PROJECT.json`, "mutants").

**Assumed of wlroots and libwayland**, from how the code uses them: a window's
scene node is enabled on map and disabled on unmap before kumde's handlers run;
destroying a surface takes the seat off it; destroying the seat's keyboard
leaves the seat without one; an X11 window is
unmapped and dissociated before it is destroyed, and Xwayland destroys its
`wl_surface` at any time after that, which takes it off the scene and the seat; a
lock surface goes with its output; a second lock
surface for one output ends the client; `unlock_and_destroy` runs the unlock
handler, then the lock surfaces' and the lock's destroy handlers; a new
selection first cancels the old source, and a data-control client is told of
its own selections too; requests are flushed by `wl_display_dispatch()` and
roundtrips, and by nothing at exit; a hang-up discards requests not yet read.

## 3. The runs

Twelve runs, each one question.

| Run | Question | Bounds |
|---|---|---|
| `bar` | Do plugging, unplugging, switching and swapping keep workspaces, trees and previous workspaces right (`ActiveDistinct`, `TreeOnIffShown`, `PressTwiceReturns`, `ImplementsScreens`), and does a slow, late or restarted bar end up right (`ActiveFollowed`)? | 2 outputs, 3 workspaces, a socket of 6 pieces, reads of 4, 1 overflow |
| `tiling` | Do the hand-moved lists stay consistent, is the focused window lit, where can Super+Tab get stuck (`ListsAgree`, `FocusedLit`, `StuckOnlyWhenReborn`)? | 1 output, 2 workspaces, 2 native windows, floating and tile, rules |
| `xwayland` | Do both focus pointers and the seat name one mapped window (`FocusedMapped`, `SeatMatchesFocus`), does hiding take focus and keys away (`HiddenLosesFocus`), can NULL be followed without a tiled workspace (`NullNeedsTiling`), does Super+Tab pass between native and X11 windows (`StuckOnlyWhenReborn`)? | 1 output, 2 workspaces, 1 native window with a popup, 1 X11 window, floating and monocle, rules, animations, focus follows mouse |
| `lock` | Does the lock hold against everything that moves focus, outputs that come and go included (`LockedSeat`, `FocusedMapped`, `SeatOnMappedLayer`, `ImplementsKeyboard`)? | 2 outputs, 2 workspaces, 1 window, 1 layer surface, a lock client, a keyboard that may leave |
| `clip` | Is kumclip's idea of ownership right, can it block on itself, does it protect every copy (`OwnershipAgrees`, `NeverReadsItself`, `TakenOver`)? | 4 copies, 2 names per text |
| `locker` | Do racing lockers and hot-plugged outputs leave one holder with its prompts, every output prompted, and the refused locker gone (`HolderKeepsPrompts`, `EveryOutputPrompts`, `RefusedLeave`)? | 2 lockers, 1 output, 2 keys, 1 output change |
| `launcher` | Does the selection stay in view, is the list what matches and nothing twice, is what is launched what was seen (`SelectionInView`, `MatchesListed`, `NothingTwice`, `LaunchesWhatIsSeen`)? | 4 desktop files, 5 programs, 4 entries at most, 2 visible rows; queries of 3 bytes, one character of two |
| `notify` | Are notifications stacked, does each go for a reason and in the end, does a click dismiss the one clicked, is every message read (`Stacked`, `LeavesForReason`, `EveryOneGoes`, `ClickDismisses`, `EveryMessageRead`)? | 2 slots, 3 messages of 3 kinds, times of 1 and 2, 2 events under way, 1 late |
| `moved_window` | violation: section 4 | 1 output, 1 window |
| `x_bare` | violation: section 4 | 1 output, 1 native and 1 X11 window |
| `clip_race` | violation: section 4 | 3 copies, one of a type kumclip does not take |
| `password_unlocks` | violation: section 4 | 1 locker, 1 output, 2 keys |

Five type invariants are checked in these runs (`WorkspacesTypeOK`,
`DesktopTypeOK`, `KumClipTypeOK`, `BarTypeOK`, `KumLockTypeOK`; the last one also
says that the password never outgrows its buffer, `BarTypeOK` that the socket
never does).

**Why the bounds are enough.** Two outputs have a swap, a takeover and a last
one that goes; with three workspaces one is always free, so the fallback of
`next_free_workspace()` does not arise. A swap or a takeover beside a third,
uninvolved output is covered by the proofs, which are for any number. Two windows
give every order of two in every list; the handlers look at the focused window,
the head of a list and "any other". Two workspaces are one on show and one not;
with two outputs, both on show or one free after an unplug. One native and one X11
window are the least that make two focus pointers disagree. What a run leaves out
(layouts, rules, animations, the lock) is in another run of the same module;
combinations of everything are beyond TLC, which is what the proofs are for. The
socket of `bar` holds the snapshot of two outputs, six pieces, and a read takes
four, so reads end within lines and both buffers overflow. After an overflow
nothing is claimed of what the bar shows, and one is allowed (`MaxLosses`): with
more, nearly all states would be of bars known to be wrong. Two names for a text
instead of four give a first and a last attempt. One change of an output in
`locker` is enough for every race with the two roundtrips of a start; the password
is one character, so two keys are enough to type and confirm it. In `launcher`
lists are shorter and longer than the two visible rows, up to two pages; the limit
of four entries is met by desktop files with programs left, and by programs; in `notify` three messages for two slots make one eviction, whose
slot is used again while events about its former notification are under way.
`NumWorkspaces` is 9 in the code, `VISIBLE_ROWS` 10, `NOTIF_MAX` 8.

Every named bound (`MaxLosses`, `MaxKeys`, `MaxChanges`, `MaxSent`,
`MaxEvents`, `MaxLate`, `Copies`, `Lockers`) limits the environment, never the code;
`MaxLink`, `MaxRead`, `MaxQuery`, `MaxEntries`, `InputMax`, `Slots`, `VisibleRows` and `Duration` are smaller values of
constants of the code. `CHECK_DEADLOCK FALSE`
stands in the configurations because the systems may really stop: a compositor
that crashed does nothing, and a bounded environment runs out of copies, keys
and lockers. Symmetry of windows is used only with safety properties.

**Fairness.** The compositor models have none: their properties are safety.
`KumClip` assumes weak fairness of kumclip's and the compositor's event loops,
and that an application asked for its content writes or closes (the code
blocks for ever otherwise; see the hazard at `kumclip/src/main.c:64`); nobody
has to copy or quit. `KumNotify` assumes it of the daemon's loop and of the clock:
time passes, but neither the compositor nor a program has to do anything. `KumLock`
assumes it of the two event loops; nobody has to
start a locker, press a key or touch an output.

## 4. Findings

Four runs show the code doing other than the repository's README or a comment says.

| Run | Property | What happens |
|---|---|---|
| `moved_window` | `MovedWindowShows` | Map a window, move it to a workspace no output shows, switch to that workspace: the window's own scene node was disabled (`src/src/workspace.c:233`), only the workspace's tree is enabled, and the window stays invisible (`README.md:211`, "Move focused window to workspace"). |
| `x_bare` | `BareNeverFollowed` | Create an X11 window and press Super+Tab before its surface is associated, or after it is dissociated: `action_cycle_focus()` follows `xwayland_surface->surface`, which is NULL (`src/src/keybind.c:29`; five more loops do the same). The comment at `src/src/xwayland.c:340-344` says that the surface is NULL then and that what depends on it waits for the association; `README.md:231` has X11 windows in Super+Tab. |
| `clip_race` | `LastCopyPastes` | kumclip blocks in `clip_read()` on one selection; the user copies something else; the claim of the first then replaces the second, whose offer is skipped because `is_owner` is already true (`kumclip/src/main.c:152`, `:160`). Pasting gives the copy before the last (`README.md:295`). |
| `password_unlocks` | `PasswordUnlocks` | `attempt_unlock()` queues `unlock_and_destroy` and ends the loop; `main()` returns without a flush or roundtrip (`kumlock/src/main.c:245`, `:493`). kumde sees its lock client die and keeps the session locked (`README.md:285`). |

### Seen in counterexamples and in the code, with no run of their own

kumde:

* On an output that got its workspace from `next_free_workspace()`, the first
  second press goes to workspace 0, not back: `previous_workspace` starts as 0
  (`output.c`, `kum_new_output`; `keybind.c:88`; `README.md:210`).
* Moving the focus while its animation runs leaves the old window's border
  active: the tick redraws it as focused (`output.c:25`). `FocusedLit` is
  therefore about the focused window only. With `animations = false` the focus
  animation is started all the same (`toplevel.c:101`, `README.md:145`).
* After a window unmaps and maps again, the seat may already be on its surface,
  so `kum_focus_toplevel()` returns early (`toplevel.c:65`) and
  `server->focused` stays NULL: typing works, Close does nothing.
* `keyboard` may be missing (last keyboard unplugged): `server->focused` then
  moves without the seat. `SeatMatchesFocus` is run with a keyboard that stays.
* A window in the master swap goes to the tail of its list, and a floating or
  unmapped head makes the loop step from a NULL iterator (`tiling.c:18`).
* Dragging, mapping or toggling a window on a tiled workspace that no output
  shows follows a NULL output (`workspace.c:53`). `NullNeedsTiling` says that
  nothing else does.
* In that state switching to another workspace takes nothing away, because
  `kum_workspace_switch()` looks at `server->focused` only (`workspace.c:172`),
  and, if nothing on the workspace it shows takes the focus, the hidden window
  goes on receiving the keys. `HiddenLosesFocus` therefore speaks of the keys
  only if some window was focused before; of the two focus pointers it speaks
  always.
* Super+Tab can get stuck: a client destroys its `xdg_toplevel` and creates
  another on the same `wl_surface`, which still has the keyboard. Mapping it does
  not focus it, for the reason above, so its `focus_serial` stays 0, the lowest:
  `action_cycle_focus()` picks it at every press (`keybind.c:19`),
  `kum_focus_toplevel()` returns early again, and no other window is reached, where
  `README.md:204` says "Cycle window focus". TLC violates `~CycleStuck` in a few
  steps of two native windows; `StuckOnlyWhenReborn` says that there is no other way.
* X11 windows: mapping one does not focus it, nor does moving one focus another;
  its closing animation is never ticked; `output_destroy()` clears the native
  focus pointer only; and `xwayland_surface_destroy()` frees the window but not
  its scene tree, so hovering what is still drawn of it uses freed memory
  (`xwayland.c:83`, `crashed = "freed"`).
* `migrate_workspace()` hides the workspace the taking output was showing while
  the focus may be on it (`output.c:65`), which is why `HiddenLosesFocus` is
  about steps without a change of outputs.
* While locked: a layer surface that maps takes the keyboard (`layer.c:80`); the
  IPC's `workspace` and `move_to` clear the prompt's keyboard focus
  (`workspace.c:174`, `:241`); an output plugged in is not covered; the output
  with the focused prompt may be unplugged and no other prompt gets the keys
  (`sessionlock.c:72`); after the client's death no new lock is accepted
  (`sessionlock.c:125`).
* Unlocking with several lock surfaces destroys nodes twice (`sessionlock.c:22`,
  `:89`): `crashed = "freed"`.
* The last matching rule of the file wins, since rules are inserted at the head
  (`rules.c:79`), where `README.md:163` says the first; `pos:x,y` is split at
  its own comma (`rules.c:60`).
* Occupancy is not broadcast after a move, and is broadcast too early after a
  close (`workspace.c:269`, `toplevel.c:183`).
* SIGHUP runs the whole reload inside the signal handler (`server.c:14`); a line
  of the IPC protocol that arrives in two reads is parsed as two.

Programs:

* kumbar compares 25 characters of a 23-character literal and never recognises a
  window title (`kumbar/src/main.c:261`), and makes no bar for an output plugged
  in later. When it falls behind by two buffers, what does not fit behind the rest
  of a line is dropped from the middle of the stream (`:326`); after two such reads
  with long titles the buffer can be full without a newline, and then every event
  is dropped until kumbar is restarted. TLC reaches that state with one output and
  `MaxLosses = 3` (`Len(ibuf) = MaxRead`).
* kumlock: a second `wl_output.done` asks for a second lock surface, which ends
  kumlock with the session locked (`kumlock/src/main.c:404`); a second Return
  after the right password uses a NULL lock.
* kumclip would destroy an offer twice after a primary selection
  (`kumclip/src/main.c:142`, `:179`), but only under another compositor: kumde
  sets no primary selection (`server.c:186`), so the model has none. It blocks for ever in `read()` on an
  application that keeps its end of the pipe open (`:64`).
* kumlauncher: BackSpace deletes one byte, and a query cut inside a character is
  not drawn, so the rows vanish while Return still launches the selected one;
  Page Down over no results selects -1, which nothing uses; after the wheel a
  click launches the row under the pointer, not the one highlighted; events read
  together with the Return that ends the loop are still handled, so a program may
  be launched twice; the user's own `.desktop` directory is looked for at
  `.../applications/applications`; two launchers that draw at once share the name
  of a buffer and one of them keeps an old picture.
* kumnotify: `restack()` passes the margins in another order than `show()`;
  the pointer's surface is remembered after it is destroyed, and a click may
  dismiss a new notification at the same address; a message whose body is empty
  loses its urgency and time, one with no application name is not shown; when the
  compositor dies the loop spins.

## 5. The proofs

TLAPS checks every proof to its last leaf; nothing is assumed but these.

| Assumption | Says | Why the code justifies it |
|---|---|---|
| `WorkspacesAssumption` | at least one workspace | `KUM_WORKSPACE_COUNT` is 9 |
| `OutputsAssumption` | finitely many outputs, no more than workspaces | with ten outputs `next_free_workspace()` does fall back to workspace 0, and `ActiveDistinct` fails |
| `WindowsAssumption`, `DesktopAssumption` | constants have their types | |
| `BarAssumption` | the socket holds the initial state, two pieces for each output and two more; a buffer holds a line of three pieces | a socket holds some hundred kilobytes and the initial state takes less than one; `KUMBAR_IPC_BUF` is 512 bytes and a line at most 400 (`ipc.c:304`) |
| `LauncherAssumption` | constants have their types, at least one row | `VISIBLE_ROWS` is 10 |
| `KumClipAssumption` | constants have their types; no copy is named as kumclip or nothing is | names of the model |
| `NotifyAssumption` | constants have their types, at least one slot, a positive duration | `NOTIF_MAX` is 8, `NOTIF_DUR` 5000 |
| `KumLockAssumption` | finitely many outputs, a character is a sequence of bytes, a buffer of at least 2 bytes | `INPUT_MAX` is 256; with one byte the terminating zero would have no place after the first |

Three theorems, `SeatAndFocusAgree`, `SuperTabStuckOnlyReborn` and
`HidingUnfocuses`, have the hypothesis `~KeyboardMayLeave`: with a seat that loses
its keyboard the seat really does part from the focus
(`seat_handle_keyboard_destroy`), and the runs that allow it do not
list these properties.

**`ListLemmas`**: inserting and unlinking in a list without duplicates
(`InsertFacts`, `UnlinkFacts`, `UnlinkAny`), which element is first afterwards
(`UnlinkKeepsFirst`), `AppendFacts`, least elements of sets of naturals
(`LeastNatural`, `MinFacts`), and what taking the first message off a stream or
writing behind it leaves of the kinds of messages in it (`TailHolds`, `JoinHolds`,
`OneHolds`), on which the proofs of kumclip and kumlock rest.

**`WorkspacesProofs`**: `TypeCorrect`, `NeverShownTwice`, `TreesFollowOutputs`,
`SecondPressReturns`, `Implementation`. The inductive invariant is

    WorkspacesInv == WorkspacesTypeOK /\ ActiveDistinct /\ TreeOnIffShown

The conjuncts need each other. `ActiveDistinct` needs the type: that a new
output's workspace is free follows from a list without duplicates and the
counting lemma. `TreeOnIffShown` needs `ActiveDistinct`: hiding the workspace an
output leaves would put another output in the dark if it showed the same one. `SecondPressReturns` is proved
from the invariant alone, because a swap writes both outputs' previous
workspace. `Implementation` maps each action to a step of `Screens` or to a
stutter: unplugging is one abstract step although the code first takes the
workspace over and then forgets the output.

**`DesktopProofs`** opens with a lemma, `Composition`, that carries the results
above over to the whole session (`SessionNeverShownTwice` is stated). It says
nothing of the code: the actions of `Desktop` are composed with those of
`Workspaces` by conjunction, and leave its variables alone otherwise. The rest is about keyboard focus, for any
number of native and X11 windows, outputs and layer surfaces.

| Theorem | Says |
|---|---|
| `LockKeepsKeys` | no window has the keyboard while the session is locked |
| `FocusNeverDangles` | both focus pointers name mapped windows, and never two at once |
| `SeatAndFocusAgree` | the seat is on no window but the focused one, if the keyboard never leaves |
| `LayersLetGo` | a layer surface with the keyboard is mapped |
| `FocusKept` | the invariant all four follow from |

The inductive invariant is `FocusInv`, which is `Focus(desk)`, that an active lock
locks the session, and that the pointer is on an output or on none. `Focus(d)` is
a predicate of any desk, since handlers are compositions of functions: the fields
that focus depends on are typed; an X11 window that only the scene remembers is
not mapped (the pointer would otherwise focus it); both pointers are on mapped
windows, one of them on none; the seat is on no window while locked and on no lock
surface while not; a layer surface it is on is mapped; and, when the keyboard
never leaves, seat and pointers agree; and `Served(d)`: `serials` has no window
twice, and whoever is focused, or is an X11 window with the seat whose surface is
still its own, has a focus serial. The
conjuncts need each other: focus moves to windows found through the scene and the
lists, so that the pointers stay on mapped windows rests on the types and on what
is known of freed windows; and that the seat agrees with a pointer after an early
return of `kum_focus_toplevel()`, which looks at the seat alone, rests on the
agreement before.

The argument has three layers. `Keeps(d, e)`, a reflexive and transitive relation,
says that `e` has the focus, seat, lives and ghosts of `d`; `KeepsFocus` carries
`Focus` across it, and arranging, moving list links or animating are steps of this
kind. Each function that does move focus (`FocusToplevel`, `FocusX`, `ClearFocus`,
`FocusFirst`, `MoveToplevel`, `RulesApply`, ...) has one lemma from `Focus(d)` to
`Focus` of its result, and `LifeFocus` covers the changes in a window's life. Then
each family of actions (clients, X11, outputs, keys, keyboards, lock, layers,
pointer) has one lemma, whose cases are its actions.

The second half of **`DesktopProofs`**: everything else the runs check of the whole desktop, for any
number of windows, outputs, workspaces and layer surfaces.

| Theorem | Says |
|---|---|
| `SessionTypeCorrect` | `DesktopTypeOK` |
| `ListsHoldTheLiving` | the three kinds of linked lists hold the living windows, each once, and a workspace's list those on it |
| `FocusIsLit` | the focused window was last drawn with the active border |
| `NullOnlyTiled` | no NULL output is dereferenced unless some workspace is tiled |
| `SuperTabStuckOnlyReborn` | Super+Tab picks the window that has the keyboard, while there is another, only if it is a native one that was created on its surface anew and never focused, and no window is focused |
| `HidingUnfocuses` | no step that hides a workspace by switching leaves a focus pointer on it, or, if any window was focused, the keyboard |
| `KeyboardImplemented` | every step of the session is a step of `Keyboard` or a stutter |
| `SessionKept` | the invariant they follow from |

The inductive invariant is `SessionInv`: `Session(desk)`, that lock surfaces and the
cursor are on connected outputs, and that the seat is on a surface of a window, of
the lock or of the shell. `Session(d)` has these conjuncts, none inductive alone:

* `d \in DeskType`, with which a function is applied where it is defined;
* `Lists(d)`. It says more than `ListsAgree` does: native and X11 windows are
  kept apart, and `serials` has no duplicates, so that moving a window to its
  head is what it seems;
* `Lit(d)`;
* `NewestSeated(d)`, unless the keyboard may leave: if the window the seat is on
  ever was given a focus serial, it has the highest. `StuckOnlyWhenReborn` follows with `Served`: the
  window with the lowest serial is another one when there are two, unless the one
  with the seat has none, and then it is native and nothing is focused. A statement
  about the lowest alone is not inductive: a step that takes away a window changes
  which that is;
* `NullTiled(d)`.

Since handlers are compositions, the argument is again by functions: `Goes(d, e)`
says `Session(e)` and that the seat is where it was, or nowhere, or, in an open
session, on a window (`SeatMoves`). It is transitive (`GoesOn`), each function of
`Windows` has a lemma `Session(d) => Goes(d, f(d))`, and `QuietGoes` serves all
those that leave the lists and the seat alone. `SeatMoves` is what the refinement
needs: locking, unlocking and layers apart, a step moves the abstract holder to
none or to an application, and to the latter only in an open session, which is
what `Keyboard` allows. `HiddenLosesFocus` is about
one step: `OnlySwitchHides` shows that with the outputs unchanged only
`kum_workspace_switch()` disables a tree, and `FirstIsAway` that what it focuses
after that is on another workspace. Of the keys it needs the invariant before the
step: the seat is on no window but the focused one (`SeatAgrees`), so clearing the
keyboard when the focused window is hidden takes it off every hidden one
(`LeftKeys`), and `FirstKeepsKeysAway` says that what is focused next does not
bring it back.

**`BarProofs`**: `BarTypeCorrect` and `BarsRight` (`BarTypeOK`, `ActiveFollowed`), for
any outputs and workspaces and any sizes of the two buffers. A lemma,
`BarComposition`, carries the theorems of `WorkspacesProofs` over.
The invariant is `BarTypeOK` and, while a bar is connected that has lost nothing,

    Whole(Stream) /\ ActiveFollowed

where `Stream` is what is left of a line in kumbar's buffer followed by what is in
the socket. `Whole` says that it consists of lines, each from its first piece to
its last. `ActiveFollowed` is not inductive without it: it speaks of the lines that
end in the socket, and one of them may have begun in the buffer. Two facts carry the
proof. Of a buffer that is in step, every line that begins like one about an output is
whole, two pieces long, and about the output it seems to be about (`NewsBegin`,
`AboutIsNews`), so that of all that `Shows` allows of damaged lines only one index is
left (`ShowsWhatReads`). And reading the first pieces behind the rest of the last line
and the others later is reading them all (`ReadsInTwo`), wherever the read ends. The
steps of kumde append to the stream: a swap tells of two outputs, the right two by
`WorkspacesInv` (`BothTold`; the workspace a swap takes is shown by one other output
only), the others of one or none. That the snapshot fits into the socket rests on
`BarAssumption` and on there being no output twice in the list (`SnapshotFacts`).

**`ClipProofs`**: `ClipTypeCorrect`, `OwnershipRight` and `OwnSelectionUnread`
(`OwnershipAgrees`, `NeverReadsItself`), for any copies and any number of formats.
`ClipInv` speaks of the two streams as well as of the two ends:

* `ReadingKept`: a request to receive is on its way only for the read that
  `clip_read()` is in, and what is read is a copy that was made;
* `OneToken`: `is_owner` is set exactly while one of three things is there: the
  request for the selection on its way, the selection itself, or the `cancelled`
  event on its way; and never two of them. That `is_owner` agrees with the
  selection when nothing is on its way is this, with the streams empty;
* `NewsInOrder`: news of kumclip's own selection are ahead of the `cancelled`
  that ends it, so that they are read while `is_owner` is set and skipped. This
  is why it never reads itself, and it rests on the order of the stream.

**`NotifyProofs`**: `StackedKept`, `ClicksHit`, `LeaversHaveReason` (`Stacked`,
`ClickDismisses`, `LeavesForReason`), for any messages, slots and times.
`NotifyInv`:

* `Apart`: ids are given once, each is in one slot, and none is later than the
  clock allows;
* `Placed`: `top` is the number of slots after it that are taken, what `restack()`
  computes. `Stacked` follows by counting (these numbers are distinct and are all
  those below their number), and is not inductive: it does not say which
  notification is where, which the next `restack()` goes by;
* `Heard`: no event is about an id not given yet. Ids are handed out when a
  datagram is read; without this a notification could be born with a click on its
  way to it;
* `Stream`: each button event on its way will, when it is handled, find the
  pointer on its notification, or that notification gone. The pointer kumnotify
  has is followed along the stream: `Feels(e, k, n, act, p)` says that after `k`
  events it takes `n` to be under it. Each of the loop's stages moves this along:
  a dispatch takes one event off (`TailFeels`), the compositor adds one, a
  dismissal takes a notification out.

**`LauncherProofs`**: `NeverOutOfView` and `ListsWhatMatches`, for any files and
programs, any keys and any number of rows. The inductive invariant `LauncherInv`
says that once `main()` is in its loop `filtered` is `Filtered(query)`, that before
it is empty and nothing drawn, and that the selection is in view.
`Filtered` names, for each place in the list, the entry with that many entries
ahead of it; that there is one rests on `Ahead` being a strict total order
(`AheadOrders`): an entry has fewer ahead of it than one it is ahead of
(`AheadGrows`), so the numbers are distinct, all below the number of matches, and
by counting every place is taken (`PlacesTaken`). That the selection stays in view
needs the handlers' guards and the invariant together: Page Up from the top row and
Page Down near the end both rely on the scroll position being right before.

`LaunchedWasSeen` (`LaunchesWhatIsSeen`) needs a second invariant, `DrawnKept`:
while kumlauncher runs, what is on the screen is the picture of its state unless
the last drawing failed. Every handler that changes the list, the selection or the
scroll position draws; `PointerMotion` draws only if the row changes; and
launching leaves the state alone.

`ListsNothingTwice` (`NothingTwice`) needs that desktop entries are all there
before the first program is read, for `collect_path_entries()` compares a program
with the entries before it only, and `parse_desktop_file()` compares names, not
commands. The invariant adds that in stage "files" every entry is a desktop entry;
`CollectsOnce` is its step: adding a file, adding a program and sorting keep a list
without duplicates so.

**`LockProofs`**: `LockTypeCorrect` and `PromptsKept` (`KumLockTypeOK`,
`HolderKeepsPrompts`) and `LockedForGood`, for any lockers, outputs, characters
and keys. The invariant `LockInv` says, besides the types, what may be on its way
to and from a locker in each of its states (`Talk`):

* a locker that has not been started has nothing under way, and one in its first
  roundtrips has only asked for outputs: it has no lock object and does not hold the
  lock, so that no key reaches it and `wl_output.done` makes it ask for no lock
  surface before it has asked for the lock;
* while it starts, of the `sync` request and the answer there is one at most, and
  afterwards none: a second answer would make a locker that was told to leave run,
  and ask for the lock, again;
* a message names an output that is plugged in (`Unplug` voids the others), so that
  a lock surface is never made for one that is gone;
* `unlock_and_destroy` is written by one who leaves and is never on the wire, since
  only a starting or running locker flushes. `LockedForGood` follows: once locked,
  the session stays locked whatever is typed. The finding `password_unlocks` is
  therefore the rule and not one unlucky schedule.

The streams have a lemma for each thing that is done to them (`TalkTaken`,
`TalkHeard`, `TalkTold`, `TalkWritten`, `TalkFlushed`, `TalkIgnored`, `TalkMoved`
for a change of state), and each action of `KumLock` one built on these.

**Only model-checked**: the liveness properties (`TakenOver`, `EveryOneGoes`,
`EveryMessageRead`, `EveryOutputPrompts`, `RefusedLeave`): the prover handles neither
fairness nor ENABLED. Every invariant, action property and refinement that a passing
run checks has a theorem.

## 6. Not modelled, and why

* Geometry, stacking order, usable areas, fullscreen and maximize, shadows and
  corners: data that no property here tells apart.
* XWayland's geometry, fullscreen, maximize, decorations and animations.
* Parsing of the configuration and of IPC lines; the reload's new constants
  (gaps, colours). `Reload` is modelled for what it does to the desktop, as an
  action of the event loop: that it really runs in a signal handler is a hazard
  no property covers yet.
* IPC: the splitting of lines, the list of clients, and a client that is freed by
  its own command (a hazard no property covers); occupancy in the bar, which is
  known to go wrong.
* Drawing in every program, the bytes a program reads from files and sockets.
* kumidle: three timers, each of which starts a program; that lockers are started
  at any time, also while one holds the lock, is part of `KumLock`.
* kumshot, kumwall: a region and pixels, read and written once.
* Activation and decoration state of windows, and the title broadcast's text.

## 7. Plan

Done: `Workspaces`, `Windows` with X11 windows, `Desktop` and their abstractions,
`Bar`, `KumClip`, `KumLock`, `KumLauncher`, `KumNotify`, and the proofs of
section 5. What is left, in this order:

1. `Ipc`: connections, partial lines, a client freed by its own command;
   occupancy in `Bar`, with the dots as a property.
2. The reload of SIGHUP between two steps of a handler that walks a list; `Rules`
   and `Config`: which rule wins, what a reload leaves behind.
3. `Layers`: usable area and exclusive zones as intervals; `Tiling`: that the
   tiles partition the area, over bounded sizes.
4. Keyboard layouts; kumidle's timers with `KumLock`; kumshot's region.

Runs that a new module makes redundant are merged rather than added to: `bar` took
over the run of `Workspaces`, `lock` and `xwayland` those about hot-plugging,
monocle and animations. Proofs that are left: the invariants of the new modules.

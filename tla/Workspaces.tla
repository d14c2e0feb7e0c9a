----------------------------- MODULE Workspaces -----------------------------
(***************************************************************************)
(* Outputs and the nine workspaces (src/output.c, src/workspace.c): which  *)
(* workspace each connected output shows, which one its "press again" key  *)
(* returns to, and which workspace trees of the scene graph are enabled.   *)
(* Windows, focus and the seat are added by Desktop.tla, which extends     *)
(* this module and performs these actions as part of its own.              *)
(***************************************************************************)
EXTENDS Integers, FiniteSets, SequencesExt

CONSTANTS
    Outputs,        \* every output that may ever be plugged in
    NumWorkspaces,  \* KUM_WORKSPACE_COUNT
    NoOutput        \* a NULL struct kum_output *

ASSUME WorkspacesAssumption == NumWorkspaces \in Nat \ {0}

(* next_free_workspace() falls back to workspace 0 when every workspace is *)
(* on show, so the promises below need no more outputs than workspaces.    *)
ASSUME OutputsAssumption ==
    /\ NoOutput \notin Outputs
    /\ IsFiniteSet(Outputs)
    /\ Cardinality(Outputs) <= NumWorkspaces

Index == 0 .. NumWorkspaces - 1

VARIABLES
    outputs,    \* server->outputs, head of the list first
    active,     \* kum_output.active_workspace, 0 while not connected
    previous,   \* kum_output.previous_workspace, 0 while not connected
    treeOn      \* the workspaces whose scene tree is enabled

screenVars == <<outputs, active, previous, treeOn>>

Connected == ToSet(outputs)

(* output_for_workspace(): the first output in the list that shows w. *)
OutputFor(w) ==
    LET i == SelectInSeq(outputs, LAMBDA o : active[o] = w)
    IN  IF i = 0 THEN NoOutput ELSE outputs[i]

OnShow(w) == \E o \in Connected : active[o] = w

WorkspacesInit ==
    /\ outputs = << >>
    /\ active = [o \in Outputs |-> 0]
    /\ previous = [o \in Outputs |-> 0]
    /\ treeOn = {}
-----------------------------------------------------------------------------
(* Mutant of NextFreeWorkspace: one workspace per output already there. *)
CountedWorkspace == Cardinality(Connected) % NumWorkspaces

NextFreeWorkspace ==
    LET free == Index \ {active[o] : o \in Connected}
    IN  IF free = {} THEN 0 ELSE CHOOSE w \in free : \A v \in free : w <= v

(* Mutant of NewOutput: "none yet" is stored as -1 and used unchecked. *)
NewOutputNoPrevious(o) ==
    /\ o \in Outputs \ Connected
    /\ outputs' = <<o>> \o outputs
    /\ active' = [active EXCEPT ![o] = NextFreeWorkspace]
    /\ previous' = [previous EXCEPT ![o] = -1]
    /\ treeOn' = treeOn \cup {NextFreeWorkspace}

(* kum_new_output(): the list grows at its head.                           *)
NewOutput(o) ==
    /\ o \in Outputs \ Connected
    /\ outputs' = <<o>> \o outputs
    /\ active' = [active EXCEPT ![o] = NextFreeWorkspace]
    /\ previous' = [previous EXCEPT ![o] = 0]
    /\ treeOn' = treeOn \cup {NextFreeWorkspace}

(* kum_workspace_switch() on output o, past its early returns.  When       *)
(* another output shows workspace i, that output takes o's workspace and   *)
(* both trees stay enabled; otherwise o's workspace is hidden.             *)
Swap(o, i) == \E p \in Connected \ {o} : active[p] = i

(* Mutant of SwitchedActive: the other output is not given a workspace. *)
TakenActive(act, o, i) == [act EXCEPT ![o] = i]

(* Mutant of SwitchedPrevious: a swap only updates the other output. *)
SwappedPrevious(act, prev, o, i) ==
    [p \in Outputs |-> IF p # o /\ p \in Connected /\ act[p] = i THEN i
                       ELSE IF p = o /\ ~Swap(o, i) THEN act[o]
                       ELSE prev[p]]

SwitchedActive(act, o, i) ==
    [p \in Outputs |-> IF p = o THEN i
                       ELSE IF p \in Connected /\ act[p] = i THEN act[o]
                       ELSE act[p]]

SwitchedPrevious(act, prev, o, i) ==
    [p \in Outputs |-> IF p = o THEN act[o]
                       ELSE IF p \in Connected /\ act[p] = i THEN i
                       ELSE prev[p]]

(* Mutant of SwitchOutput: the old workspace is hidden after a swap too. *)
SwitchOutputHides(o, i) ==
    /\ o \in Connected
    /\ i \in Index
    /\ active[o] # i
    /\ active' = SwitchedActive(active, o, i)
    /\ previous' = SwitchedPrevious(active, previous, o, i)
    /\ treeOn' = (treeOn \ {active[o]}) \cup {i}
    /\ UNCHANGED outputs

SwitchOutput(o, i) ==
    /\ o \in Connected
    /\ i \in Index
    /\ active[o] # i
    /\ active' = SwitchedActive(active, o, i)
    /\ previous' = SwitchedPrevious(active, previous, o, i)
    /\ treeOn' = IF Swap(o, i) THEN treeOn \cup {active[o], i}
                 ELSE (treeOn \ {active[o]}) \cup {i}
    /\ UNCHANGED outputs

(* action_switch_workspace(): the key of the workspace already on show     *)
(* goes to the output's previous one.                                      *)
KeyTarget(act, prev, o, i) == IF act[o] = i THEN prev[o] ELSE i

PressKey(o, i) == SwitchOutput(o, KeyTarget(active, previous, o, i))

(* output_destroy() with migrate_workspace(): the output now at the head   *)
(* of the list drops what it was showing and takes the removed output's    *)
(* workspace; its previous_workspace is left alone.                        *)
OutputDestroyed(o) ==
    LET w == active[o]
        rest == RemoveFirst(outputs, o)
        heir == Head(rest)
    IN  /\ o \in Connected
        /\ outputs' = rest
        /\ previous' = [previous EXCEPT ![o] = 0]
        /\ IF rest = << >>
           THEN /\ active' = [active EXCEPT ![o] = 0]
                /\ treeOn' = treeOn \ {w}
           ELSE /\ active' = [active EXCEPT ![o] = 0, ![heir] = w]
                /\ treeOn' = (treeOn \ {active[heir]}) \cup {w}

WorkspacesNext ==
    \E o \in Outputs :
        \/ NewOutput(o)
        \/ OutputDestroyed(o)
        \/ \E i \in Index : SwitchOutput(o, i) \/ PressKey(o, i)

WorkspacesSpec == WorkspacesInit /\ [][WorkspacesNext]_screenVars
-----------------------------------------------------------------------------
(* Every variable has its type, and no output is linked twice. *)
WorkspacesTypeOK ==
    /\ outputs \in Seq(Outputs)
    /\ IsInjective(outputs)
    /\ active \in [Outputs -> Index]
    /\ previous \in [Outputs -> Index]
    /\ treeOn \in SUBSET Index

(* No workspace is on show on two outputs: a workspace has one scene tree, *)
(* so the swap of kum_workspace_switch(), the fallback of                  *)
(* next_free_workspace() and the takeover of migrate_workspace() must      *)
(* never leave two outputs with the same active_workspace.                 *)
ActiveDistinct ==
    \A o, p \in Connected : active[o] = active[p] => o = p

(* The scene graph agrees with the outputs: a workspace tree is enabled    *)
(* exactly when some output shows that workspace.  The enable and disable  *)
(* calls are spread over three functions and done tree by tree.            *)
TreeOnIffShown == \A w \in Index : w \in treeOn <=> OnShow(w)

(* "Press again to return to previous": pressing a workspace key and then  *)
(* the same key once more puts every output, the one that swapped          *)
(* included, back on the workspace it showed.                              *)
PressTwiceReturns ==
    \A o \in Connected, i \in Index :
        active[o] # i =>
            LET act  == SwitchedActive(active, o, i)
                prev == SwitchedPrevious(active, previous, o, i)
            IN  SwitchedActive(act, o, KeyTarget(act, prev, o, i)) = active

(* The abstract specification these outputs and workspaces implement. *)
Screen == INSTANCE Screens WITH shown <- [o \in Connected |-> active[o]]

(* Every step of the code is a plug, an unplug or a switch of Screens.tla: *)
(* nothing else ever changes what an output shows.                         *)
ImplementsScreens == Screen!ScreensSpec
=============================================================================

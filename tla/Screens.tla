------------------------------ MODULE Screens ------------------------------
(***************************************************************************)
(* What the outputs and workspaces of KumDE promise, with no lists, no     *)
(* scene graph and no "previous" bookkeeping: every connected output shows *)
(* one workspace, no workspace is on two outputs, switching to a workspace *)
(* shown elsewhere exchanges the two, and unplugging an output never takes *)
(* its workspace off the desk while another output is left to carry it.    *)
(* Workspaces.tla is checked, and proved, to implement this module.        *)
(***************************************************************************)
EXTENDS Naturals, Functions

CONSTANTS
    Outputs,        \* every output (monitor) that may ever be plugged in
    NumWorkspaces   \* KUM_WORKSPACE_COUNT, 9 in the shipped config.h

Index == 0 .. NumWorkspaces - 1

VARIABLE shown      \* the workspace on show, a function on connected outputs

ScreensInit == shown = << >>

Plug(o) ==
    /\ o \notin DOMAIN shown
    /\ \E w \in Index \ Range(shown) :
          shown' = [p \in DOMAIN shown \cup {o} |-> IF p = o THEN w ELSE shown[p]]

Show(o, w) ==
    /\ o \in DOMAIN shown
    /\ w # shown[o]
    /\ shown' = [p \in DOMAIN shown |-> IF p = o THEN w
                                        ELSE IF shown[p] = w THEN shown[o]
                                        ELSE shown[p]]

(* The last output goes dark; otherwise some output left takes over the    *)
(* workspace the removed one was showing.                                  *)
Unplug(o) ==
    /\ o \in DOMAIN shown
    /\ LET left == DOMAIN shown \ {o} IN
         \/ left = {} /\ shown' = << >>
         \/ \E heir \in left :
               shown' = [p \in left |-> IF p = heir THEN shown[o] ELSE shown[p]]

ScreensNext ==
    \E o \in Outputs :
        \/ Plug(o)
        \/ Unplug(o)
        \/ \E w \in Index : Show(o, w)

ScreensSpec == ScreensInit /\ [][ScreensNext]_shown
=============================================================================

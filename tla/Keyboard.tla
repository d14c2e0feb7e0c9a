------------------------------ MODULE Keyboard ------------------------------
(***************************************************************************)
(* What the seat and the session lock of KumDE promise about who may have  *)
(* the keyboard, with no windows lists, no outputs and no surfaces: only   *)
(* an unlocked session gives the keyboard to a window, only the client     *)
(* that holds the lock ends it, and a lock whose client died is for ever.  *)
(* Layer surfaces take the keyboard at any time, which is what             *)
(* layer_map() does.  Desktop.tla is checked to implement this module.     *)
(***************************************************************************)
CONSTANTS
    Windows,    \* the windows that may be given the keyboard
    Nobody,     \* nothing has the keyboard
    LayerShell, \* a layer-shell surface has it
    LockScreen  \* a lock surface has it

VARIABLES
    holder,     \* who has the keyboard
    session     \* "open", "locked", or "orphaned": locked, lock client gone

keyboardVars == <<holder, session>>

KeyboardInit == holder = Nobody /\ session = "open"

Give(t) == session = "open" /\ holder' = t /\ UNCHANGED session

GiveLayerShell == holder' = LayerShell /\ UNCHANGED session

GiveLockScreen ==
    session = "locked" /\ holder' = LockScreen /\ UNCHANGED session

Take == holder' = Nobody /\ UNCHANGED session

Lock == session = "open" /\ session' = "locked" /\ holder' = Nobody

Unlock == session = "locked" /\ session' = "open" /\ holder' = Nobody

Orphan ==
    /\ session = "locked"
    /\ session' = "orphaned"
    /\ holder' = IF holder = LockScreen THEN Nobody ELSE holder

KeyboardNext ==
    \/ \E t \in Windows : Give(t)
    \/ GiveLayerShell
    \/ GiveLockScreen
    \/ Take
    \/ Lock
    \/ Unlock
    \/ Orphan

KeyboardSpec == KeyboardInit /\ [][KeyboardNext]_keyboardVars
=============================================================================

-------------------------- MODULE WorkspacesProofs --------------------------
(***************************************************************************)
(* Theorems about Workspaces.tla, for any number of outputs and            *)
(* workspaces: the type invariant, the two safety invariants, and that the *)
(* outputs and workspaces implement Screens.tla.                           *)
(***************************************************************************)
EXTENDS Workspaces, ListLemmas, FiniteSetTheorems

(* The three invariants are inductive only together: a swap that finds the *)
(* wrong output, or two outputs on one workspace, would leave a tree       *)
(* enabled for nobody.                                                     *)
WorkspacesInv == WorkspacesTypeOK /\ ActiveDistinct /\ TreeOnIffShown

LEMMA ConnectedSubset ==
    ASSUME WorkspacesTypeOK
    PROVE  Connected \subseteq Outputs
BY LenProperties, ElementOfSeq DEF WorkspacesTypeOK, Connected, ToSet

(* next_free_workspace(): with no more outputs than workspaces, an output  *)
(* that is not connected yet finds a workspace nobody shows.               *)
LEMMA FreeWorkspace ==
    ASSUME WorkspacesTypeOK, NEW o \in Outputs \ Connected
    PROVE  /\ NextFreeWorkspace \in Index
           /\ \A p \in Connected : active[p] # NextFreeWorkspace
<1> DEFINE used == {active[p] : p \in Connected}
           free == Index \ used
<1>1. free # {}
  <2> SUFFICES ASSUME Index \subseteq used
               PROVE  FALSE
    OBVIOUS
  <2>1. IsFiniteSet(Index) /\ Cardinality(Index) = NumWorkspaces
    BY WorkspacesAssumption, FS_Interval DEF Index
  <2>2. /\ IsFiniteSet(Connected)
        /\ Cardinality(Connected) <= Cardinality(Outputs \ {o})
    <3>1. IsFiniteSet(Outputs \ {o})
      BY OutputsAssumption, FS_RemoveElement
    <3>2. Connected \in SUBSET (Outputs \ {o})
      BY ConnectedSubset
    <3>. QED
      BY <3>1, <3>2, FS_Subset
  <2>3. Cardinality(Outputs \ {o}) = Cardinality(Outputs) - 1
    BY OutputsAssumption, FS_RemoveElement
  <2>4. Cardinality(Connected) < Cardinality(Index)
    BY <2>1, <2>2, <2>3, OutputsAssumption, WorkspacesAssumption, FS_CardinalityType
  <2> DEFINE f == [w \in Index |-> CHOOSE p \in Connected : active[p] = w]
  <2>5. \A w \in Index : f[w] \in Connected /\ active[f[w]] = w
    OBVIOUS
  <2>6. f \in [Index -> Connected]
    BY <2>5
  <2> HIDE DEF f
  <2>7. PICK v \in Index, w \in Index : v # w /\ f[v] = f[w]
    BY <2>1, <2>2, <2>4, <2>6, FS_PigeonHole
  <2>. QED
    BY <2>5, <2>7
<1>2. \E w \in free : \A v \in free : w <= v
  <2>1. free \in SUBSET Nat
    BY WorkspacesAssumption DEF Index
  <2>. QED
    BY <1>1, <2>1, LeastNatural
<1>3. NextFreeWorkspace \in free
  BY <1>1, <1>2 DEF NextFreeWorkspace
<1>. QED
  BY <1>3

(* output_for_workspace() of a workspace on show *)
LEMMA ShownOutput ==
    ASSUME WorkspacesInv, NEW w, OnShow(w)
    PROVE  /\ OutputFor(w) # NoOutput /\ OutputFor(w) \in Connected
           /\ active[OutputFor(w)] = w
<1> DEFINE I == {i \in 1 .. Len(outputs) : active[outputs[i]] = w}
<1>1. /\ Len(outputs) \in Nat /\ DOMAIN outputs = 1 .. Len(outputs)
      /\ \A i \in 1 .. Len(outputs) : outputs[i] \in Outputs
  BY LenProperties, ElementOfSeq DEF WorkspacesInv, WorkspacesTypeOK
<1>2. I # {} /\ I \in SUBSET Nat
  BY <1>1 DEF OnShow, Connected, ToSet
<1>3. Min(I) \in I
  <2> HIDE DEF I
  <2>. QED
    BY <1>2, MinFacts
<1>4. OutputFor(w) = outputs[Min(I)]
  BY <1>1, <1>2, <1>3 DEF OutputFor, SelectInSeq
<1>. QED
  BY <1>1, <1>3, <1>4, OutputsAssumption DEF Connected, ToSet

LEMMA InitInv == WorkspacesInit => WorkspacesInv
<1> SUFFICES ASSUME WorkspacesInit
             PROVE  WorkspacesInv
  OBVIOUS
<1> USE DEF WorkspacesInit
<1>1. outputs \in Seq(Outputs) /\ Connected = {} /\ IsInjective(outputs)
  BY EmptySeq, LenProperties DEF Connected, ToSet, IsInjective
<1>2. 0 \in Index
  BY WorkspacesAssumption DEF Index
<1>. QED
  BY <1>1, <1>2 DEF WorkspacesInv, WorkspacesTypeOK, ActiveDistinct, TreeOnIffShown, OnShow

(* kum_new_output() keeps the invariant. *)
LEMMA NewOutputInv ==
    ASSUME WorkspacesInv, NEW o \in Outputs, NewOutput(o)
    PROVE  WorkspacesInv'
<1> DEFINE n == NextFreeWorkspace
<1> USE DEF WorkspacesInv
<1>1. n \in Index /\ \A p \in Connected : active[p] # n
  BY FreeWorkspace DEF NewOutput
<1> HIDE DEF n
<1>2. /\ o \notin Connected
      /\ outputs' = <<o>> \o outputs
      /\ active' = [active EXCEPT ![o] = n]
      /\ previous' = [previous EXCEPT ![o] = 0]
      /\ treeOn' = treeOn \cup {n}
  BY DEF NewOutput, n
<1>3. /\ outputs' \in Seq(Outputs)
      /\ Connected' = {o} \cup Connected
      /\ IsInjective(outputs')
  BY <1>2, InsertFacts DEF WorkspacesTypeOK, Connected
<1>4. 0 \in Index
  BY WorkspacesAssumption DEF Index
<1>5. Connected \subseteq Outputs
  BY ConnectedSubset
<1>6. WorkspacesTypeOK'
  BY <1>1, <1>2, <1>3, <1>4 DEF WorkspacesTypeOK
<1>7. \A p \in Connected' : active'[p] = IF p = o THEN n ELSE active[p]
  BY <1>2, <1>3, <1>5 DEF WorkspacesTypeOK
<1>8. ActiveDistinct'
  BY <1>1, <1>2, <1>3, <1>7 DEF ActiveDistinct
<1>9. TreeOnIffShown'
  BY <1>2, <1>3, <1>7 DEF TreeOnIffShown, OnShow
<1>. QED
  BY <1>6, <1>8, <1>9

(* kum_workspace_switch() keeps the invariant, with a swap and without. *)
LEMMA SwitchOutputInv ==
    ASSUME WorkspacesInv, NEW o \in Outputs, NEW i, SwitchOutput(o, i)
    PROVE  WorkspacesInv'
<1> USE DEF WorkspacesInv
<1>1. /\ o \in Connected
      /\ i \in Index
      /\ active[o] # i
      /\ active' = SwitchedActive(active, o, i)
      /\ previous' = SwitchedPrevious(active, previous, o, i)
      /\ treeOn' = IF Swap(o, i) THEN treeOn \cup {active[o], i}
                   ELSE (treeOn \ {active[o]}) \cup {i}
      /\ outputs' = outputs
  BY DEF SwitchOutput
<1>2. Connected' = Connected /\ Connected \subseteq Outputs
  BY <1>1, ConnectedSubset DEF Connected
<1>3. WorkspacesTypeOK'
  BY <1>1, <1>2 DEF WorkspacesTypeOK, SwitchedActive, SwitchedPrevious
<1>4. \A p \in Connected : active'[p] = IF p = o THEN i
                                        ELSE IF active[p] = i THEN active[o]
                                        ELSE active[p]
  BY <1>1, <1>2 DEF SwitchedActive
<1>5. ActiveDistinct'
  BY <1>1, <1>2, <1>4 DEF ActiveDistinct
<1>6. TreeOnIffShown'
  <2>1. CASE Swap(o, i)
    <3>1. PICK q \in Connected \ {o} : active[q] = i
      BY <2>1 DEF Swap
    <3>2. \A w \in Index : OnShow(w)' <=> OnShow(w)
      BY <1>1, <1>2, <1>4, <3>1 DEF OnShow, ActiveDistinct
    <3>3. OnShow(i) /\ OnShow(active[o])
      BY <1>1, <3>1 DEF OnShow
    <3>4. treeOn' = treeOn
      BY <1>1, <1>2, <2>1, <3>3 DEF TreeOnIffShown, WorkspacesTypeOK
    <3>. QED
      BY <3>2, <3>4 DEF TreeOnIffShown
  <2>2. CASE ~Swap(o, i)
    <3>1. \A p \in Connected : active'[p] = IF p = o THEN i ELSE active[p]
      BY <1>4, <2>2 DEF Swap
    <3>2. \A w \in Index : OnShow(w)' <=> w = i \/ (OnShow(w) /\ w # active[o])
      BY <1>1, <1>2, <3>1 DEF OnShow, ActiveDistinct
    <3>. QED
      BY <1>1, <2>2, <3>2 DEF TreeOnIffShown
  <2>. QED
    BY <2>1, <2>2
<1>. QED
  BY <1>3, <1>5, <1>6

(* output_destroy() and migrate_workspace() keep the invariant. *)
LEMMA OutputDestroyedInv ==
    ASSUME WorkspacesInv, NEW o \in Outputs, OutputDestroyed(o)
    PROVE  /\ WorkspacesInv'
           /\ outputs' = RemoveFirst(outputs, o)
           /\ Connected' = Connected \ {o}
           /\ outputs' # << >> => Head(outputs') \in Connected'
<1> USE DEF WorkspacesInv
<1> DEFINE w == active[o]
           heir == Head(outputs')
<1>1. /\ o \in Connected
      /\ outputs' = RemoveFirst(outputs, o)
      /\ previous' = [previous EXCEPT ![o] = 0]
      /\ outputs' = << >> => /\ active' = [active EXCEPT ![o] = 0]
                             /\ treeOn' = treeOn \ {w}
      /\ outputs' # << >> => /\ active' = [active EXCEPT ![o] = 0, ![heir] = w]
                             /\ treeOn' = (treeOn \ {active[heir]}) \cup {w}
  BY DEF OutputDestroyed
<1>2. /\ outputs' \in Seq(Outputs)
      /\ Connected' = Connected \ {o}
      /\ IsInjective(outputs')
  BY <1>1, UnlinkFacts DEF WorkspacesTypeOK, Connected
<1>3. Connected \subseteq Outputs /\ 0 \in Index /\ w \in Index
  BY <1>1, ConnectedSubset, WorkspacesAssumption DEF Index, WorkspacesTypeOK
<1>4. ASSUME outputs' # << >>
      PROVE  heir \in Connected'
  <2>1. Len(outputs') \in Nat \ {0} /\ DOMAIN outputs' = 1 .. Len(outputs')
    BY <1>2, <1>4, EmptySeq, LenProperties
  <2>2. heir = outputs'[1] /\ 1 \in DOMAIN outputs'
    BY <1>2, <1>4, <2>1
  <2>. QED
    BY <2>2 DEF Connected, ToSet
<1>5. CASE outputs' = << >>
  <2>1. Connected' = {}
    BY <1>5, EmptySeq, LenProperties DEF Connected, ToSet
  <2>2. Connected = {o}
    BY <1>1, <1>2, <2>1
  <2>3. WorkspacesTypeOK'
    BY <1>1, <1>2, <1>3, <1>5 DEF WorkspacesTypeOK
  <2>4. ActiveDistinct' /\ TreeOnIffShown'
    BY <1>1, <1>5, <2>1, <2>2 DEF ActiveDistinct, TreeOnIffShown, OnShow
  <2>. QED
    BY <1>1, <1>2, <1>5, <2>3, <2>4
<1>6. CASE outputs' # << >>
  <2>1. heir \in Connected' /\ heir \in Connected /\ heir # o
    BY <1>2, <1>4, <1>6
  <2> HIDE DEF heir
  <2>2. /\ active' = [active EXCEPT ![o] = 0, ![heir] = w]
        /\ treeOn' = (treeOn \ {active[heir]}) \cup {w}
    BY <1>1, <1>6
  <2>3. WorkspacesTypeOK'
    BY <1>1, <1>2, <1>3, <2>1, <2>2 DEF WorkspacesTypeOK
  <2>4. \A p \in Connected' : active'[p] = IF p = heir THEN w ELSE active[p]
    BY <1>2, <1>3, <2>1, <2>2 DEF WorkspacesTypeOK
  <2>5. ActiveDistinct'
    BY <1>1, <1>2, <2>1, <2>4 DEF ActiveDistinct
  <2>6. active[heir] # w
    BY <1>1, <2>1 DEF ActiveDistinct
  <2>7. \A v \in Index : OnShow(v)' <=> v = w \/ (OnShow(v) /\ v # active[heir])
    BY <1>1, <1>2, <2>1, <2>4, <2>6 DEF OnShow, ActiveDistinct
  <2>8. TreeOnIffShown'
    BY <2>2, <2>7 DEF TreeOnIffShown
  <2>. QED
    BY <1>1, <1>2, <2>1, <2>3, <2>5, <2>8 DEF heir
<1>. QED
  BY <1>5, <1>6

(* Every step of the specification keeps the invariant. *)
LEMMA NextInv == WorkspacesInv /\ [WorkspacesNext]_screenVars => WorkspacesInv'
<1> SUFFICES ASSUME WorkspacesInv, [WorkspacesNext]_screenVars
             PROVE  WorkspacesInv'
  OBVIOUS
<1>1. CASE UNCHANGED screenVars
  BY <1>1 DEF WorkspacesInv, WorkspacesTypeOK, ActiveDistinct, TreeOnIffShown,
              OnShow, Connected, screenVars
<1>2. ASSUME NEW o \in Outputs, NewOutput(o)
      PROVE  WorkspacesInv'
  BY <1>2, NewOutputInv
<1>3. ASSUME NEW o \in Outputs, OutputDestroyed(o)
      PROVE  WorkspacesInv'
  BY <1>3, OutputDestroyedInv
<1>4. ASSUME NEW o \in Outputs, NEW i \in Index, SwitchOutput(o, i) \/ PressKey(o, i)
      PROVE  WorkspacesInv'
  BY <1>4, SwitchOutputInv DEF PressKey
<1>. QED
  BY <1>1, <1>2, <1>3, <1>4 DEF WorkspacesNext

LEMMA Invariance == WorkspacesSpec => []WorkspacesInv
BY InitInv, NextInv, PTL DEF WorkspacesSpec

(* The variables of src/output.c and src/workspace.c keep their types:     *)
(* every active_workspace and previous_workspace indexes the array of      *)
(* workspaces, and no output is linked twice.                              *)
THEOREM TypeCorrect == WorkspacesSpec => []WorkspacesTypeOK
<1>1. WorkspacesInv => WorkspacesTypeOK
  BY DEF WorkspacesInv
<1>. QED
  BY <1>1, Invariance, PTL

(* No workspace is ever on show on two outputs, whatever is plugged,       *)
(* unplugged, switched or swapped.                                         *)
THEOREM NeverShownTwice == WorkspacesSpec => []ActiveDistinct
<1>1. WorkspacesInv => ActiveDistinct
  BY DEF WorkspacesInv
<1>. QED
  BY <1>1, Invariance, PTL

(* A workspace's scene tree is enabled exactly while an output shows it. *)
THEOREM TreesFollowOutputs == WorkspacesSpec => []TreeOnIffShown
<1>1. WorkspacesInv => TreeOnIffShown
  BY DEF WorkspacesInv
<1>. QED
  BY <1>1, Invariance, PTL

(* Pressing a workspace key twice puts every output back on the workspace  *)
(* it showed, the output that swapped included.                            *)
THEOREM SecondPressReturns == WorkspacesSpec => []PressTwiceReturns
<1>1. WorkspacesInv => PressTwiceReturns
  <2> SUFFICES ASSUME WorkspacesInv,
                      NEW o \in Connected, NEW i \in Index, active[o] # i
               PROVE  LET act  == SwitchedActive(active, o, i)
                          prev == SwitchedPrevious(active, previous, o, i)
                      IN  SwitchedActive(act, o, KeyTarget(act, prev, o, i)) = active
    BY DEF PressTwiceReturns
  <2> DEFINE act  == SwitchedActive(active, o, i)
             prev == SwitchedPrevious(active, previous, o, i)
             back == SwitchedActive(act, o, active[o])
  <2>1. o \in Outputs /\ active \in [Outputs -> Index]
    BY ConnectedSubset DEF WorkspacesInv, WorkspacesTypeOK
  <2>2. act[o] = i /\ prev[o] = active[o]
    BY <2>1 DEF SwitchedActive, SwitchedPrevious
  <2>3. KeyTarget(act, prev, o, i) = active[o]
    BY <2>2 DEF KeyTarget
  <2>4. \A p, q \in Connected : active[p] = active[q] => p = q
    BY DEF WorkspacesInv, ActiveDistinct
  <2>5. \A p \in Outputs : act[p] = IF p = o THEN i
                                    ELSE IF p \in Connected /\ active[p] = i THEN active[o]
                                    ELSE active[p]
    BY DEF SwitchedActive
  <2>6. back = [p \in Outputs |-> IF p = o THEN active[o]
                                  ELSE IF p \in Connected /\ act[p] = active[o] THEN act[o]
                                  ELSE act[p]]
    BY DEF SwitchedActive
  <2> HIDE DEF act, prev, back
  <2>7. \A p \in Outputs : back[p] = active[p]
    BY <2>1, <2>2, <2>4, <2>5, <2>6
  <2>8. back = active
    BY <2>1, <2>6, <2>7
  <2>. QED
    BY <2>3, <2>8 DEF act, prev, back
<1>. QED
  BY <1>1, Invariance, PTL
-----------------------------------------------------------------------------
(* The refinement: Screens.tla, step by step. *)
shown == [o \in Connected |-> active[o]]

LEMMA InitScreens == WorkspacesInit => Screen!ScreensInit
<1> SUFFICES ASSUME WorkspacesInit
             PROVE  shown = << >>
  BY DEF Screen!ScreensInit, shown
<1>1. Connected = {}
  BY EmptySeq, LenProperties DEF WorkspacesInit, Connected, ToSet
<1>. QED
  BY <1>1 DEF shown

LEMMA PlugScreens ==
    ASSUME WorkspacesInv, NEW o \in Outputs, NewOutput(o)
    PROVE  Screen!Plug(o)
<1> DEFINE n == NextFreeWorkspace
<1>1. n \in Index /\ \A p \in Connected : active[p] # n
  BY FreeWorkspace DEF NewOutput, WorkspacesInv
<1>2. o \notin Connected /\ active' = [active EXCEPT ![o] = n]
  BY DEF NewOutput
<1>3. Connected' = Connected \cup {o}
  BY InsertFacts DEF NewOutput, WorkspacesInv, WorkspacesTypeOK, Connected
<1>4. Connected \subseteq Outputs /\ active \in [Outputs -> Index]
  BY ConnectedSubset DEF WorkspacesInv, WorkspacesTypeOK
<1> HIDE DEF n
<1>5. n \in Screen!Index \ Screen!Range(shown)
  BY <1>1 DEF Screen!Index, Screen!Range, Index, shown
<1>6. shown' = [p \in DOMAIN shown \cup {o} |-> IF p = o THEN n ELSE shown[p]]
  BY <1>2, <1>3, <1>4 DEF shown
<1>. QED
  BY <1>2, <1>5, <1>6 DEF Screen!Plug, shown

LEMMA ShowScreens ==
    ASSUME WorkspacesInv, NEW o \in Outputs, NEW i, SwitchOutput(o, i)
    PROVE  Screen!Show(o, i)
<1>1. /\ o \in Connected
      /\ active[o] # i
      /\ active' = SwitchedActive(active, o, i)
      /\ Connected' = Connected
      /\ Connected \subseteq Outputs
  BY ConnectedSubset DEF SwitchOutput, Connected, WorkspacesInv
<1>2. shown' = [p \in DOMAIN shown |-> IF p = o THEN i
                                       ELSE IF shown[p] = i THEN shown[o]
                                       ELSE shown[p]]
  BY <1>1 DEF shown, SwitchedActive
<1>. QED
  BY <1>1, <1>2 DEF Screen!Show, shown

LEMMA UnplugScreens ==
    ASSUME WorkspacesInv, NEW o \in Outputs, OutputDestroyed(o)
    PROVE  Screen!Unplug(o)
<1>1. /\ o \in Connected
      /\ Connected' = Connected \ {o}
      /\ Connected \subseteq Outputs
      /\ active \in [Outputs -> Index]
  BY OutputDestroyedInv, ConnectedSubset DEF OutputDestroyed, WorkspacesInv, WorkspacesTypeOK
<1>2. CASE outputs' = << >>
  <2>1. Connected' = {}
    BY <1>2, EmptySeq, LenProperties DEF Connected, ToSet
  <2>2. shown' = << >>
    BY <2>1 DEF shown
  <2>. QED
    BY <1>1, <2>1, <2>2 DEF Screen!Unplug, shown
<1>3. CASE outputs' # << >>
  <2> DEFINE heir == Head(outputs')
  <2>1. heir \in Connected' /\ outputs' = RemoveFirst(outputs, o)
    BY <1>3, OutputDestroyedInv
  <2>2. active' = [active EXCEPT ![o] = 0, ![heir] = active[o]]
    BY <1>3, <2>1 DEF OutputDestroyed
  <2> HIDE DEF heir
  <2>3. shown' = [p \in DOMAIN shown \ {o} |-> IF p = heir THEN shown[o] ELSE shown[p]]
    BY <1>1, <2>1, <2>2 DEF shown
  <2>. QED
    BY <1>1, <2>1, <2>3 DEF Screen!Unplug, shown
<1>. QED
  BY <1>2, <1>3

(* The outputs and workspaces of the code do what Screens.tla promises:    *)
(* each step is a plug, an unplug or a show of that module, or leaves what *)
(* is on show alone.                                                       *)
THEOREM Implementation == WorkspacesSpec => ImplementsScreens
<1>1. WorkspacesInv /\ [WorkspacesNext]_screenVars => [Screen!ScreensNext]_shown
  <2> SUFFICES ASSUME WorkspacesInv, [WorkspacesNext]_screenVars
               PROVE  [Screen!ScreensNext]_shown
    OBVIOUS
  <2>1. CASE UNCHANGED screenVars
    BY <2>1 DEF screenVars, shown, Connected
  <2>2. ASSUME NEW o \in Outputs, NewOutput(o)
        PROVE  Screen!ScreensNext
    BY <2>2, PlugScreens DEF Screen!ScreensNext
  <2>3. ASSUME NEW o \in Outputs, OutputDestroyed(o)
        PROVE  Screen!ScreensNext
    BY <2>3, UnplugScreens DEF Screen!ScreensNext
  <2>4. ASSUME NEW o \in Outputs, NEW i \in Index, SwitchOutput(o, i) \/ PressKey(o, i)
        PROVE  Screen!ScreensNext
    <3>1. PICK w : SwitchOutput(o, w)
      BY <2>4 DEF PressKey
    <3>2. w \in Screen!Index
      BY <3>1 DEF SwitchOutput, Index, Screen!Index
    <3>. QED
      BY <3>1, <3>2, ShowScreens DEF Screen!ScreensNext
  <2>. QED
    BY <2>1, <2>2, <2>3, <2>4 DEF WorkspacesNext
<1>. QED
  BY <1>1, InitScreens, Invariance, PTL
     DEF WorkspacesSpec, ImplementsScreens, Screen!ScreensSpec, shown
=============================================================================

---------------------------- MODULE KumLauncher ----------------------------
(***************************************************************************)
(* kumlauncher (kumlauncher/src/main.c): the list of programs it collects, *)
(* the list of those that match the query, the selection and the scroll    *)
(* position that four groups of keys, the wheel and the pointer move, and  *)
(* the picture drawn of it all.                                            *)
(*                                                                         *)
(* Names and queries are sequences of bytes; letter case is folded, and    *)
(* command lines are as strip_field_codes() leaves them.  Indices of       *)
(* filtered and rows start at 0, as in the code.                           *)
(***************************************************************************)
EXTENDS Integers, FiniteSets, SequencesExt

CONSTANTS
    Files,          \* what the desktop files of the directories may say
    Programs,       \* the names the directories of PATH may hold
    NameOrder,      \* the pairs of names that strcasecmp() does not swap
    MaxEntries,     \* MAX_ENTRIES
    Keys,           \* what the keys that type text type: bytes of UTF-8
    Lead, Trail,    \* the bytes that begin and end a two-byte character
    VisibleRows,    \* VISIBLE_ROWS
    MaxQuery,       \* MAX_QUERY
    None            \* nothing launched; nothing drawn

Entry == [name : Seq(STRING), exec : Seq(STRING), desktop : BOOLEAN]

ASSUME LauncherAssumption ==
    /\ Files \subseteq [name : Seq(STRING), exec : Seq(STRING), hidden : BOOLEAN]
    /\ Programs \subseteq Seq(STRING)
    /\ MaxEntries \in Nat
    /\ Keys \subseteq Seq(STRING)
    /\ VisibleRows \in Nat \ {0}
    /\ MaxQuery \in Nat

VARIABLES
    stage,          \* of main(): "files", "programs", "sorted", "ready"
    entries,        \* app.entries
    query,          \* app.query
    filtered,       \* app.filtered: positions in entries
    selected,       \* app.selected
    scroll,         \* app.scroll
    configured,     \* app.configured
    pointerRow,     \* the row app.pointer_y is on, -1 above the rows
    drawn,          \* the picture last attached to the surface
    running,        \* app.running
    launched        \* the entry last handed to the shell

launcherVars == <<stage, entries, query, filtered, selected, scroll, configured,
                  pointerRow, drawn, running, launched>>
listVars == <<query, filtered, selected, scroll, configured, pointerRow, drawn,
              running, launched>>
-----------------------------------------------------------------------------
(* Mutant of AddDesktopFile: the names already listed are not looked at. *)
AddAnyDesktopFile(list, file) ==
    IF Len(list) >= MaxEntries \/ file.hidden THEN list
    ELSE Append(list, [name |-> file.name, exec |-> file.exec, desktop |-> TRUE])

(* parse_desktop_file(): a hidden file is one with NoDisplay, without a    *)
(* name or a command, or not of an application.                            *)
AddDesktopFile(list, file) ==
    IF \/ Len(list) >= MaxEntries
       \/ file.hidden
       \/ \E i \in DOMAIN list : list[i].name = file.name
    THEN list
    ELSE Append(list, [name |-> file.name, exec |-> file.exec, desktop |-> TRUE])

(* The body of collect_path_entries(): a program is left out when the      *)
(* command of a desktop entry, or the name of another, is its name.        *)
AddExecutable(list, name) ==
    IF \/ Len(list) >= MaxEntries
       \/ \E i \in DOMAIN list :
             (IF list[i].desktop THEN list[i].exec ELSE list[i].name) = name
    THEN list
    ELSE Append(list, [name |-> name, exec |-> name, desktop |-> FALSE])

(* Every order qsort() may leave the list in, given entry_cmp(): desktop   *)
(* entries first, then by name.                                            *)
Sorted(list) ==
    {s \in {[i \in DOMAIN list |-> list[p[i]]] :
               p \in {f \in [DOMAIN list -> DOMAIN list] : IsInjective(f)}} :
        \A i, j \in DOMAIN list : i < j =>
            \/ s[i].desktop /\ ~s[j].desktop
            \/ s[i].desktop = s[j].desktop /\ <<s[i].name, s[j].name>> \in NameOrder}
-----------------------------------------------------------------------------
Begins(i, q) == IsPrefix(q, entries[i].name)

Holds(i, q) ==
    LET n == entries[i].name
    IN  \E k \in 0 .. Len(n) : IsPrefix(q, SubSeq(n, k + 1, Len(n)))

(* Mutant of Ahead: the order of the list, whatever the name begins with. *)
ListedAhead(i, j, q) == i < j

Ahead(i, j, q) ==
    \/ Begins(i, q) /\ ~Begins(j, q)
    \/ Begins(i, q) = Begins(j, q) /\ i < j

(* What filter_entries() leaves in app.filtered: the entries whose name    *)
(* holds the query, those that begin with it ahead of the others.          *)
Matching(q) == {i \in 1 .. Len(entries) : Holds(i, q)}

Filtered(q) ==
    [k \in 1 .. Cardinality(Matching(q)) |->
        CHOOSE i \in Matching(q) :
            Cardinality({j \in Matching(q) : Ahead(j, i, q)}) = k - 1]

Count == Len(filtered)
Rows  == IF Count < VisibleRows THEN Count ELSE VisibleRows

(* Whether the query is text: kumlauncher deletes one byte at a time.      *)
IsText(q) ==
    \A i \in 1 .. Len(q) :
        /\ q[i] \in Lead  => i < Len(q) /\ q[i + 1] \in Trail
        /\ q[i] \in Trail => i > 1 /\ q[i - 1] \in Lead

(* render(): the rows and the one highlighted.  A query that is not text   *)
(* stops the drawing after the prompt.                                     *)
Picture ==
    [rows |-> IF IsText(query)
              THEN [r \in 1 .. Rows |-> entries[filtered[scroll + r]]]
              ELSE << >>,
     lit  |-> selected - scroll,
     stale |-> FALSE]

Blank == [rows |-> << >>, lit |-> -1, stale |-> FALSE]

(* Another kumlauncher may be creating its buffer under the same fixed     *)
(* name: the picture then stays what it was.                               *)
Render ==
    drawn' \in IF configured' THEN {Picture', [drawn EXCEPT !.stale = TRUE]}
              ELSE {drawn}

(* row_at() *)
RowAt(row) ==
    IF row >= 0 /\ row < Rows /\ scroll + row < Count THEN scroll + row ELSE -1

LauncherInit ==
    /\ stage = "files"
    /\ entries = << >>
    /\ query = << >>
    /\ filtered = << >>
    /\ selected = 0
    /\ scroll = 0
    /\ configured = FALSE
    /\ pointerRow = -1
    /\ drawn = Blank
    /\ running = TRUE
    /\ launched = None

SameList == UNCHANGED <<stage, entries, query, filtered>>
SameRest == UNCHANGED <<stage, configured, pointerRow, running, launched>>
-----------------------------------------------------------------------------
(* The loop of collect_desktop_entries(): the next file, in whatever order *)
(* the directories give them, also of a directory that has the same.       *)
ReadFile(file) ==
    /\ stage = "files"
    /\ entries' = AddDesktopFile(entries, file)
    /\ UNCHANGED <<stage, listVars>>

FilesDone ==
    /\ stage = "files"
    /\ stage' = "programs"
    /\ UNCHANGED <<entries, listVars>>

(* The loop of collect_path_entries() *)
ReadProgram(name) ==
    /\ stage = "programs"
    /\ entries' = AddExecutable(entries, name)
    /\ UNCHANGED <<stage, listVars>>

Sort ==
    /\ stage = "programs"
    /\ stage' = "sorted"
    /\ entries' \in Sorted(entries)
    /\ UNCHANGED listVars

(* filter_entries(), for the first time, and the loop of main() *)
Ready ==
    /\ stage = "sorted"
    /\ stage' = "ready"
    /\ filtered' = Filtered(query)
    /\ UNCHANGED <<entries, query, selected, scroll, configured, pointerRow, drawn,
                   running, launched>>

Collect ==
    \/ \E file \in Files : ReadFile(file)
    \/ FilesDone
    \/ \E name \in Programs : ReadProgram(name)
    \/ Sort \/ Ready
-----------------------------------------------------------------------------
(* filter_entries() and render(), after the query was edited *)
Refilter(q) ==
    /\ query' = q
    /\ filtered' = Filtered(q)
    /\ selected' = 0
    /\ scroll' = 0
    /\ UNCHANGED entries
    /\ SameRest
    /\ Render

(* handle_key(), a key that types text *)
Type(k) ==
    /\ Len(query) + Len(k) < MaxQuery - 1
    /\ Refilter(query \o k)

BackSpace ==
    /\ query # << >>
    /\ Refilter(SubSeq(query, 1, Len(query) - 1))

(* Selecting a row above, or below, scrolls as far as it takes to show it. *)
ScrollUp(s)   == IF s < scroll THEN s ELSE scroll
ScrollDown(s) == IF s >= scroll + VisibleRows THEN s - VisibleRows + 1 ELSE scroll

Select(s, sc) ==
    /\ selected' = s
    /\ scroll' = sc
    /\ SameList
    /\ SameRest
    /\ Render

(* XKB_KEY_Up, and the wheel, ptr_axis() *)
Up ==
    /\ selected > 0
    /\ Select(selected - 1, ScrollUp(selected - 1))

(* Mutant of Down: scrolls one row too late. *)
DownLate ==
    LET s == selected + 1 IN
    /\ selected < Count - 1
    /\ Select(s, IF s > scroll + VisibleRows THEN s - VisibleRows ELSE scroll)

(* XKB_KEY_Down, and the wheel *)
Down ==
    /\ selected < Count - 1
    /\ Select(selected + 1, ScrollDown(selected + 1))

PageUp ==
    LET s == IF selected < VisibleRows THEN 0 ELSE selected - VisibleRows
    IN  Select(s, ScrollUp(s))

(* XKB_KEY_Page_Down: selects -1 when the list is empty. *)
PageDown ==
    LET s == IF selected + VisibleRows >= Count THEN Count - 1
             ELSE selected + VisibleRows
    IN  Select(s, ScrollDown(s))

(* launch_selected() with entry s selected *)
Launch(s) ==
    /\ selected' = s
    /\ IF Count = 0 THEN UNCHANGED <<launched, running>>
       ELSE /\ launched' = entries[filtered[s + 1]]
            /\ running' = FALSE
    /\ UNCHANGED <<scroll, configured, pointerRow, drawn>>
    /\ SameList

Return == Launch(selected)

(* XKB_KEY_Escape, and layer_closed() *)
Dismiss ==
    /\ running' = FALSE
    /\ UNCHANGED <<selected, scroll, configured, pointerRow, drawn, launched>>
    /\ SameList
-----------------------------------------------------------------------------
(* ptr_enter(): the pointer has moved to a row, and highlights nothing. *)
PointerEnter(row) ==
    /\ pointerRow' = row
    /\ UNCHANGED <<selected, scroll, configured, drawn, running, launched>>
    /\ SameList

(* Mutant of PointerMotion: selects without drawing. *)
MotionUndrawn(row) ==
    /\ pointerRow' = row
    /\ selected' = IF RowAt(row) >= 0 THEN RowAt(row) ELSE selected
    /\ UNCHANGED <<scroll, configured, drawn, running, launched>>
    /\ SameList

(* ptr_motion() *)
PointerMotion(row) ==
    LET i == RowAt(row) IN
    /\ SameList
    /\ UNCHANGED <<scroll, configured, running, launched>>
    /\ pointerRow' = row
    /\ IF i >= 0 /\ i # selected
       THEN selected' = i /\ Render
       ELSE UNCHANGED <<selected, drawn>>

(* ptr_button(): launches what is under the pointer, which the wheel or    *)
(* the keyboard may have moved the highlight away from.                    *)
Click ==
    /\ RowAt(pointerRow) >= 0
    /\ Launch(RowAt(pointerRow))

(* layer_configure() *)
Configure ==
    /\ configured' = TRUE
    /\ UNCHANGED <<selected, scroll, pointerRow, running, launched>>
    /\ SameList
    /\ Render

(* Events read together with the one that ends the loop are still handled. *)
Handle ==
    \/ Configure \/ Dismiss
    \/ /\ configured
       /\ \/ \E k \in Keys : Type(k)
          \/ BackSpace
          \/ Up \/ Down \/ PageUp \/ PageDown
          \/ Return \/ Click
          \/ \E row \in -1 .. VisibleRows : PointerEnter(row) \/ PointerMotion(row)

LauncherNext == Collect \/ (stage = "ready" /\ Handle)

LauncherSpec == LauncherInit /\ [][LauncherNext]_launcherVars
-----------------------------------------------------------------------------
(* What launch_selected() and render() index with is in bounds, and the    *)
(* selection is on one of the rows drawn: no sequence of keys, wheel,      *)
(* pointer and edits scrolls it out of sight.                              *)
SelectionInView ==
    IF Count = 0 THEN scroll = 0 /\ selected \in {-1, 0}
    ELSE /\ 0 <= scroll
         /\ scroll + Rows <= Count
         /\ scroll <= selected
         /\ selected < scroll + Rows

(* Every program that matches is listed once and no other is, those whose  *)
(* name begins with the query on top, and the list's own order otherwise.  *)
MatchesListed == stage = "ready" =>
    /\ {filtered[k] : k \in 1 .. Count} =
          {i \in DOMAIN entries : Holds(i, query)}
    /\ \A j, k \in 1 .. Count : j < k =>
          /\ filtered[j] # filtered[k]
          /\ Begins(filtered[k], query) => Begins(filtered[j], query)
          /\ Begins(filtered[j], query) = Begins(filtered[k], query) =>
                filtered[j] < filtered[k]

(* A desktop file listed hides a program of the same command, and nothing  *)
(* is listed twice.                                                        *)
NothingTwice ==
    \A i, j \in DOMAIN entries : i # j =>
        /\ entries[i].name = entries[j].name =>
              entries[i].desktop # entries[j].desktop
        /\ entries[i].desktop /\ ~entries[j].desktop =>
              entries[i].exec # entries[j].name

(* What is launched is what was on the screen, in the row highlighted or   *)
(* in the row under the pointer, unless drawing the last picture failed or *)
(* the query shown was not text: every handler that changes the list, the  *)
(* selection or the scroll position draws before the next key or click.    *)
LaunchesWhatIsSeen ==
    [][/\ running /\ ~running' /\ launched' # launched
       /\ ~drawn.stale /\ drawn.rows # << >>
       => \E r \in {drawn.lit, pointerRow} :
              /\ r + 1 \in DOMAIN drawn.rows
              /\ drawn.rows[r + 1] = launched']_launcherVars
=============================================================================

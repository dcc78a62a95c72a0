---------------------------------- MODULE Tui ----------------------------------
(***************************************************************************)
(* The client's terminal interface: the loop of procnet/src/main.rs, the   *)
(* keys (tui/keys.rs, tui/input.rs), the state they change (tui/state.rs)  *)
(* and what a render writes back into that state (tui/view.rs).            *)
(*                                                                         *)
(* Positions count from 0 as in the code: the row under the cursor is      *)
(* view[selected + 1].  A name is its rank in the order of names; NameHas  *)
(* and PidHas say which texts occur in a name and in a PID's decimals.     *)
(***************************************************************************)
EXTENDS Integers, Sequences, FiniteSets

CONSTANTS
    Pid,            \* process IDs, natural numbers
    NoPid,          \* selected_pid = None
    Snapshot,       \* what the daemon may send
    EmptySnapshot,  \* SnapshotData::default()
    Height,         \* heights the terminal may have
    SortKeys,       \* the sort keys the user presses
    Units,          \* Unit::ALL, a sequence
    Char, Lower,    \* typed characters and their to_ascii_lowercase
    MaxText,        \* bound: characters in the filter
    NameHas, PidHas

Row == [pid : Pid, name : Nat, sent : Nat, recv : Nat]

ASSUME TuiAssumption ==
    /\ Pid \subseteq Nat /\ NoPid \notin Pid
    /\ Snapshot \subseteq [rows : Seq(Row), dead : Seq(Row)]
    /\ EmptySnapshot = [rows |-> <<>>, dead |-> <<>>]
    /\ Height \subseteq Nat
    /\ SortKeys \subseteq {"Pid", "Name", "Sent", "Recv", "Total"}
    /\ Len(Units) \in Nat \ {0} /\ DOMAIN Units = 1..Len(Units)
    /\ Lower \in [Char -> Char]
    /\ MaxText \in Nat

VARIABLES
    pc,                     \* where the loop is: "drain", "draw", "event",
                            \* "redraw" or "ended"
    snap,                   \* the snapshot main holds
    shown,                  \* history: the snapshot on the screen
    sort_key, sort_dir,
    active_pane, view_mode,
    filter_target, filter_text,
    unit, unit_picker_cursor,
    selected_pid, selected, scroll_offset,
    view, view_pids, visible_rows,
    paused, show_detail

sortVars == <<sort_key, sort_dir>>
filterVars == <<filter_target, filter_text>>
unitVars == <<unit, unit_picker_cursor>>
cursorVars == <<selected_pid, selected, scroll_offset>>
tableVars == <<view, view_pids, visible_rows>>
flagVars == <<paused, show_detail>>
vars == <<pc, snap, shown, sortVars, active_pane, view_mode, filterVars,
          unitVars, cursorVars, tableVars, flagVars>>

\* The list the main pane shows.
List(s) == IF view_mode = "Live" THEN s.rows ELSE s.dead

TypeOK ==
    /\ pc \in {"drain", "draw", "event", "redraw", "ended"}
    /\ snap \in Snapshot \cup {EmptySnapshot}
    /\ shown \in Snapshot \cup {EmptySnapshot}
    /\ sort_key \in SortKeys \cup {"Name"} /\ sort_dir \in {"Asc", "Desc"}
    /\ active_pane \in {"Main", "Help", "Unit", "Filter"}
    /\ view_mode \in {"Live", "Dead"}
    /\ filter_target \in {"Name", "Pid"}
    /\ filter_text \in Seq(Char) /\ Len(filter_text) <= MaxText
    /\ unit \in 0..Len(Units) - 1 /\ unit_picker_cursor \in 0..Len(Units) - 1
    /\ selected_pid \in Pid \cup {NoPid}
    /\ selected \in Nat /\ scroll_offset \in Nat /\ visible_rows \in Nat
    /\ view \in Seq(Nat) /\ view_pids \in Seq(Pid)
    /\ paused \in BOOLEAN /\ show_detail \in BOOLEAN

Init ==
    /\ pc = "drain" /\ snap = EmptySnapshot /\ shown = EmptySnapshot
    /\ sort_key = "Name" /\ sort_dir = "Desc"
    /\ active_pane = "Main" /\ view_mode = "Live"
    /\ filter_target = "Name" /\ filter_text = <<>>
    /\ unit = 0 /\ unit_picker_cursor = 0
    /\ selected_pid = NoPid /\ selected = 0 /\ scroll_offset = 0
    /\ view = <<>> /\ view_pids = <<>> /\ visible_rows = 0
    /\ paused = FALSE /\ show_detail = FALSE

--------------------------------------------------------------------------------
(* Render: what view.rs computes and writes back. *)

SatSub(a, b) == IF a < b THEN 0 ELSE a - b
Least(a, b) == IF a < b THEN a ELSE b

\* The needle is put in lower case; apply_event has done the same to the name.
Needle == [i \in DOMAIN filter_text |-> Lower[filter_text[i]]]
Matches(r) ==
    \/ filter_text = <<>>
    \/ filter_target = "Name" /\ Needle \in NameHas[r.name]
    \/ filter_target = "Pid" /\ Needle \in PidHas[r.pid]

Key(r) ==
    CASE sort_key = "Pid" -> r.pid
      [] sort_key = "Name" -> r.name
      [] sort_key = "Sent" -> r.sent
      [] sort_key = "Recv" -> r.recv
      [] sort_key = "Total" -> r.sent + r.recv

\* The order of sort_by: the key in the chosen direction, then the PID upwards;
\* the sort is stable and starts from increasing indices.
Before(list, i, j) ==
    LET a == Key(list[i])  b == Key(list[j]) IN
    \/ IF sort_dir = "Desc" THEN a > b ELSE a < b
    \/ a = b /\ list[i].pid < list[j].pid
    \/ a = b /\ list[i].pid = list[j].pid /\ i < j

\* The filtered indices of list, and their sorted sequence (there is exactly one).
Kept(list) == {i \in 1..Len(list) : Matches(list[i])}
IsSorted(list, v) == \A i, j \in DOMAIN v : i < j => Before(list, v[i], v[j])

\* A plausible slip: the last visible row counts as one further down.
ClampScrollLate(sel, off, vis, len) ==
    LET s == Least(sel, len - 1)
        o == Least(off, len - vis)
    IN  IF len = 0 THEN [selected |-> 0, offset |-> 0]
        ELSE [selected |-> s,
              offset |-> IF vis = 0 \/ len <= vis THEN 0
                         ELSE IF s < o THEN s
                         ELSE IF s > o + vis THEN s + 1 - vis
                         ELSE o]

ClampScroll(sel, off, vis, len) ==
    LET s == Least(sel, len - 1)
        o == Least(off, len - vis)
    IN  IF len = 0 THEN [selected |-> 0, offset |-> 0]
        ELSE [selected |-> s,
              offset |-> IF vis = 0 \/ len <= vis THEN 0
                         ELSE IF s < o THEN s
                         ELSE IF s > o + vis - 1 THEN s + 1 - vis
                         ELSE o]

\* Rows of the table in a terminal of height h: the key bar takes a line, the
\* details 8, the filter prompt one, the table's border and header 3.
VisibleRows(h) ==
    SatSub(h, 4 + (IF show_detail THEN 8 ELSE 0)
                + (IF active_pane = "Filter" THEN 1 ELSE 0))

\* The rows of pids that the lock is on.
LockedOn(pids) == {i \in DOMAIN pids : selected_pid # NoPid /\ pids[i] = selected_pid}

\* A plausible slip: a vanished PID leaves the cursor where it was.
ResolveKeepsRow(pids) ==
    IF LockedOn(pids) = {} THEN selected
    ELSE (CHOOSE i \in LockedOn(pids) : \A j \in LockedOn(pids) : i <= j) - 1

\* Where the cursor goes: the first row with the locked PID, else the top.
Resolve(pids) ==
    IF LockedOn(pids) = {} THEN 0
    ELSE (CHOOSE i \in LockedOn(pids) : \A j \in LockedOn(pids) : i <= j) - 1

\* A plausible slip: the lock outlives the PID it is on.
KeepLock(pids) == selected_pid

ReleaseLock(pids) == IF LockedOn(pids) = {} THEN NoPid ELSE selected_pid

\* An empty table leaves the cursor, its lock and the offset as they were.
RenderTable(h, list, v) ==
    LET pids == [i \in DOMAIN v |-> list[v[i]].pid]
        c == ClampScroll(Resolve(pids), scroll_offset, VisibleRows(h), Len(v))
    IN  /\ view' = v /\ view_pids' = pids
        /\ \/ /\ v = <<>>
              /\ visible_rows' = 0
              /\ UNCHANGED cursorVars
           \/ /\ v # <<>>
              /\ visible_rows' = VisibleRows(h)
              /\ selected' = c.selected /\ scroll_offset' = c.offset
              /\ selected_pid' = ReleaseLock(pids)

Render(next) ==
    /\ \E h \in Height,
          v \in [1..Cardinality(Kept(List(snap))) -> Kept(List(snap))] :
          IsSorted(List(snap), v) /\ RenderTable(h, List(snap), v)
    /\ shown' = snap
    /\ pc' = next
    /\ UNCHANGED <<snap, sortVars, active_pane, view_mode, filterVars, unitVars,
                   flagVars>>

--------------------------------------------------------------------------------
(* The loop of main. *)

Turn(s) == pc = "drain" /\ pc' = s

\* A plausible slip: a paused client goes on taking snapshots.
ReceiveAlways(s) == TRUE

\* The latest of the snapshots that wait in the channel is kept, unless paused.
Received(s) == ~paused

Drain ==
    /\ Turn("draw")
    /\ \/ UNCHANGED snap
       \/ \E s \in Snapshot : Received(s) /\ snap' = s
    /\ UNCHANGED <<shown, sortVars, active_pane, view_mode, filterVars, unitVars,
                   cursorVars, tableVars, flagVars>>

\* The receiver thread has ended: main returns DaemonHangup.
Hangup ==
    /\ Turn("ended")
    /\ UNCHANGED <<snap, shown, sortVars, active_pane, view_mode, filterVars,
                   unitVars, cursorVars, tableVars, flagVars>>

Draw == pc = "draw" /\ Render("event")
Redraw == pc = "redraw" /\ Render("drain")

\* What handle_event's Action makes the loop do next.
Action(pane, next) == pc = "event" /\ active_pane = pane /\ pc' = next
KeyIn(pane) == Action(pane, "redraw") /\ UNCHANGED <<snap, shown, tableVars>>

\* No event within 250 ms, one that is not a key press, a key without effect or
\* an interval key, whose command Server models.
NoKey ==
    /\ pc = "event" /\ pc' = "drain"
    /\ UNCHANGED <<snap, shown, sortVars, active_pane, view_mode, filterVars,
                   unitVars, cursorVars, tableVars, flagVars>>

\* q and Ctrl-C: bound in every pane but Filter, where they are text.
Quit ==
    /\ pc = "event" /\ active_pane # "Filter" /\ pc' = "ended"
    /\ UNCHANGED <<snap, shown, sortVars, active_pane, view_mode, filterVars,
                   unitVars, cursorVars, tableVars, flagVars>>

--------------------------------------------------------------------------------
(* The keys of the main pane. *)

Toggle(dir) == IF dir = "Asc" THEN "Desc" ELSE "Asc"
DefaultDirection(k) == IF k \in {"Pid", "Name"} THEN "Asc" ELSE "Desc"

ApplySort(k) ==
    /\ KeyIn("Main")
    /\ sort_key' = k
    /\ sort_dir' = IF k = sort_key THEN Toggle(sort_dir) ELSE DefaultDirection(k)
    /\ UNCHANGED <<active_pane, view_mode, filterVars, unitVars, cursorVars,
                   flagVars>>

ReverseSort ==
    /\ KeyIn("Main")
    /\ sort_dir' = Toggle(sort_dir)
    /\ UNCHANGED <<sort_key, active_pane, view_mode, filterVars, unitVars,
                   cursorVars, flagVars>>

\* A plausible slip: the cursor moves and the lock does not.
LockStays(i) == selected_pid

\* The PID the cursor is locked onto when it moves to row i.
LockAt(i) == IF i < Len(view_pids) THEN view_pids[i + 1] ELSE NoPid

MoveCursor(up) ==
    LET len == Len(view)
        to == IF up THEN SatSub(selected, 1) ELSE Least(selected + 1, len - 1)
        c == ClampScroll(to, scroll_offset, visible_rows, len)
    IN  /\ KeyIn("Main")
        /\ len # 0
        /\ selected' = c.selected /\ scroll_offset' = c.offset
        /\ selected_pid' = LockAt(c.selected)
        /\ UNCHANGED <<sortVars, active_pane, view_mode, filterVars, unitVars,
                       flagVars>>

TogglePause ==
    /\ KeyIn("Main")
    /\ paused' = ~paused
    /\ UNCHANGED <<show_detail, sortVars, active_pane, view_mode, filterVars,
                   unitVars, cursorVars>>

ToggleDetail ==
    /\ KeyIn("Main")
    /\ show_detail' = ~show_detail
    /\ UNCHANGED <<paused, sortVars, active_pane, view_mode, filterVars, unitVars,
                   cursorVars>>

ToggleDead ==
    /\ KeyIn("Main")
    /\ view_mode' = IF view_mode = "Live" THEN "Dead" ELSE "Live"
    /\ selected_pid' = NoPid /\ selected' = 0 /\ scroll_offset' = 0
    /\ UNCHANGED <<sortVars, active_pane, filterVars, unitVars, flagVars>>

OpenUnit ==
    /\ KeyIn("Main")
    /\ active_pane' = "Unit" /\ unit_picker_cursor' = unit
    /\ UNCHANGED <<unit, sortVars, view_mode, filterVars, cursorVars, flagVars>>

\* / and ? or h.
Open(pane) ==
    /\ KeyIn("Main")
    /\ active_pane' = pane
    /\ UNCHANGED <<sortVars, view_mode, filterVars, unitVars, cursorVars, flagVars>>

ClearFilter ==
    /\ KeyIn("Main")
    /\ filter_text # <<>> /\ filter_text' = <<>>
    /\ UNCHANGED <<filter_target, sortVars, active_pane, view_mode, unitVars,
                   cursorVars, flagVars>>

--------------------------------------------------------------------------------
(* The keys of the unit picker, the help and the filter prompt. *)

\* A plausible slip: the picker's cursor runs past the last unit.
PickerBelowUnclamped(i) == i + 1

PickerBelow(i) == Least(i + 1, SatSub(Len(Units), 1))

MovePicker(up) ==
    /\ KeyIn("Unit")
    /\ unit_picker_cursor' = IF up THEN SatSub(unit_picker_cursor, 1)
                             ELSE PickerBelow(unit_picker_cursor)
    /\ UNCHANGED <<unit, sortVars, active_pane, view_mode, filterVars, cursorVars,
                   flagVars>>

ApplyUnit ==
    /\ KeyIn("Unit")
    /\ unit' = unit_picker_cursor /\ active_pane' = "Main"
    /\ UNCHANGED <<unit_picker_cursor, sortVars, view_mode, filterVars, cursorVars,
                   flagVars>>

\* Esc in the unit picker and in the help.
Close(pane) ==
    /\ KeyIn(pane)
    /\ active_pane' = "Main"
    /\ UNCHANGED <<sortVars, view_mode, filterVars, unitVars, cursorVars, flagVars>>

\* handle_filter_input; a key that is none of these is NoKey.
FilterInput ==
    /\ KeyIn("Filter")
    /\ \/ /\ Len(filter_text) < MaxText
          /\ \E c \in Char : filter_text' = Append(filter_text, c)
          /\ UNCHANGED <<active_pane, filter_target>>
       \/ /\ filter_text' = SubSeq(filter_text, 1, SatSub(Len(filter_text), 1))
          /\ UNCHANGED <<active_pane, filter_target>>
       \/ /\ filter_target' = IF filter_target = "Name" THEN "Pid" ELSE "Name"
          /\ UNCHANGED <<active_pane, filter_text>>
       \/ /\ active_pane' = "Main" /\ filter_text' = <<>>
          /\ UNCHANGED filter_target
       \/ /\ active_pane' = "Main"
          /\ UNCHANGED filterVars
    /\ UNCHANGED <<sortVars, view_mode, unitVars, cursorVars, flagVars>>

HandleKey ==
    \/ \E k \in SortKeys : ApplySort(k)
    \/ ReverseSort
    \/ \E up \in BOOLEAN : MoveCursor(up) \/ MovePicker(up)
    \/ TogglePause \/ ToggleDetail \/ ToggleDead
    \/ OpenUnit \/ Open("Filter") \/ Open("Help") \/ ClearFilter
    \/ ApplyUnit \/ Close("Unit") \/ Close("Help")
    \/ FilterInput
    \/ Quit

\* The client has ended.
Ended == pc = "ended" /\ UNCHANGED vars

Next == Drain \/ Hangup \/ Draw \/ Redraw \/ NoKey \/ HandleKey \/ Ended

Spec == Init /\ [][Next]_vars

--------------------------------------------------------------------------------
(* Properties *)

\* The cursor is on a row of the table and inside the window that is drawn,
\* after every render and every key, and the window has no empty lines while
\* rows are hidden above it: clamp_scroll, called by render_table and by
\* move_cursor on the offset that earlier sizes, filters and lists have left.
CursorInWindow ==
    view # <<>> =>
        /\ selected < Len(view)
        /\ scroll_offset <= selected
        /\ visible_rows > 0 =>
              /\ selected < scroll_offset + visible_rows
              /\ scroll_offset = 0 \/ scroll_offset + visible_rows <= Len(view)

\* The highlighted row is the process the cursor is locked onto, or the top row
\* if it is on none, through every change of order, filter, list and snapshot
\* (render_table, move_cursor, the keys that reset the cursor).
CursorOnItsProcess ==
    view # <<>> =>
        IF selected_pid = NoPid THEN selected = 0
        ELSE view_pids[selected + 1] = selected_pid

\* "A PID that has vanished releases the lock so the cursor returns to the top
\* instead of snapping to a stranger" (view.rs): whatever has happened to the
\* list since, the next table drawn has the cursor on the process it was locked
\* onto, or that process is not in it and the cursor floats on the top row.
NeverOnAStranger ==
    [][ (pc \in {"draw", "redraw"} /\ selected_pid # NoPid /\ view' # <<>>) =>
          \/ view_pids'[selected' + 1] = selected_pid
          \/ /\ selected' = 0 /\ selected_pid' = NoPid
             /\ \A i \in DOMAIN view_pids' : view_pids'[i] # selected_pid
      ]_vars

\* The redraw after a key leaves the cursor on the row the key moved it to, as
\* long as the table is the same: the row and the lock that move_cursor writes
\* agree.  The exception is a dead list with a PID twice, where the cursor goes
\* back to the first of the two and cannot pass the second.
RedrawKeepsCursor ==
    [][ (pc = "redraw" /\ view' = view /\ view_pids' = view_pids /\ view # <<>>)
        => \/ selected' = selected
           \/ \E i \in 1..selected : view_pids[i] = view_pids[selected + 1]
      ]_vars

\* What is on the screen when the user pauses stays there until the feed is
\* resumed, although snapshots go on arriving and are drained (main.rs).
PauseFreezesScreen == [][ paused => shown' = shown ]_vars
================================================================================

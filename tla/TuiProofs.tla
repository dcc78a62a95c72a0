------------------------------- MODULE TuiProofs -------------------------------
(***************************************************************************)
(* Proofs about the terminal interface, for any snapshots, terminal        *)
(* heights, sort keys and filters.                                         *)
(***************************************************************************)
EXTENDS Tui, TLAPS, FiniteSetTheorems, SequenceTheorems, WellFoundedInduction

\* After a render the held snapshot is the one on the screen until the next
\* drain, and all the time while paused.
ScreenIsSnap == (pc \in {"event", "redraw"} \/ paused) => shown = snap

\* The cursor, its lock and its window fit the table, in every state.
CursorOK ==
    /\ Len(view_pids) = Len(view)
    /\ CursorInWindow
    /\ CursorOnItsProcess

\* The inductive invariant.
Inv == TypeOK /\ CursorOK /\ ScreenIsSnap

--------------------------------------------------------------------------------
\* A clamped cursor and offset fit a window of vis rows on a list of len rows.
Fits(c, vis, len) ==
    /\ c.selected \in Nat /\ c.selected < len
    /\ c.offset \in Nat /\ c.offset <= c.selected
    /\ vis > 0 => /\ c.selected < c.offset + vis
                  /\ c.offset = 0 \/ c.offset + vis <= len

\* clamp_scroll on a list that is not empty: the cursor is clamped to the list,
\* the window holds it, and the window ends within the list unless it starts at
\* the top.
LEMMA ClampScrollFits ==
    ASSUME NEW sel \in Nat, NEW off \in Nat, NEW vis \in Nat, NEW len \in Nat, len # 0
    PROVE  /\ Fits(ClampScroll(sel, off, vis, len), vis, len)
           /\ ClampScroll(sel, off, vis, len).selected = Least(sel, len - 1)
  BY DEF ClampScroll, Least, Fits

\* The filtered indices are finitely many rows of the list.
LEMMA KeptIsFinite ==
    ASSUME NEW list \in Seq(Row)
    PROVE  /\ Cardinality(Kept(list)) \in Nat
           /\ \A i \in Kept(list) : i \in Nat /\ list[i] \in Row
<1>1. Len(list) \in Nat /\ IsFiniteSet(1..Len(list))
  BY FS_Interval, LenProperties
<1>2. Kept(list) \subseteq 1..Len(list)
  BY DEF Kept
<1>3. IsFiniteSet(Kept(list))
  BY <1>1, <1>2, FS_Subset
<1> QED
  BY <1>1, <1>2, <1>3, FS_CardinalityType, ElementOfSeq

\* A snapshot's lists are sequences of rows.
LEMMA ListIsRows ==
    ASSUME NEW s \in Snapshot \cup {EmptySnapshot}
    PROVE  List(s) \in Seq(Row)
<1>1. <<>> \in Seq(Row)
  BY EmptySeq
<1>2. s.rows \in Seq(Row) /\ s.dead \in Seq(Row)
  <2>1. CASE s \in Snapshot
    <3>1. s \in [rows : Seq(Row), dead : Seq(Row)]
      BY <2>1, TuiAssumption
    <3> QED
      BY <3>1
  <2>2. CASE s = [rows |-> <<>>, dead |-> <<>>]
    BY <1>1, <2>2
  <2> QED
    BY <2>1, <2>2, TuiAssumption
<1> QED
  BY <1>2 DEF List

\* Resolving the lock gives a row of the table, the locked one if there is one.
LEMMA ResolveProps ==
    ASSUME NEW n \in Nat, n # 0, NEW pids \in [1..n -> Pid]
    PROVE  /\ Resolve(pids) \in Nat /\ Resolve(pids) < n
           /\ LockedOn(pids) # {} =>
                /\ pids[Resolve(pids) + 1] = selected_pid
                /\ \A j \in 1..n : pids[j] = selected_pid => Resolve(pids) + 1 <= j
           /\ LockedOn(pids) = {} => Resolve(pids) = 0
<1>1. CASE LockedOn(pids) = {}
  BY <1>1 DEF Resolve
<1>2. CASE LockedOn(pids) # {}
  <2>1. LockedOn(pids) \subseteq 1..n
    BY DEF LockedOn
  <2>2. \E i \in LockedOn(pids) : \A j \in LockedOn(pids) : i <= j
    <3>1. LockedOn(pids) \subseteq Nat
      BY <2>1
    <3>2. IsWellFoundedOn(OpToRel(<, Nat), Nat)
      BY NatLessThanWellFounded
    <3>3. PICK i \in LockedOn(pids) :
                 \A j \in LockedOn(pids) : ~(<<j, i>> \in OpToRel(<, Nat))
      BY <1>2, <3>1, <3>2, WFMin
    <3>4. ASSUME NEW j \in LockedOn(pids)
          PROVE  i <= j
      <4>1. i \in Nat /\ j \in Nat
        BY <3>1
      <4>2. ~(j < i)
        BY <4>1, <3>3 DEF OpToRel
      <4> QED
        BY <4>1, <4>2
    <3> QED
      BY <3>4
  <2>3. /\ Resolve(pids) + 1 \in LockedOn(pids)
        /\ \A j \in LockedOn(pids) : Resolve(pids) + 1 <= j
        /\ Resolve(pids) \in Int
    <3> DEFINE m == CHOOSE i \in LockedOn(pids) : \A j \in LockedOn(pids) : i <= j
    <3>1. m \in LockedOn(pids) /\ \A j \in LockedOn(pids) : m <= j
      BY <2>2
    <3>2. Resolve(pids) = m - 1
      BY <1>2 DEF Resolve
    <3> HIDE DEF m
    <3> QED
      BY <3>1, <3>2, <2>1
  <2> QED
    BY <1>2, <2>1, <2>3 DEF LockedOn
<1> QED
  BY <1>1, <1>2

\* What a render does to the table and the cursor.
LEMMA RenderTableStep ==
    ASSUME TypeOK, NEW h \in Height, NEW list \in Seq(Row),
           NEW v \in [1..Cardinality(Kept(list)) -> Kept(list)],
           RenderTable(h, list, v)
    PROVE  /\ view' \in Seq(Nat) /\ view_pids' \in Seq(Pid)
           /\ visible_rows' \in Nat /\ selected' \in Nat /\ scroll_offset' \in Nat
           /\ selected_pid' \in Pid \cup {NoPid}
           /\ CursorOK'
           /\ view' # <<>> =>
                /\ selected' = Resolve(view_pids')
                /\ selected_pid' = ReleaseLock(view_pids')
<1> DEFINE n == Cardinality(Kept(list))
           pids == [i \in DOMAIN v |-> list[v[i]].pid]
           vis == VisibleRows(h)
           c == ClampScroll(Resolve(pids), scroll_offset, vis, Len(v))
<1>1. n \in Nat /\ \A i \in Kept(list) : i \in Nat /\ list[i] \in Row
  BY KeptIsFinite
<1>2. v \in [1..n -> Nat] /\ pids \in [1..n -> Pid]
  <2>1. ASSUME NEW i \in 1..n
        PROVE  v[i] \in Nat /\ list[v[i]] \in Row
    BY <1>1
  <2>2. ASSUME NEW i \in 1..n
        PROVE  list[v[i]].pid \in Pid
    BY <2>1 DEF Row
  <2> QED
    BY <2>1, <2>2
<1>3. view' = v /\ view_pids' = pids
  BY DEF RenderTable
<1> HIDE DEF n, pids
<1>4. /\ v \in Seq(Nat) /\ pids \in Seq(Pid)
      /\ Len(v) = n /\ Len(pids) = n
  BY <1>1, <1>2
<1>5. vis \in Nat
  BY TuiAssumption DEF VisibleRows, SatSub, TypeOK
<1>6. CASE v = <<>>
  <2>1. visible_rows' = 0 /\ UNCHANGED cursorVars
    BY <1>6 DEF RenderTable
  <2> QED
    BY <1>3, <1>4, <1>6, <2>1
    DEF TypeOK, cursorVars, CursorOK, CursorInWindow, CursorOnItsProcess
<1>7. CASE v # <<>>
  <2>1. n # 0
    BY <1>4, <1>7
  <2>2. /\ visible_rows' = vis
        /\ selected' = c.selected /\ scroll_offset' = c.offset
        /\ selected_pid' = ReleaseLock(pids)
    BY <1>7 DEF RenderTable, pids
  <2>3. Resolve(pids) \in Nat /\ Resolve(pids) < n
    BY <1>1, <1>2, <2>1, ResolveProps
  <2>4. scroll_offset \in Nat
    BY DEF TypeOK
  <2> HIDE DEF vis
  <2>5. Fits(c, vis, n) /\ c.selected = Least(Resolve(pids), n - 1)
    <3>1. Len(v) \in Nat /\ Len(v) # 0
      BY <1>1, <1>4, <2>1
    <3>2. /\ Fits(c, vis, Len(v))
          /\ c.selected = Least(Resolve(pids), Len(v) - 1)
      BY <1>5, <2>3, <2>4, <3>1, ClampScrollFits
    <3> QED
      BY <1>4, <3>2
  <2> HIDE DEF c
  <2>6. selected' = Resolve(pids)
    BY <1>1, <2>2, <2>3, <2>5 DEF Least, Fits
  <2>7. selected_pid' \in Pid \cup {NoPid}
    BY <2>2 DEF ReleaseLock, TypeOK
  <2>8. CursorInWindow'
    BY <1>3, <1>4, <2>2, <2>5 DEF CursorInWindow, Fits
  <2>9. CursorOnItsProcess'
    <3>1. CASE LockedOn(pids) = {}
      BY <2>2, <2>6, <3>1, <1>1, <1>2, <2>1, ResolveProps
      DEF ReleaseLock, CursorOnItsProcess
    <3>2. CASE LockedOn(pids) # {}
      <4>1. selected_pid' # NoPid /\ selected_pid' = selected_pid
        BY <2>2, <3>2 DEF ReleaseLock, LockedOn
      <4>2. pids[selected' + 1] = selected_pid
        BY <2>6, <3>2, <1>1, <1>2, <2>1, ResolveProps
      <4> QED
        BY <1>3, <4>1, <4>2 DEF CursorOnItsProcess
    <3> QED
      BY <3>1, <3>2
  <2> QED
    BY <1>3, <1>4, <1>5, <2>2, <2>5, <2>6, <2>7, <2>8, <2>9 DEF CursorOK, Fits
<1> QED
  BY <1>6, <1>7

\* The same of a whole render.
LEMMA RenderStep ==
    ASSUME TypeOK, NEW n \in {"event", "drain"}, Render(n)
    PROVE  /\ TypeOK'
           /\ CursorOK'
           /\ view' # <<>> =>
                /\ selected' = Resolve(view_pids')
                /\ selected_pid' = ReleaseLock(view_pids')
<1>1. List(snap) \in Seq(Row)
  BY ListIsRows DEF TypeOK
<1>2. PICK h \in Height,
           v \in [1..Cardinality(Kept(List(snap))) -> Kept(List(snap))] :
           RenderTable(h, List(snap), v)
  BY DEF Render
<1>3. /\ view' \in Seq(Nat) /\ view_pids' \in Seq(Pid)
      /\ visible_rows' \in Nat /\ selected' \in Nat /\ scroll_offset' \in Nat
      /\ selected_pid' \in Pid \cup {NoPid}
      /\ CursorOK'
      /\ view' # <<>> =>
           /\ selected' = Resolve(view_pids')
           /\ selected_pid' = ReleaseLock(view_pids')
  BY <1>1, <1>2, RenderTableStep
<1>4. TypeOK'
  BY <1>3 DEF TypeOK, Render, sortVars, filterVars, unitVars, flagVars
<1> QED
  BY <1>3, <1>4

\* A step that leaves the table and the cursor alone keeps them fitting.
LEMMA CursorFrame ==
    ASSUME CursorOK, UNCHANGED <<cursorVars, tableVars>>
    PROVE  CursorOK'
  BY DEF CursorOK, CursorInWindow, CursorOnItsProcess, cursorVars, tableVars

\* move_cursor in the main pane.
LEMMA MoveCursorStep ==
    ASSUME TypeOK, CursorOK, NEW up \in BOOLEAN, MoveCursor(up)
    PROVE  TypeOK' /\ CursorOK'
<1> DEFINE to == IF up THEN SatSub(selected, 1) ELSE Least(selected + 1, Len(view) - 1)
           c == ClampScroll(to, scroll_offset, visible_rows, Len(view))
<1>1. /\ Len(view) \in Nat /\ Len(view) # 0 /\ Len(view_pids) = Len(view)
      /\ selected \in Nat /\ scroll_offset \in Nat /\ visible_rows \in Nat
  BY DEF MoveCursor, TypeOK, CursorOK
<1>2. to \in Nat
  BY <1>1 DEF SatSub, Least
<1>3. /\ selected' = c.selected /\ scroll_offset' = c.offset
      /\ selected_pid' = LockAt(c.selected)
      /\ UNCHANGED tableVars
  BY DEF MoveCursor, KeyIn
<1> HIDE DEF to
<1>4. Fits(c, visible_rows, Len(view))
  BY <1>1, <1>2, ClampScrollFits
<1> HIDE DEF c
<1>5. selected_pid' = view_pids[selected' + 1] /\ selected_pid' \in Pid
  BY <1>1, <1>3, <1>4 DEF LockAt, TypeOK, Fits
<1>6. TypeOK'
  BY <1>3, <1>4, <1>5
  DEF TypeOK, Fits, MoveCursor, KeyIn, Action, tableVars, sortVars, filterVars,
      unitVars, flagVars
<1>7. CursorInWindow'
  BY <1>3, <1>4 DEF CursorInWindow, Fits, tableVars
<1>8. CursorOnItsProcess'
  BY <1>3, <1>5, TuiAssumption DEF CursorOnItsProcess, tableVars
<1> QED
  BY <1>1, <1>3, <1>6, <1>7, <1>8 DEF CursorOK, tableVars

\* The other keys and the steps of the loop that do not draw.
LEMMA OtherStep ==
    ASSUME TypeOK, CursorOK,
           \/ Drain \/ Hangup \/ NoKey \/ Quit \/ Ended
           \/ \E k \in SortKeys : ApplySort(k)
           \/ \E up \in BOOLEAN : MovePicker(up)
           \/ ReverseSort \/ TogglePause \/ ToggleDetail \/ ToggleDead
           \/ OpenUnit \/ Open("Filter") \/ Open("Help") \/ ClearFilter
           \/ ApplyUnit \/ Close("Unit") \/ Close("Help") \/ FilterInput
    PROVE  TypeOK' /\ CursorOK'
<1> USE DEF sortVars, filterVars, unitVars, flagVars, cursorVars, tableVars,
            KeyIn, Action, Turn
<1>1. CASE Drain
  BY <1>1, CursorFrame DEF Drain, TypeOK
<1>2. CASE Hangup \/ NoKey \/ Quit \/ Ended
  BY <1>2, CursorFrame DEF Hangup, NoKey, Quit, Ended, vars, TypeOK
<1>3. ASSUME NEW k \in SortKeys, ApplySort(k)
      PROVE  TypeOK' /\ CursorOK'
  BY <1>3, CursorFrame DEF ApplySort, Toggle, DefaultDirection, TypeOK
<1>4. CASE ReverseSort
  BY <1>4, CursorFrame DEF ReverseSort, Toggle, TypeOK
<1>5. CASE TogglePause \/ ToggleDetail
  BY <1>5, CursorFrame DEF TogglePause, ToggleDetail, TypeOK
<1>6. CASE ToggleDead
  <2>1. TypeOK'
    BY <1>6 DEF ToggleDead, TypeOK
  <2>2. CursorOK'
    BY <1>6 DEF ToggleDead, TypeOK, CursorOK, CursorInWindow, CursorOnItsProcess
  <2> QED
    BY <2>1, <2>2
<1>7. CASE OpenUnit \/ Open("Filter") \/ Open("Help")
  BY <1>7, CursorFrame DEF OpenUnit, Open, TypeOK
<1>8. CASE ClearFilter
  BY <1>8, CursorFrame, TuiAssumption DEF ClearFilter, TypeOK
<1>9. ASSUME NEW up \in BOOLEAN, MovePicker(up)
      PROVE  TypeOK' /\ CursorOK'
  <2>1. unit_picker_cursor' \in 0..Len(Units) - 1
    BY <1>9, TuiAssumption DEF MovePicker, PickerBelow, SatSub, Least, TypeOK
  <2> QED
    BY <1>9, <2>1, CursorFrame DEF MovePicker, TypeOK
<1>10. CASE ApplyUnit \/ Close("Unit") \/ Close("Help")
  BY <1>10, CursorFrame DEF ApplyUnit, Close, TypeOK
<1>11. CASE FilterInput
  <2>1. filter_text' \in Seq(Char) /\ Len(filter_text') <= MaxText
    <3>1. /\ filter_text \in Seq(Char) /\ Len(filter_text) \in Nat
          /\ Len(filter_text) <= MaxText /\ MaxText \in Nat
      BY TuiAssumption DEF TypeOK
    <3>2. ASSUME NEW x \in Char, Len(filter_text) < MaxText,
                 filter_text' = Append(filter_text, x)
          PROVE  filter_text' \in Seq(Char) /\ Len(filter_text') <= MaxText
      BY <3>1, <3>2
    <3>3. ASSUME filter_text' = SubSeq(filter_text, 1, SatSub(Len(filter_text), 1))
          PROVE  filter_text' \in Seq(Char) /\ Len(filter_text') <= MaxText
      <4>1. CASE Len(filter_text) = 0
        BY <3>1, <3>3, <4>1, SubSeqEmpty, EmptySeq DEF SatSub
      <4>2. CASE Len(filter_text) # 0
        BY <3>1, <3>3, <4>2 DEF SatSub
      <4> QED
        BY <4>1, <4>2
    <3>4. ASSUME filter_text' = <<>>
          PROVE  filter_text' \in Seq(Char) /\ Len(filter_text') <= MaxText
      <4>1. <<>> \in Seq(Char) /\ Len(<<>>) = 0
        BY EmptySeq
      <4> QED
        BY <3>1, <3>4, <4>1
    <3>5. ASSUME filter_text' = filter_text
          PROVE  filter_text' \in Seq(Char) /\ Len(filter_text') <= MaxText
      BY <3>1, <3>5
    <3> QED
      BY <1>11, <3>2, <3>3, <3>4, <3>5 DEF FilterInput
  <2> QED
    BY <1>11, <2>1, CursorFrame DEF FilterInput, TypeOK
<1> QED
  BY <1>1, <1>2, <1>3, <1>4, <1>5, <1>6, <1>7, <1>8, <1>9, <1>10, <1>11

\* The screen and the held snapshot agree as ScreenIsSnap says.
LEMMA ScreenStep ==
    ASSUME ScreenIsSnap, [Next]_vars
    PROVE  ScreenIsSnap' /\ (paused => shown' = shown)
<1> USE DEF ScreenIsSnap, flagVars
<1>1. CASE Drain \/ Hangup
  BY <1>1 DEF Drain, Hangup, Turn, Received
<1>2. CASE Draw \/ Redraw
  BY <1>2 DEF Draw, Redraw, Render
<1>3. CASE NoKey \/ Quit \/ Ended \/ UNCHANGED vars
  BY <1>3 DEF NoKey, Quit, Ended, vars
<1>4. CASE HandleKey /\ ~Quit
  <2>1. pc = "event" /\ pc' = "redraw" /\ UNCHANGED <<snap, shown>>
    BY <1>4
    DEF HandleKey, KeyIn, Action, ApplySort, ReverseSort, MoveCursor, MovePicker,
        TogglePause, ToggleDetail, ToggleDead, OpenUnit, Open, ClearFilter,
        ApplyUnit, Close, FilterInput
  <2> QED
    BY <2>1
<1> QED
  BY <1>1, <1>2, <1>3, <1>4 DEF Next

\* Inv holds in every state: no render, key or snapshot breaks it.
THEOREM Invariance == Spec => []Inv
<1>1. Init => Inv
  <2> SUFFICES ASSUME Init PROVE Inv
    OBVIOUS
  <2>1. /\ <<>> \in Seq(Nat) /\ <<>> \in Seq(Pid) /\ <<>> \in Seq(Char)
        /\ Len(<<>>) = 0
    BY EmptySeq
  <2>2. TypeOK
    <3>1. 0 \in 0..Len(Units) - 1 /\ Len(<<>>) <= MaxText
      BY <2>1, TuiAssumption
    <3>2. /\ filter_text \in Seq(Char) /\ Len(filter_text) <= MaxText
          /\ view \in Seq(Nat) /\ view_pids \in Seq(Pid)
          /\ unit \in 0..Len(Units) - 1 /\ unit_picker_cursor \in 0..Len(Units) - 1
      BY <2>1, <3>1 DEF Init
    <3> QED
      BY <3>2 DEF Init, TypeOK
  <2> QED
    BY <2>2
    DEF Init, Inv, CursorOK, CursorInWindow, CursorOnItsProcess, ScreenIsSnap
<1>2. Inv /\ [Next]_vars => Inv'
  <2> SUFFICES ASSUME Inv, [Next]_vars
               PROVE  TypeOK' /\ CursorOK'
    BY ScreenStep DEF Inv
  <2>1. TypeOK /\ CursorOK
    BY DEF Inv
  <2>2. CASE Draw \/ Redraw
    BY <2>1, <2>2, RenderStep DEF Draw, Redraw
  <2>3. ASSUME NEW up \in BOOLEAN, MoveCursor(up)
        PROVE  TypeOK' /\ CursorOK'
    BY <2>1, <2>3, MoveCursorStep
  <2>4. CASE \/ Drain \/ Hangup \/ NoKey \/ Quit \/ Ended
             \/ \E k \in SortKeys : ApplySort(k)
             \/ \E up \in BOOLEAN : MovePicker(up)
             \/ ReverseSort \/ TogglePause \/ ToggleDetail \/ ToggleDead
             \/ OpenUnit \/ Open("Filter") \/ Open("Help") \/ ClearFilter
             \/ ApplyUnit \/ Close("Unit") \/ Close("Help") \/ FilterInput
    BY <2>1, <2>4, OtherStep
  <2>5. CASE UNCHANGED vars
    <3>1. CursorOK'
      BY <2>1, <2>5, CursorFrame DEF vars
    <3> QED
      BY <2>1, <2>5, <3>1
      DEF vars, sortVars, filterVars, unitVars, cursorVars, tableVars, flagVars,
          TypeOK
  <2> QED
    BY <2>2, <2>3, <2>4, <2>5 DEF Next, HandleKey
<1> QED
  BY <1>1, <1>2, PTL DEF Spec

\* The interface keeps its types; in particular the unit picker's cursor always
\* indexes Unit::ALL, which ApplyUnit reads without a check.
THEOREM TypeCorrect == Spec => []TypeOK
  BY Invariance, PTL DEF Inv

\* For every terminal height, list and sequence of keys the cursor is on a row
\* of the table and inside the drawn window (clamp_scroll and its two callers).
THEOREM CursorIsVisible == Spec => []CursorInWindow
  BY Invariance, PTL DEF Inv, CursorOK

\* The highlighted row is the process the cursor is locked onto (render_table,
\* move_cursor).
THEOREM CursorIsOnItsProcess == Spec => []CursorOnItsProcess
  BY Invariance, PTL DEF Inv, CursorOK

\* A paused screen shows what it showed when the user paused (main's loop).
THEOREM PausedScreenIsFrozen == Spec => PauseFreezesScreen
<1>1. Inv /\ [Next]_vars => [paused => shown' = shown]_vars
  BY ScreenStep DEF Inv
<1> QED
  BY <1>1, Invariance, PTL DEF Spec, PauseFreezesScreen

\* A cursor locked onto a process follows it, or returns to the top when the
\* process is gone from the table (render_table).
THEOREM CursorFollowsItsProcess == Spec => NeverOnAStranger
<1> DEFINE A == (pc \in {"draw", "redraw"} /\ selected_pid # NoPid /\ view' # <<>>) =>
                  \/ view_pids'[selected' + 1] = selected_pid
                  \/ /\ selected' = 0 /\ selected_pid' = NoPid
                     /\ \A i \in DOMAIN view_pids' : view_pids'[i] # selected_pid
<1>1. Inv /\ [Next]_vars => [A]_vars
  <2> SUFFICES ASSUME Inv, Draw \/ Redraw, selected_pid # NoPid, view' # <<>>
               PROVE  A
    BY DEF Next, HandleKey, Drain, Hangup, Turn, NoKey, Quit, Ended, KeyIn, Action,
           ApplySort, ReverseSort, MoveCursor, MovePicker, TogglePause, ToggleDetail,
           ToggleDead, OpenUnit, Open, ClearFilter, ApplyUnit, Close, FilterInput
  <2>1. /\ TypeOK' /\ CursorOK'
        /\ selected' = Resolve(view_pids') /\ selected_pid' = ReleaseLock(view_pids')
    BY RenderStep DEF Inv, Draw, Redraw
  <2>2. CASE LockedOn(view_pids') = {}
    BY <2>1, <2>2 DEF Resolve, ReleaseLock, LockedOn
  <2>3. CASE LockedOn(view_pids') # {}
    BY <2>1, <2>3 DEF ReleaseLock, LockedOn, CursorOK, CursorOnItsProcess
  <2> QED
    BY <2>2, <2>3
<1> QED
  BY <1>1, Invariance, PTL DEF Spec, NeverOnAStranger

\* The redraw after a key finds the cursor where the key put it, unless the same
\* PID is listed above it (move_cursor, render_dead_table).
THEOREM RedrawFindsCursor == Spec => RedrawKeepsCursor
<1> DEFINE A == (pc = "redraw" /\ view' = view /\ view_pids' = view_pids /\ view # <<>>)
                => \/ selected' = selected
                   \/ \E i \in 1..selected : view_pids[i] = view_pids[selected + 1]
<1>1. Inv /\ [Next]_vars => [A]_vars
  <2> SUFFICES ASSUME Inv, Redraw, view' = view, view_pids' = view_pids, view # <<>>
               PROVE  A
    BY DEF Next, HandleKey, Drain, Hangup, Turn, Draw, NoKey, Quit, Ended, KeyIn,
           Action, ApplySort, ReverseSort, MoveCursor, MovePicker, TogglePause,
           ToggleDetail, ToggleDead, OpenUnit, Open, ClearFilter, ApplyUnit, Close,
           FilterInput
  <2>1. selected' = Resolve(view_pids)
    BY RenderStep DEF Inv, Redraw
  <2>2. /\ Len(view) \in Nat /\ Len(view) # 0
        /\ view_pids \in [1..Len(view) -> Pid]
        /\ selected \in Nat /\ selected < Len(view)
    BY DEF Inv, TypeOK, CursorOK, CursorInWindow
  <2>3. CASE selected_pid = NoPid
    BY <2>1, <2>3 DEF Resolve, LockedOn, Inv, CursorOK, CursorOnItsProcess
  <2>4. CASE selected_pid # NoPid
    <3>1. view_pids[selected + 1] = selected_pid
      BY <2>4 DEF Inv, CursorOK, CursorOnItsProcess
    <3>2. LockedOn(view_pids) # {}
      BY <2>2, <2>4, <3>1 DEF LockedOn
    <3>3. /\ Resolve(view_pids) \in Nat
          /\ view_pids[Resolve(view_pids) + 1] = selected_pid
          /\ \A j \in 1..Len(view) : view_pids[j] = selected_pid
                => Resolve(view_pids) + 1 <= j
      BY <2>2, <3>2, ResolveProps
    <3>4. Resolve(view_pids) <= selected
      BY <2>2, <3>1, <3>3
    <3> QED
      BY <2>1, <2>2, <3>1, <3>3, <3>4
  <2> QED
    BY <2>3, <2>4
<1> QED
  BY <1>1, Invariance, PTL DEF Spec, RedrawKeepsCursor
================================================================================

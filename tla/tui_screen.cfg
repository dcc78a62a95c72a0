CONSTANTS
    Pid = {1, 2, 3}
    NoPid = NoPid
    Snapshot <- MCSnapshots
    EmptySnapshot <- MCEmpty
    Height = {6, 15}
    SortKeys = {"Name", "Sent"}
    Units <- MCUnits
    Char <- MCChars
    Lower <- MCLower
    MaxText = 1
    NameHas <- MCNameHas
    PidHas <- MCPidHas
SPECIFICATION Spec
INVARIANTS TypeOK CursorInWindow CursorOnItsProcess
PROPERTIES  RedrawKeepsCursor PauseFreezesScreen

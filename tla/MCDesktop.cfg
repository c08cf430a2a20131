SPECIFICATION Spec
CONSTANTS
    None = None
    NoKey = NoKey
    NoGlobal = NoGlobal
    NoOutput = NoOutput
    Unknown = Unknown
    SeatIds = {1, 2}
    Interfaces = {"pointer", "keyboard"}
    GlobalIds = {1, 2, 3, 4}
    OutputIds = {1, 2}
    LegacyOutputs = {2}
    Names = {"n1"}
    Models = {}
    Sizes = {"z1"}
    OutputModes = {}
    Buttons = {"left"}
    PlainManagers = {2}
    Keys = {1, 2, 3, 4}
    ModifierKeys = {1}
    LockKeys = {4}
    Keymaps = {"km1", "km2"}
    Symbols <- MCSymbols
    ModifierNames = {"shift"}
    LevelNames = {"shift"}
    Compositors <- MCCompositors
    Expressions <- MCExpressions
    Chords <- MCChords
    Targets <- MCTargets
INVARIANTS
    NothingStuck
    DevicesFollowSeat
    OutputPointerIsRight
    ManagersFollowGlobals
    KeyboardAgrees
PROPERTIES
    InputIsTransparent

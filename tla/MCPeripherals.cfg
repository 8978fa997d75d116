SPECIFICATION Spec
CONSTANTS
    Starts <- McStarts
    PrintBytes = {65, 194}
    KeyBytes = {28, 97}
    Tape <- McTape
    StopStrings <- McStopStrings
    TtyBounds <- McTtyBounds
    PtrTapes <- McPtrTapes
    PtrOptions <- McPtrOptions
    PunchedBytes = {13, 127, 193}
    PtpOptions <- McPtpOptions
    MaxPunched = 3
    MaxBinits = 1
    MaxLines = 3
    MaxCtrlC = 2
    MaxAtExit = 2
    PanelProcs = {1, 2}
    Free = 0
    Toggles <- McToggles
    PanelButtons = {"CONT"}
    CollPin <- McCollPin
    BasePin <- McBasePin
    ButtonPin <- McButtonPin
    ChipOf <- McChipOf
    Chips = 2
    MaxPanel = 3
    Paddles = 2
    PadSwitches = {"cont", "bncy"}
    PaddleOf <- McPaddleOf
    Scripts <- McScripts
    MaxTime = 1
    MaxPings = 2
    MemFields = 2
    Programs <- McPrograms
    Fill = 3842
    StartAt = 128
    Switches = {128}
    FieldSwitches <- McFieldSwitches
    KeyCodes = {65}
    MaxPresses = 2
    Coords = {0, 1}
    Grays = {1, 2}
    Scales = {1, 2}
    HwRing = 2
    BuffPts = 3
    RingSize = 5
    VcBounds <- McVcBounds
    Opcodes <- McOpcodes
    Addresses = {5, 129, 400, 700}
    ExtAddrs = {1, 2}
    ExtData = {1, 2}
    Coincide = FALSE
INVARIANTS TtyRight RunRight TapeRight PromptRight NeverCooked SwitchesAsWanted FlicksSeen
    SimRight ScreenTrue Reassembled PortRight
PROPERTIES ReadsFresh AllAnswered
CHECK_DEADLOCK FALSE

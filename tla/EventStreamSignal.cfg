CONSTANTS
    d1 = d1
    d2 = d2
    NoCommand = NoCommand
    Devices <- TwoDevices
    MaxCommands = 2
    Stays = {FALSE}
SPECIFICATION MCSpec
PROPERTY SignalStopsProcess
CHECK_DEADLOCK FALSE

CONSTANTS
    Contents <- MCContents
    Levels <- MCLevels
    Info = "info"
    Unknown = "verbose"
    Rules <- MCValues
    Limits <- MCValues
    Alerts <- MCValues
    NoRules = "none"
    Defaults <- MCDefaults
    Off = Off
    Missing = Missing
    NotSet = "notset"
    NoRead = NoRead
SPECIFICATION ReloadSpec
INVARIANT PutTakesEffect

SPECIFICATION Spec
CONSTANTS
    Configs <- MCConfigs
    Versions = {"MT9V034", "MT9V032", "unknown"}
    Serials = {"none", "027"}
    MaxOpens = 2
    MaxFaults = 2
INVARIANTS
    TypeOK
    FirmwareAgrees
    ContextsAsConfigured
CHECK_DEADLOCK FALSE

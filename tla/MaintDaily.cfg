CONSTANTS
    Symbols = {qqq}
    Seedable = {qqq}
    WithYaml = {qqq}
    Defaults = {qqq}
    YamlBackup = FALSE
    Daemon = daemon
    OneShots = {once}
    OneShotJobs = {"pre_open", "tuner"}
    Faults = {"seed", "audit", "snapshot", "worker", "restore", "record", "alert", "crash"}
    MaxFaults = 2
SPECIFICATION FairSpec
PROPERTIES ReadinessHolds FreezeThaws

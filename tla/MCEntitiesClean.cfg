\* The vehicle with the last id survives a reload.
CONSTANTS
    Kind = {"vehicle", "object"}
    MAX <- MCMAX
    NotifyFirst = {FALSE}
SPECIFICATION EntitiesSpec
PROPERTIES
    AllCleaned

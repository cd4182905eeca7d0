\* Two servers, one of an older version, on three migrations.
CONSTANTS
    Last = 3
    s1 = s1
    s2 = s2
    Server = {s1, s2}
    Ships <- ShipsMixed
    MaxFaults = 2
SPECIFICATION FairMigrations
INVARIANTS TypeMigrations ServingIsComplete
PROPERTIES OneByOne ServersServe

SPECIFICATION Spec
CONSTANTS
    Absent = Absent
    Torn = Torn
    Id = {1, 2, 3}
    Text = {"web", "db"}
    Master = {"m1", "m2"}
    Filter = {"f"}
    NoFilter = "all"
    NoMaster = "unset"
    Matches <- FindsFirst
    Importable <- Files
    FirstDisk <- FirstFiles
    MaxObjects = 3
    MaxEdits = 2
    MaxUnlocks = 1
INVARIANTS TypeOK MemoryIsOnDisk RowsAreOfTheStore MasterIsVerified 

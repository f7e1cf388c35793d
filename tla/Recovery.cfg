\* A new and an old installation with one vault (another may be made), an upload, snapshots and
\* restores, stops and faults; and two vaults, with nothing but the restores of two requests.
CONSTANTS
    Vaults = {v1, v2}
    OldVaults = {v1, v2}
    OldMessages <- KindsOfOldMessages
    Uploads = {u1}
    Requests = {r1, r2}
    PageSize = 2
    Window = 3
    Keep = 1
    MaxMessages = 6
    MaxEvents = 4
    None = None
    Broken = Broken
    Same = Same
    One = v1
    OneRequest = r1
    Few = 2
SPECIFICATION MCSpec
INVARIANTS TypeOK SyncCovers RestoresSelected
PROPERTIES NewestKept StartSyncs
CHECK_DEADLOCK FALSE

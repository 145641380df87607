SPECIFICATION BusSpec
CONSTANTS
    Byte = 4
    Room = 3
    Bits = 6
    Shown = 2
    Sites = {s1, s2}
    Types <- Carried
    Texts <- TextsOf
    Numbers <- NumbersOf
    Telegrams <- TelegramsOf
    Nows <- NowsOf
    Storages <- StoragesOf
SYMMETRY Symmetry
 
 
INVARIANT LogTellsStored
INVARIANT NumbersStandForValues

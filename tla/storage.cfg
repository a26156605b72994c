SPECIFICATION OrderlySpec
CONSTANTS
  Workers = {w1, w2}
  Filenames = {f, g, bad}
  InvalidNames = {bad}
  Sizes = {0, 1, 2}
  max_available_space = 2
  Word = 8
  MaxCrashes = 1
  IOErrors = TRUE
  None = None
SYMMETRY Symmetry
INVARIANTS TypeOK ExclusiveUpload MemoryMatchesFolder Ledger WithinCapacity UploadedWhole
PROPERTIES OfferedStays ImplementsFileStore
CHECK_DEADLOCK FALSE

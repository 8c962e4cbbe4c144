CONSTANTS
  Sizes = {0, 1, 3}
  Lengths = {0, 1, 2, 7}
  WordMax = 7
  Buffers = {1, 3}
  MaxAsks = 3
SPECIFICATION DownloadSpec
INVARIANTS
  FileIsTheBlob
  BroughtWhatWasAsked
CHECK_DEADLOCK FALSE

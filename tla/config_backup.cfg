SPECIFICATION ConfigSpec
CONSTANTS
  Settings = {s1, s2}
  Factory = s1
  MaxCount = 3
  MaxSuccess = 1
  ReadFaults = FALSE
  WriteFaults = FALSE
  Bad = Bad
PROPERTIES BackupIsUsed

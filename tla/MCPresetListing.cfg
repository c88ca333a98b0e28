SPECIFICATION Spec
CONSTANTS
  kUser = kUser
  kPlugin = kPlugin
  kPlugin2 = kPlugin2
  shown = shown
  mine = mine
  downloads = downloads
  short = short
  long = long
  none = none
  Keys <- TheKeys
  Shown <- TheShown
  FolderNames <- TheFolderNames
  Names = {short, long}
  NoName = none
  DownloadsKey = kPlugin2
  DownloadsLabel = downloads
  kMaxFolders = 2
  kMaxPresetsPerFolder = 2
  TextBytes <- TheTextBytes
  JsonCapacity = 320
  Events <- TheEvents
  MaxStreams = 2
  MaxSlots = 4
INVARIANTS TypeOK KeptOrCounted CompleteDocument FlagTellsTruth
\* The device may have nothing more to send, and the bounds end every run.
CHECK_DEADLOCK FALSE

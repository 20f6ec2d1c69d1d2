SPECIFICATION DirectorySpec
CONSTANTS
  general = general
  private = private
  Channels = {general, private}
  Kind <- ChannelKinds
  Users = {u}
  Unlisted = Unlisted
  MaxChanges = 4
INVARIANT ListedAsWhatItIs
CHECK_DEADLOCK FALSE

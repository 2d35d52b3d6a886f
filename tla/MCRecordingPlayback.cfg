SPECIFICATION PlaybackSpec
CONSTANTS
  Size = 4
  MailMax = 2
  MaxStreams = 2
INVARIANTS
  PlaybackTypeOK
  EndIsKnown
PROPERTIES
  ReadGoesOn

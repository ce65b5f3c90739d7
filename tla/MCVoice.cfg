SPECIFICATION VoiceSpec
CONSTANTS
  Requests = {r1, r2}
  Sentences = 2
  MaxPresses = 2
  Sessions = {r1, r2}
  MaxAsks = 1
  MaxToggles = 2
  MaxTalks = 1
  MaxPages = 1
  MaxCalls = 3
  MaxFaults = 2
  Pages = {r1, r2}
  Beat = 2
  Believed = 5
  Poll = 1
  Delay = 1
  MaxChanges = 3
CHECK_DEADLOCK FALSE
SYMMETRY Symmetry
INVARIANTS SilenceIsKept MicrophoneIsHonest SettingsAreHonest TrayIsHonest
PROPERTY EachWriteIsItsOwn

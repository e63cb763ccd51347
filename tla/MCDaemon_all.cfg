\* One process, every command, the daemon's thread scheduled fairly.
SPECIFICATION LiveSpec
CONSTANTS
  Pids = {p1}
  NoPid = NoPid
  Ops = {"Pause", "Resume", "Redirect", "Rewind", "Takeover", "TakeoverPause", "Rot13", "ColorizeStderr", "WriteStdin", "Spawn", "Oblivion", "TerminalSizes"}
  Ttys = {"valid", "missing", "malformed"}
  MaxTtys = 2
INVARIANTS
  TypeOK
  RegistersAccountedFor
  RedirectDelivers
PROPERTIES
  PausedUntouched
  CommandEnds

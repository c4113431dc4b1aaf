\* One user, two sudo processes.
SPECIFICATION FairSpec
CONSTANTS
  Root = "root"
  Normal = {"user"}
  Passwords = {p1}
  Answers <- SomeAnswers
  SudoUsers = {1000}
  Sudos = {s1, s2}
  Timeout = 1
  NoAccount = NoAccount
  MaxClock = 2
  MaxEdits = 1
  MaxCrashes = 1
INVARIANTS TypeOK InstalledPermissions HomesKeepTheirOwner CreatedMayLogIn RootOnlyAfterPassword EchoReturns
PROPERTIES FiveMinutes RevokedStaysRevoked LockTakesEffect ConsoleComesBack

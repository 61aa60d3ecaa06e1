\* Two service accounts, two faults of any kind, one settings edit.
SPECIFICATION FairSpec
CONSTANTS
  Accounts = {svc, pwd}
  Managed = {svc}
  Admin = admin
  None = none
  MaxFaults = 2
  MaxEdits = 1
INVARIANTS SwitchMeansProfile RevokedMeansRevoked
PROPERTIES LiveSettingsNeverRegress RetryRecovers

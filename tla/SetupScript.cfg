CONSTANTS
  MaxRuns = 3
  MaxFailures = 1
SPECIFICATION Spec
INVARIANTS OneRegistrationPerName GrantsFit InstalledSecretsWork CleanRunConfigures
PROPERTIES PublishedIdsStay SavedVaultIsReused
CHECK_DEADLOCK FALSE

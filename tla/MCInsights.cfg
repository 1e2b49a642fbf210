SPECIFICATION Spec
CONSTANTS
  Fingerprints <- MCFingerprints
  GroupOf <- MCGroupOf
  Fires <- MCFires
  Emits <- MCEmits
  AlertRuns <- MCAlertRuns
  MaxData = 1
  Items <- MCItems
  AlertIds <- MCAlertIds
  Cites <- MCCites
  OtherAlerts <- MCOtherAlerts
  MaxRecommendations = 2
  Generations <- MCGenerations
INVARIANTS
  AlertTypeOK
  CompletedRunStoredAll
  StuckRunLostItsLastWrite
  OpenAlertIsCoherent
  EvidenceNotOlderThanRun
  RecTypeOK
  LinksTornOnlyMidSave
  RefusedOnlyWithoutContext
  CompletedGenerationIsWhole
  StuckGenerationLostItsLastWrite
PROPERTIES
  RunsKeepDecisions
  GenerationsKeepDecisions
CHECK_DEADLOCK FALSE

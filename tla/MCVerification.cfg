SPECIFICATION Spec
CONSTANTS
  Records <- MCRecords
  Tenants <- MCTenants
  Batches <- MCBatches
  RecordTenant <- MCRecordTenant
  BatchTenant <- MCBatchTenant
  Content <- MCContent
  Edits <- MCEdits
  DefaultIdentity <- MCDefault
  DefaultChannel = "main"
  TenantIdentity <- MCIdentity
  TenantChannel <- MCChannel
  Channels = {"main"}
  LogIds = {"b1"}
  Levels = {"INFO"}
  LegacyCounts = {0, 1, 4}
  MaxClock = 1
  Earlier = {"b1"}
  MaxEdits = 1
  MaxLogs = 1
INVARIANTS TypeOK ValidIsUnchanged NoFalseAlarm SDKAgrees ChaincodeAgreesOnV1 TenantsApart LogsStayApart ReportsAddUp
CHECK_DEADLOCK FALSE

SPECIFICATION LiveSpec
CONSTANTS
  Request = {r1, r2}
  Phone = {"phone1", "phone2", "phone9"}
  WaId = {"ana"}
  WamId = {"wam1", "wam2", "wam3"}
  Tenant = {"tenant1", "tenant2"}
  NoTenant = NoTenant
  TenantOf <- MCTenantOf
  ConvId = {c1, c2}
  NoConv = NoConv
  Webhook <- MCWebhook
  AppSecret = "app secret"
  Absent = Absent
  Malformed = Malformed
  PoolSize = 2
  MaxAttempts = 2
  MaxFaults = 2
INVARIANTS
  TypeOK
  OneOpenConversation
  ClaimMatchesMessage
  JobsOfOneEnqueue
  AnsweredIsPersisted
  FiledUnderItsSender
  InsertNeverConflicts
  ReadByItsTenant
PROPERTIES
  ImplementsInbox
  EveryPayloadAnswered
  QueuedUnlessFault

SPECIFICATION Spec
CONSTANTS
  write = write
  check = check
  publish = publish
  draftAi = draftAi
  gate = gate
  label = label
  ann = ann
  bob = bob
  eve = eve
  Handlers = {h1, h2}
  People = {ann, bob, eve}
  Admins = {}
  AiSteps = {draftAi}
  Gates = {gate}
  Tasks = {write, check, publish}
  DependsOn <- Graph
  ApprovalKind <- Approval
  Addressed <- SentTo
  Owner <- Doer
  Assigner = ann
  Attempts <- Tried
  MaxSubmits <- Submits
  NoStep = NoStep
  Nobody = Nobody
INVARIANTS ApprovalsAreIndependent CompletedOnItsApproval ApprovedWorkCompletes NothingWaitsInVain
PROPERTY PlanIsFollowed
SYMMETRY Symmetric
CHECK_DEADLOCK FALSE

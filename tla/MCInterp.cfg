SPECIFICATION Spec
CONSTANTS
  Functions <- MCFunctions
  Entry = "main"
  Nobody <- MCNobody
  Programs <- CheckedPrograms
  Bound <- NoBounds
  NoBound = NoBound
  NoValue = NoValue
  Values <- MCValues
  True = "true"
  False = "false"
  Scrutinees = {"0", "1"}
  Exprs <- MCExprs
  NoExpr = NoExpr
  Eval <- MCEval
  EvalError = EvalError
  Locals = {"x", "p"}
  Discard = "_"
  Params <- MCParams
  SlotType <- MCSlotType
  SlotInit <- MCSlotInit
  ReturnType <- MCReturnType
  Shared = {"y", "flag"}
  SharedType <- MCSharedType
  SharedInit <- MCSharedInit
  Mutexes = {m1}
  m1 = m1
  cv1 = cv1
  s1 = s1
  c0 = c0
  c1 = c1
  Condvars = {cv1}
  Semaphores = {s1}
  Channels = {c0, c1}
  Permits <- MCPermits
  Capacity <- MCCapacity
  ChannelType <- MCChannelType
  HandleNames = {"h", "k"}
  RequiresHeld <- MCRequires
  Protection <- MCProtection
  ReadsOf <- MCReadsOf
  MaxThreads = 5
  MaxFrames = 3
  MaxPermits = 3
  MonitorMax <- MCMonitorMax
  MaxId = 6
  NoFrame = NoFrame
  NoScope = NoScope
  Nothing = Nothing
INVARIANTS
  TypeOK
  WaitQueuesExact
  ScopesExact
  FramesOwned
  BlockedAtItsStatement
  RendezvousExclusive
  ResourcesBounded
  DomainsRespected
  JoinersWaitForLiveChild
  HandlesResolve
  WithinLimits
  ValidatedNeverFaults
PROPERTIES
  MutexHandover
  WaiterRegainsLock
  MessagesInOrder
  IdentitiesFresh
  ProtectedByLock
CHECK_DEADLOCK FALSE

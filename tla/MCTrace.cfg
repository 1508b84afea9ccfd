SPECIFICATION TSpec
CONSTANTS
  Functions <- TraceFunctions
  Entry = "main"
  Nobody = {}
  Programs <- TracePrograms
  Bound <- NoBounds
  NoBound = NoBound
  NoValue = NoValue
  Values <- MCValues
  True = "true"
  False = "false"
  Scrutinees = {"0", "1"}
  Exprs <- MCExprs
  NoExpr = NoExpr
  Eval <- MCEval
  EvalError = EvalError
  Locals = {"x", "p"}
  Discard = "_"
  Params <- MCParams
  SlotType <- MCSlotType
  SlotInit <- MCSlotInit
  ReturnType <- MCReturnType
  Shared = {}
  SharedType <- MCSharedType
  SharedInit <- MCSharedInit
  Mutexes = {m1, m2}
  m1 = m1
  m2 = m2
  cv1 = cv1
  s1 = s1
  c0 = c0
  c1 = c1
  Condvars = {cv1}
  Semaphores = {s1}
  Channels = {c0, c1}
  Permits <- MCPermits
  Capacity <- MCCapacity
  ChannelType <- MCChannelType
  HandleNames = {"h", "k"}
  NoEvent = NoEvent
  NoOwner = NoOwner
  NoResource = NoResource
  Modes <- TraceModes
  Contract <- ContractNames
  Overrides <- ByHand
  Unaligned = Unaligned
  Clauses <- TraceClauses
  NameOf <- TraceName
  ContractName <- InContract
INVARIANTS
  Accepted
  RestMatches
  KeysAreExact
  TraceLegal
  VerdictsReal
  ChannelCountExact
CHECK_DEADLOCK FALSE

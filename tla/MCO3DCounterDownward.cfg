CONSTANTS
  c1 = c1
  c2 = c2
  Counters <- MCCounters
  TypeOf <- MCTypeOf
  Setups <- MCContinuous
  CallbackCounts <- MCCallbackCounts
  Counts <- MCCounts
  Settable = {c1}
  Amounts <- MCAmounts
  MaxCount = 1
  MaxAmount = 3
  MaxNesting = 1

SPECIFICATION Spec

INVARIANT NoDoubleFiring

SPECIFICATION Spec
CONSTANTS
  Programs <- MCPrograms
  Flags <- MCFlags
  Substrings <- MCSubstrings
  Scale = 24
  ReliableSample = 12
  ReliableTotal = 24
INVARIANTS SummaryFollowsSamples CasesRunAsAsked SummaryIsConsistent

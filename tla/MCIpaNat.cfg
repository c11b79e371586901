SPECIFICATION Spec
CONSTANTS
  Rules = {r1, r2, r3}
  DstHash <- MCHash
  SrcHash <- MCHash
  table_entries = 2
  expn_table_entries = 4
  NoRule = NoRule
  MaxFails = 1
SYMMETRY RuleSymmetry
INVARIANTS LookupsRight TablesAgree
CHECK_DEADLOCK FALSE

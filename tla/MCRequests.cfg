SPECIFICATION Spec
CONSTANTS
  None = None
  request = request
  nested = nested
  profile = profile
  page = page
  Contexts = {request, nested}
  InitOf <- MCInitOf
  Functions = {profile, page}
  FunctionOf <- MCFunctionOf
  Calls = {c1, c2, c3}
  MaxSource = 1
SYMMETRY MCSymmetry
INVARIANTS
  TypeOK
  ServedOwnData
  MemoExact
  RevalidateSeen
CHECK_DEADLOCK FALSE

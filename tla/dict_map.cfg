\* A dictionary built by lisp_dict_new(vm, 4) and used through every operation refines a map.
CONSTANTS
  k1 = k1  k2 = k2  k3 = k3  v1 = v1  v2 = v2  undef = undef  absent = absent
  Keys <- MCKeys
  Vals <- MCVals
  Undef = undef
  Hash <- MCHash
  DictLookupCount = 2
  InitSizes = {4}
  MaxItems = 4
SPECIFICATION Spec
INVARIANTS TypeOK
PROPERTY MapRefinement

\* A two-binding dictionary literal: mkdict calls lisp_dict_new(vm, 2).
CONSTANTS
  k1 = k1  k2 = k2  k3 = k3  v1 = v1  v2 = v2  undef = undef  absent = absent
  Keys <- MCKeys
  Vals <- MCVals
  Undef = undef
  Hash <- MCHash
  DictLookupCount = 8
  InitSizes = {2}
  MaxItems = 2
SPECIFICATION Spec
INVARIANT ItemsInBlock

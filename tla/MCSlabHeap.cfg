CONSTANTS
  NumPages = 4
  NUM_CACHES = 2
  Capacity <- OneAndTwo
  Garbage = 99
  BootPrivate <- Zero
SPECIFICATION Spec
INVARIANTS
  SlabListsExact
  FreeListsExact
  PagesHaveOneUse
PROPERTY
  ImplementsObjectHeap

SPECIFICATION Spec
CONSTANT MaxThreads = 2
INVARIANT DestroyGuarantee

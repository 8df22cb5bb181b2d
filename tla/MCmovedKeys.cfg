SPECIFICATION Spec
CONSTANTS
  Num = {1, 2, 3}
  StrSeq <- MCStrSeq
  NumHash <- MCNumHash
  StrHash <- MCStrHash
  NewTables <- MCNewTables
  Template <- MCTemplate
  Scenes <- MCSparse
  Nil = Nil
  Null = Null
  xVar = xVar
  yVar = yVar
  nVar = nVar
  zVar = zVar
  sVar = sVar
  iVar = iVar
  iNext = iNext
  Left = Left
  Index = Index
  NewIndex = NewIndex
  Metatable = Metatable
  tab1 = tab1
  tab2 = tab2
  tab3 = tab3
  tab4 = tab4
  tab5 = tab5
  strP = strP
  strQ = strQ
CHECK_DEADLOCK FALSE
INVARIANTS AssertionHolds

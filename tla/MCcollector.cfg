SPECIFICATION Spec
CONSTANTS
  Obj = {"main", "a", "b", "c"}
  Main = "main"
  Heaps <- MCHeaps
  Debug <- MCDebug
  Slots = {1, 2}
  Nil = Nil
INVARIANTS NoDangling TriColor GrayListed WhiteBetween FinalizedOnce FullFreesGarbage

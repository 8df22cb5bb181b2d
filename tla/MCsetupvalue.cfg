SPECIFICATION Spec
CONSTANTS
  Obj = {"main", "a", "b", "c", "d"}
  Main = "main"
  Heaps <- MCSharing
  Debug <- MCSharing
  Slots = {1, 2}
  Nil = Nil
INVARIANTS NoDangling

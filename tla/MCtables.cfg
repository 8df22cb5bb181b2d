SPECIFICATION Spec
CONSTANTS
  Num = {1, 2, 4}
  Str = {str1, str2}
  NumHash <- MCNumHash
  FirstHashes = {0}
  Hashes = {0, 2}
  MaxReuse = 1
  MaxAbits = 5
  MaxInt = 9
  str1 = str1
  str2 = str2
  Nil = Nil
  Done = Done
SYMMETRY Symmetry
INVARIANTS TypeOK EntriesFound TraversalGoesOn CallsEnd LengthIsBorder
PROPERTIES ImplementsDictionary

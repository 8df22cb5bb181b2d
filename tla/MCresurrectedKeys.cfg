SPECIFICATION Spec
CONSTANTS
  Num = {9}
  Str = {str1, str2, str3, str4, str5}
  NumHash <- MCNumHash
  FirstHashes = {0}
  Hashes = {0, 4, 5}
  MaxReuse = 2
  MaxAbits = 5
  MaxInt = 9
  str1 = str1
  str2 = str2
  str3 = str3
  str4 = str4
  str5 = str5
  Nil = Nil
  Done = Done
SYMMETRY Symmetry
INVARIANTS EntriesFound

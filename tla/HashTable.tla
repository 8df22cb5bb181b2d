------------------------------- MODULE HashTable -------------------------------
(***************************************************************************)
(* Lua tables (lj_tab.c): an array part and a hash part of chained nodes   *)
(* with Brent's variation. A removed key stays in its node, even when its  *)
(* string is freed. When another string is then interned at the same       *)
(* address, a lookup takes the node for its own, in a chain of a hash that *)
(* may not be the hash of the new string.                                  *)
(***************************************************************************)
EXTENDS Integers, Sequences, FiniteSets, FiniteSetsExt

CONSTANTS
  Num,        \* the integer keys
  Str,        \* the addresses of strings
  NumHash,    \* the hash of each integer key
  FirstHashes, \* the hashes of the first strings
  Hashes,     \* the hashes of all strings
  MaxReuse,   \* bound: how often an address is used again
  MaxAbits,   \* LJ_MAX_ABITS, the bits of an array key
  MaxInt,     \* INT_MAX
  Nil,
  Done        \* no traversal, or its end

ASSUME TableAssumption ==
  /\ Num \subseteq Nat
  /\ Str \cap Num = {}
  /\ NumHash \in [Num -> Nat]
  /\ Hashes \subseteq Nat /\ FirstHashes \subseteq Hashes
  /\ MaxReuse \in Nat /\ MaxAbits \in Nat \ {0} /\ MaxInt \in Nat
  /\ {Nil, Done} \cap (Num \cup Str) = {} /\ Nil # Done
  /\ Nil \notin Nat /\ \A S \in SUBSET (Num \cup Str) : S # Nil

Key == Num \cup Str

VARIABLES
  strhash,  \* the hash of the string at each address
  tab,      \* the table
  iter,     \* the traversal: its key, Nil at the beginning, or Done
  visited,  \* history: the keys it has visited, or Nil
  reused    \* history: how often an address was used again

vars == <<strhash, tab, iter, visited, reused>>

EmptyNode == [key |-> Nil, val |-> Nil, next |-> Nil]

\* A table without array and hash parts has the shared nilnode.
NilNodes == [n \in {0} |-> EmptyNode]
EmptyTable == [array |-> <<>>, node |-> NilNodes, freetop |-> 0, fits |-> TRUE]

Init ==
  /\ strhash \in [Str -> FirstHashes]
  /\ tab = EmptyTable
  /\ iter = Done
  /\ visited = Nil
  /\ reused = 0
-------------------------------------------------------------------------------
(* Lookups. Array slot i is t.array[i + 1].                                *)

Asize(t) == Len(t.array)
Hmask(t) == Cardinality(DOMAIN t.node) - 1
InArray(t, k) == k \in Num /\ k < Asize(t)

\* hashkey.
MainNode(t, k) == (IF k \in Str THEN strhash[k] ELSE NumHash[k]) % (Hmask(t) + 1)

\* The nodes that the chain comes to from n on, and Nil after its end.
Walk(t, n) ==
  LET walk[i \in DOMAIN t.node] ==
        IF i = 0 THEN n ELSE IF walk[i - 1] = Nil THEN Nil ELSE t.node[walk[i - 1]].next
  IN  walk

\* The first of the nodes that the chain comes to from n on, or Nil. A chain that
\* runs in a circle is followed once.
InChain(t, n, nodes) ==
  LET first[i \in DOMAIN t.node] ==
        [m \in DOMAIN t.node |->
           IF m \in nodes THEN m
           ELSE IF t.node[m].next = Nil \/ i = 0 THEN Nil ELSE first[i - 1][t.node[m].next]]
  IN  first[Hmask(t)][n]

\* A bug: a removed key is not found.
FindLiveNode(t, k) ==
  InChain(t, MainNode(t, k), {n \in DOMAIN t.node : t.node[n].key = k /\ t.node[n].val # Nil})

\* The node with the key, or Nil.
FindNode(t, k) == InChain(t, MainNode(t, k), {n \in DOMAIN t.node : t.node[n].key = k})

\* lj_tab_get.
Get(t, k) ==
  IF InArray(t, k) THEN t.array[k + 1]
  ELSE LET n == FindNode(t, k) IN IF n = Nil THEN Nil ELSE t.node[n].val
-------------------------------------------------------------------------------
(* New keys.                                                               *)

\* The free node with the highest address below freetop.
FreeNodes(t) == {n \in DOMAIN t.node : n < t.freetop /\ t.node[n].key = Nil}

\* A string with a value, in a chain that need not be its own.
IsResurrected(t, m, n) ==
  t.node[m].key \in Str /\ t.node[m].val # Nil /\ MainNode(t, t.node[m].key) = n

\* The strings after "prev" in its chain whose main node is n go to n's chain.
Rechain(t, prev, n) ==
  LET nodes[i \in DOMAIN t.node] ==
        IF i = 0 THEN [node |-> t.node, at |-> prev]
        ELSE LET s == nodes[i - 1]
                 m == Walk(t, prev)[i]
             IN  IF m = Nil THEN s
                 ELSE IF IsResurrected(t, m, n)
                 THEN [s EXCEPT !.node = [@ EXCEPT ![s.at].next = t.node[m].next,
                                                   ![m].next = s.node[n].next, ![n].next = m]]
                 ELSE [s EXCEPT !.at = m]
  IN  [t EXCEPT !.node = nodes[Hmask(t)].node]

\* The nodes when node n is moved to the free node.
Moved(node, n, free, pred) ==
  [node EXCEPT ![pred].next = free, ![free] = node[n],
               ![n] = [node[n] EXCEPT !.val = Nil, !.next = Nil]]

\* The node before n in the chain of its key.
Pred(t, n) == InChain(t, MainNode(t, t.node[n].key), {m \in DOMAIN t.node : t.node[m].next = n})

\* A bug: the chain is not searched for strings of the freed node.
MoveNoRechain(t, n, free) == [t EXCEPT !.node = Moved(@, n, free, Pred(t, n))]

\* The colliding node is moved to the free node, and its main node is freed.
MoveColliding(t, n, free) ==
  IF Pred(t, n) = Nil THEN [t EXCEPT !.fits = FALSE]
  ELSE Rechain([t EXCEPT !.node = Moved(@, n, free, Pred(t, n))], free, n)

\* lj_tab_newkey, in a table that has room: the table and the node of the key.
NewKey(t, k) ==
  LET n == MainNode(t, k)
      free == Max(FreeNodes(t))
      u == [t EXCEPT !.freetop = free]
      at(x, m) == [tab |-> [x EXCEPT !.node[m].key = k], node |-> m]
  IN  IF t.node[n].val = Nil /\ Hmask(t) > 0 THEN at(t, n)
      ELSE IF MainNode(t, t.node[n].key) # n THEN at(MoveColliding(u, n, free), n)
      ELSE at([u EXCEPT !.node = [@ EXCEPT ![free].next = t.node[n].next, ![n].next = free]], free)

HasRoom(t, k) == (t.node[MainNode(t, k)].val = Nil /\ Hmask(t) > 0) \/ FreeNodes(t) # {}

\* lj_tab_set and a store to the slot, when no rehash is needed.
Put(t, k, v) ==
  IF InArray(t, k) THEN [t EXCEPT !.array[k + 1] = v]
  ELSE IF FindNode(t, k) # Nil THEN [t EXCEPT !.node[FindNode(t, k)].val = v]
  ELSE IF ~HasRoom(t, k) THEN [t EXCEPT !.fits = FALSE]
  ELSE LET new == NewKey(t, k) IN [new.tab EXCEPT !.node[new.node].val = v]
-------------------------------------------------------------------------------
(* Resizing.                                                               *)

Pow2[n \in Nat] == IF n = 0 THEN 1 ELSE 2 * Pow2[n - 1]
Bits == 0..MaxAbits - 1
MaxAsize == Pow2[MaxAbits - 1] + 1

\* The hash bits for a number of nodes.
Hsize2Hbits(s) == IF s = 0 THEN 0 ELSE Min({b \in 1..s : Pow2[b] >= s})

\* An array part that keeps its values, and an empty hash part.
Resized(t, asize, hbits) ==
  [t EXCEPT !.array = [j \in 1..asize |-> IF j <= Asize(t) THEN t.array[j] ELSE Nil],
            !.node = IF hbits = 0 THEN NilNodes ELSE [n \in 0..Pow2[hbits] - 1 |-> EmptyNode],
            !.freetop = IF hbits = 0 THEN 0 ELSE Pow2[hbits]]

\* The slots of the array part, then the nodes.
Slots(t) ==
  [j \in 1..Asize(t) + Hmask(t) + 1 |->
     IF j <= Asize(t) THEN [key |-> j - 1, val |-> t.array[j]]
     ELSE [key |-> t.node[j - Asize(t) - 1].key, val |-> t.node[j - Asize(t) - 1].val]]

\* A bug: the shared nilnode is given away.
ResizeFreesNilnode(t, asize, hbits) ==
  [Resized(t, asize, hbits) EXCEPT !.freetop = Pow2[hbits]]

\* A bug: the values in the array slots that go away are lost.
ResizeLosesArray(t, asize, hbits) ==
  LET slots == Slots(t)
      tables[j \in 0..Len(slots)] ==
        IF j = 0 THEN Resized(t, asize, hbits)
        ELSE IF slots[j].val = Nil \/ j <= Asize(t) THEN tables[j - 1]
        ELSE Put(tables[j - 1], slots[j].key, slots[j].val)
  IN  tables[Len(slots)]

\* resizetab: what no longer is in the array part, and all nodes, is stored anew.
Resize(t, asize, hbits) ==
  LET slots == Slots(t)
      tables[j \in 0..Len(slots)] ==
        IF j = 0 THEN Resized(t, asize, hbits)
        ELSE IF slots[j].val = Nil \/ (j <= Asize(t) /\ j <= asize) THEN tables[j - 1]
        ELSE Put(tables[j - 1], slots[j].key, slots[j].val)
  IN  tables[Len(slots)]

\* countarray, counthash: the keys that have values.
ArrayKeys(t) == {k \in 0..(Asize(t) - 1) : t.array[k + 1] # Nil}
NodeKeys(t) == {n \in DOMAIN t.node : t.node[n].val # Nil}

\* bestasize. Bin b is for the integers above 2^b up to 2^(b+1), and bin 0 for
\* all up to 2; an integer that no array part can have is not counted.
BestAsize(keys) ==
  LET ints == {k \in keys \cap Num : k < MaxAsize}
      upto(b) == {k \in ints : k <= Pow2[b + 1]}
      bin(b) == IF b = 0 THEN upto(0) ELSE upto(b) \ upto(b - 1)
      good == {b \in Bits : /\ 2 * Cardinality(ints) > Pow2[b]
                            /\ bin(b) # {}
                            /\ 2 * Cardinality(upto(b)) > Pow2[b]}
  IN  IF good = {} THEN [size |-> 0, used |-> 0]
      ELSE [size |-> Pow2[Max(good) + 1] + 1, used |-> Cardinality(upto(Max(good)))]

\* A bug: the new key is not counted.
RehashForOld(t, ek) ==
  LET nodekeys == {t.node[n].key : n \in NodeKeys(t)}
      best == BestAsize(ArrayKeys(t) \cup nodekeys)
      total == Cardinality(ArrayKeys(t)) + Cardinality(NodeKeys(t)) - best.used
  IN  Resize(t, best.size, Hsize2Hbits(total))

\* rehashtab.
Rehash(t, ek) ==
  LET nodekeys == {t.node[n].key : n \in NodeKeys(t)}
      best == BestAsize(ArrayKeys(t) \cup nodekeys \cup {ek})
      total == 1 + Cardinality(ArrayKeys(t)) + Cardinality(NodeKeys(t)) - best.used
  IN  Resize(t, best.size, Hsize2Hbits(total))

\* A store: the key is taken in even when the value is nil (lj_meta_tset).
Set(t, k, v) ==
  IF InArray(t, k) \/ FindNode(t, k) # Nil \/ HasRoom(t, k) THEN Put(t, k, v)
  ELSE Put(Rehash(t, k), k, v)
-------------------------------------------------------------------------------
(* Traversal and length.                                                   *)

\* keyindex: Nil begins the traversal, -1 is an error.
KeyIndex(t, k) ==
  IF k = Nil THEN 0
  ELSE IF InArray(t, k) THEN k + 1
  ELSE LET n == FindNode(t, k) IN IF n = Nil THEN -1 ELSE Asize(t) + n + 1

\* lj_tab_next: the next key that has a value.
NextKey(t, k) ==
  LET i == KeyIndex(t, k)
      valueAt(j) == IF j < Asize(t) THEN t.array[j + 1] ELSE t.node[j - Asize(t)].val
      later == {j \in 0..(Asize(t) + Hmask(t)) : i <= j /\ valueAt(j) # Nil}
  IN  IF i = -1 \/ later = {} THEN Done
      ELSE IF Min(later) < Asize(t) THEN Min(later) ELSE t.node[Min(later) - Asize(t)].key

\* The binary searches: the last i before a nil, between a value and a nil.
Bisect(i0, j0, present) ==
  LET step[n \in 0..(j0 - i0)] ==
        IF n = 0 THEN [i |-> i0, j |-> j0]
        ELSE LET s == step[n - 1]
                 m == (s.i + s.j) \div 2
             IN  IF s.j - s.i <= 1 THEN s
                 ELSE IF m \in present THEN [s EXCEPT !.i = m] ELSE [s EXCEPT !.j = m]
  IN  step[j0 - i0].i

GetInt(t, j) == IF j \in Num THEN Get(t, j) ELSE Nil

\* unbound_search: j is doubled until there is no value, or it is too large, when
\* all integers are tried. A table has no more values than slots.
UnboundSearch(t, j0) ==
  LET size == Asize(t) + Hmask(t) + 1
      over(s) == s.i # j0 /\ s.j > MaxInt - 2
      step[n \in 0..size] ==
        IF n = 0 THEN [i |-> j0, j |-> j0 + 1]
        ELSE LET s == step[n - 1]
             IN  IF over(s) \/ GetInt(t, s.j) = Nil THEN s ELSE [i |-> s.j, j |-> 2 * s.j]
  IN  IF over(step[size]) THEN Min({i \in 1..size + 1 : GetInt(t, i) = Nil}) - 1
      ELSE Bisect(step[size].i, step[size].j, {m \in Num : GetInt(t, m) # Nil})

\* A bug: the length of the array part.
TabLenArray(t) ==
  LET j == Asize(t)
  IN  IF j > 1 /\ t.array[j] = Nil THEN Bisect(1, j, {m \in 1..j : t.array[m] # Nil}) - 1
      ELSE IF j = 0 THEN 0 ELSE j - 1

\* lj_tab_len.
TabLen(t) ==
  LET j == Asize(t)
  IN  IF j > 1 /\ t.array[j] = Nil THEN Bisect(1, j, {m \in 1..j : t.array[m] # Nil}) - 1
      ELSE IF Hmask(t) = 0 THEN IF j = 0 THEN 0 ELSE j - 1
      ELSE UnboundSearch(t, IF j = 0 THEN 0 ELSE j - 1)
-------------------------------------------------------------------------------
(* The program. *)

\* A store to a key that has no value ends a traversal.
Assign ==
  \E k \in Key : \E v \in {Nil, k} :
    /\ tab' = Set(tab, k, v)
    /\ IF Get(tab, k) = Nil THEN iter' = Done /\ visited' = Nil
       ELSE UNCHANGED <<iter, visited>>
    /\ UNCHANGED <<strhash, reused>>

\* lj_tab_reasize: room for a list of values. The stores end a traversal.
Reasize ==
  /\ iter = Done
  /\ \E n \in Num :
       /\ n >= Asize(tab) /\ n < MaxAsize
       /\ tab' = Resize(tab, n + 1, IF Hmask(tab) = 0 THEN 0 ELSE Hsize2Hbits(Hmask(tab) + 1))
  /\ UNCHANGED <<strhash, iter, visited, reused>>

\* The string at an address that nothing refers to is freed, and another one
\* is interned there. The key of a traversal is on the stack.
Reuse ==
  /\ reused < MaxReuse
  /\ \E k \in Str, h \in Hashes :
       /\ k # iter /\ Get(tab, k) = Nil
       /\ \A n \in DOMAIN tab.node : tab.node[n].key = k => tab.node[n].val = Nil
       /\ h # strhash[k]
       /\ strhash' = [strhash EXCEPT ![k] = h]
  /\ reused' = reused + 1
  /\ UNCHANGED <<tab, iter, visited>>

Begin ==
  /\ iter' = Nil
  /\ visited' = {}
  /\ UNCHANGED <<strhash, tab, reused>>

Step ==
  /\ iter # Done
  /\ LET k == NextKey(tab, iter)
     IN  IF k \in Key THEN iter' = k /\ visited' = visited \cup {k}
         ELSE iter' = Done /\ visited' = Nil
  /\ UNCHANGED <<strhash, tab, reused>>

Next == Assign \/ Reasize \/ Reuse \/ Begin \/ Step
Spec == Init /\ [][Next]_vars
-------------------------------------------------------------------------------
TypeOK ==
  /\ strhash \in [Str -> Hashes]
  /\ tab.array \in Seq(Key \cup {Nil})
  /\ tab.node \in [0..Hmask(tab) -> [key : Key \cup {Nil}, val : Key \cup {Nil}, next : DOMAIN tab.node \cup {Nil}]]
  /\ tab.freetop \in 0..(IF Hmask(tab) = 0 THEN 0 ELSE Hmask(tab) + 1)
  /\ iter \in Key \cup {Nil, Done}
  /\ visited \in {Nil} \cup SUBSET Key
  /\ reused \in 0..MaxReuse

\* Lookups agree with what was stored and a traversal visits every entry once,
\* through collisions, moved nodes, removed keys and resizes.
Content == [k \in Key |-> Get(tab, k)]
Map == INSTANCE Dictionary WITH content <- Content
ImplementsDictionary == Map!Spec

\* Every entry is found by its key, however its string came to its node.
EntriesFound == \A n \in DOMAIN tab.node : tab.node[n].val # Nil => FindNode(tab, tab.node[n].key) = n

\* The key of a traversal is found, also when its entry was removed meanwhile:
\* there is no error "invalid key to next".
TraversalGoesOn == iter # Done => KeyIndex(tab, iter) # -1

\* Every lookup and every insertion ends: no chain runs in a circle, a resized
\* table has room for all of its entries and the new one, so that it is not
\* resized for ever, and a moved node is found in the chain of its key.
CallsEnd ==
  /\ tab.fits
  /\ \A n \in DOMAIN tab.node : InChain(tab, n, {m \in DOMAIN tab.node : tab.node[m].next = Nil}) # Nil

\* The length operator returns a border, whatever mix of array and hash parts
\* the list is in.
LengthIsBorder ==
  LET n == TabLen(tab)
  IN  /\ n # 0 => GetInt(tab, n) # Nil
      /\ GetInt(tab, n + 1) = Nil
===============================================================================

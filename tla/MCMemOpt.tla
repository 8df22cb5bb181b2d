------------------------------- MODULE MCMemOpt -------------------------------
EXTENDS MemOpt, TLC

CONSTANTS tab1, tab2, tab3, tab4, tab5, strP, strQ

MCStrSeq == <<strP, strQ, Index, NewIndex, Metatable>>
MCNumHash == [k \in Num |-> k]
\* strP and strQ collide.
MCStrHash == [k \in {strP, strQ, Index, NewIndex, Metatable} |->
                CASE k \in {strP, strQ} -> 0 [] k = Index -> 1 [] k = NewIndex -> 2 [] k = Metatable -> 3]
MCNewTables == <<tab4, tab5>>

Node(k, v) == [key |-> k, val |-> v, next |-> Nil]
Table(array, node, freetop, meta) ==
  [array |-> array, node |-> node, freetop |-> freetop, fits |-> TRUE, meta |-> meta, gen |-> 0]
NoNode == [n \in {0} |-> Node(Nil, Nil)]
TwoNodes == [n \in {0, 1} |-> Node(Nil, Nil)]

\* {strP = 1}, {strP = 1, strQ = 2}, {strQ = 2, strP = 1}, {}
TableP == Table(<<>>, (0 :> Node(strP, 1) @@ 1 :> Node(Nil, Nil)), 2, Null)
TablePQ == Table(<<>>, (0 :> [Node(strP, 1) EXCEPT !.next = 1] @@ 1 :> Node(strQ, 2)), 1, Null)
TableQP == Table(<<>>, (0 :> [Node(strQ, 2) EXCEPT !.next = 1] @@ 1 :> Node(strP, 1)), 1, Null)
Empty == Table(<<>>, NoNode, 0, Null)
Array(a) == Table(<<Nil>> \o a, NoNode, 0, Null)

MCTemplate == TableP

Run(heap, x, y, s, i) ==
  [heap |-> heap, news |-> 0,
   var |-> xVar :> x @@ yVar :> y @@ nVar :> Nil @@ zVar :> Nil @@ sVar :> s @@ iVar :> i]

Stmt(op, t, k, v) == [op |-> op, tab |-> t, key |-> k, val |-> v]
Gets(t, keys) == {Stmt("get", t, k, Nil) : k \in keys}
Sets(t, keys, vals) == {Stmt("set", t, k, v) : k \in keys, v \in vals}

Arrays ==
  LET heap == tab1 :> Array(<<1, 2, Nil>>) @@ tab2 :> Array(<<2, Nil, 1>>) @@ tab3 :> Array(<<1>>)
  IN  [runs |-> <<Run(heap, tab1, tab2, strP, 1), Run(heap, tab1, tab1, strP, 1), Run(heap, tab1, tab1, strP, 2),
                  Run(heap, tab3, tab2, strP, 1)>>,
       statements |-> Gets(xVar, {1, 2, iVar, iNext}) \cup Gets(yVar, {1}) \cup
                      Sets(xVar, {1, iVar}, {1}) \cup Sets(xVar, {iNext}, {2}) \cup
                      Sets(yVar, {1, 2}, {2}) \cup Sets(yVar, {iVar}, {zVar, Nil}),
       length |-> 3]

Hashes ==
  LET heap == tab1 :> TablePQ @@ tab2 :> TableQP
  IN  [runs |-> <<Run(heap, tab1, tab2, strP, 1), Run(heap, tab1, tab1, strP, 1), Run(heap, tab2, tab1, strQ, 1)>>,
       statements |-> Gets(xVar, {strP, strQ, sVar}) \cup Gets(yVar, {strP}) \cup
                      Sets(xVar, {strP, sVar}, {1, Nil}) \cup
                      Sets(yVar, {strP}, {2, zVar}) \cup Sets(yVar, {sVar}, {2}),
       length |-> 3]

NewKeys ==
  LET heap == tab1 :> TableP @@ tab2 :> [Array(<<1, 2>>) EXCEPT !.node = TwoNodes, !.freetop = 2] @@
             tab3 :> TableP
  IN  [runs |-> <<Run(heap, tab1, tab2, strQ, 3), Run(heap, tab2, tab1, strP, 2), Run(heap, tab1, tab1, strQ, 2),
                  Run(heap, tab1, tab3, strQ, 3)>>,
       statements |-> Gets(xVar, {strP, strQ, 1, iVar}) \cup Gets(yVar, {sVar}) \cup
                      Sets(xVar, {strP, strQ, iVar}, {1}) \cup Sets(yVar, {strQ, sVar, 3}, {2}) \cup
                      Sets(xVar, {sVar}, {Nil}),
       length |-> 3]

Allocations ==
  LET heap == tab1 :> TableP @@ tab2 :> Array(<<1, 2>>)
  IN  [runs |-> <<Run(heap, tab1, tab2, strP, 1), Run(heap, tab1, tab2, strQ, 3)>>,
       statements |-> {Stmt("new", xVar, 2, 1), Stmt("dup", xVar, Nil, Nil)} \cup
                      Gets(nVar, {strP, strQ, sVar, iVar}) \cup
                      Sets(nVar, {strP, sVar, 1, iVar}, {1}),
       length |-> 4]

Moved ==
  LET heap == tab1 :> TableP
  IN  [runs |-> <<Run(heap, tab1, tab1, strP, 3), Run(heap, tab1, tab1, strQ, 2)>>,
       statements |-> {Stmt("new", xVar, 4, 0)} \cup
                      Sets(nVar, {strP, sVar, iVar}, {1}) \cup Gets(nVar, {sVar}),
       length |-> 4]

Escaping ==
  LET heap == tab1 :> TableP @@ tab2 :> TableQP
  IN  [runs |-> <<Run(heap, tab1, tab1, strP, 1), Run(heap, tab1, tab2, strQ, 1)>>,
       statements |-> {Stmt("dup", xVar, Nil, Nil)} \cup
                      Sets(xVar, {strP}, {nVar}) \cup Gets(yVar, {strP}) \cup
                      Sets(zVar, {strP}, {2}) \cup Sets(nVar, {strP}, {1}),
       length |-> 6]

NilStores ==
  LET meta == Table(<<>>, (0 :> Node(NewIndex, 1) @@ 1 :> Node(Nil, Nil)), 2, Null)
      heap == tab1 :> [Array(<<1, 2>>) EXCEPT !.meta = tab3] @@ tab2 :> [TablePQ EXCEPT !.meta = tab3] @@ tab3 :> meta
  IN  [runs |-> <<Run(heap, tab1, tab2, strP, 1), Run(heap, tab1, tab2, strQ, 2)>>,
       statements |-> Gets(xVar, {1, iVar}) \cup Sets(xVar, {1, iVar}, {2, Nil}) \cup
                      Gets(yVar, {strP}) \cup Sets(yVar, {strP, strQ}, {1, Nil}),
       length |-> 3]

Metatables ==
  LET meta == Table(<<>>, (0 :> Node(strP, 1) @@ 1 :> Node(Nil, Nil) @@ 2 :> Node(NewIndex, Nil) @@ 3 :> Node(Nil, Nil)), 4, Null)
      heap == tab1 :> TableP @@ tab2 :> meta @@ tab3 :> [TableP EXCEPT !.meta = tab2]
  IN  [runs |-> <<Run(heap, tab1, tab2, strQ, 1), Run(heap, tab3, tab2, NewIndex, 1), Run(heap, tab1, tab1, strP, 1),
                  Run(heap, tab3, tab1, strQ, 2)>>,
       statements |-> {Stmt("new", xVar, 0, 1)} \cup
                      Gets(xVar, {strP, strQ}) \cup
                      Sets(xVar, {strP, strQ}, {1}) \cup Sets(xVar, {strP}, {Nil}) \cup
                      Sets(yVar, {NewIndex}, {1, Nil}) \cup Sets(yVar, {Index}, {1}) \cup
                      Sets(nVar, {strP}, {1}) \cup Sets(xVar, {strP}, {nVar}) \cup
                      {Stmt("setmetatable", t, Nil, v) : t \in {xVar, nVar}, v \in {yVar, Nil}},
       length |-> 3]

Lengths ==
  LET heap == tab1 :> Array(<<1, Nil, Nil>>) @@ tab2 :> [Array(<<1>>) EXCEPT !.node = TwoNodes, !.freetop = 2]
  IN  [runs |-> <<Run(heap, tab1, tab2, strP, 1), Run(heap, tab1, tab1, strP, 1), Run(heap, tab2, tab2, strQ, 1)>>,
       statements |-> {Stmt("len", t, Nil, Nil) : t \in {xVar, yVar}} \cup
                      Gets(xVar, {iNext}) \cup
                      Sets(xVar, {iNext, strP}, {1}) \cup Sets(yVar, {2}, {1}),
       length |-> 4]

\* A new table with room for integers only: the first key of another kind moves
\* an integer that is alone to the hash part.
Sparse ==
  [Moved EXCEPT !.statements = @ \cup Gets(nVar, {iVar})]
MCSparse == [sparse |-> Sparse]

MCScenes == [arrays |-> Arrays, hashes |-> Hashes, newKeys |-> NewKeys,
             allocations |-> Allocations, moved |-> Moved, escapes |-> Escaping, metatables |-> Metatables,
             nilStores |-> NilStores, lengths |-> Lengths]
===============================================================================

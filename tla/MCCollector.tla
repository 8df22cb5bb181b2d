------------------------------ MODULE MCCollector ------------------------------
(* Programs with two or three objects beside the main thread, and two slots. *)
EXTENDS Collector, TLC

Heap(a, b, c) == "main" :> "thread" @@ "a" :> a @@ "b" :> b @@ "c" :> c
MCDebug == {Heap("func", "upval", "tab")}
MCHeaps == MCDebug \cup
  {Heap("func", "upval", "func"), Heap("func", "upval", "thread"),
   Heap("udata", "tab", "none"), Heap("tab", "str", "none"),
   Heap("weakkey", "udata", "none"), Heap("weakval", "udata", "none"), Heap("weakkey", "str", "none")}

\* Two closures that share an upvalue, and a value for it.
MCSharing == {Heap("func", "upval", "func") @@ "d" :> "str"}
===============================================================================

------------------------------ MODULE Dictionary ------------------------------
(***************************************************************************)
(* What a Lua program may rely on of a table: it is a map from keys to     *)
(* values, and a traversal visits every entry once. During a traversal     *)
(* entries may be changed and removed; a store to a key without a value    *)
(* ends what is promised.                                                  *)
(***************************************************************************)
CONSTANTS Key, Nil

VARIABLES
  content,  \* the value of each key, or Nil
  visited   \* the keys a traversal has visited, or Nil when there is none

vars == <<content, visited>>

\* The value of an entry is its key: a value in a wrong place shows.
Init ==
  /\ content = [k \in Key |-> Nil]
  /\ visited = Nil

Assign ==
  LET old == content
      new == content'
  IN  \E k \in Key : \E v \in {Nil, k} :
        /\ new = [old EXCEPT ![k] = v]
        /\ visited' = IF old[k] = Nil THEN Nil ELSE visited

Begin == visited' = {} /\ UNCHANGED content

Visit ==
  \E k \in Key :
    /\ visited # Nil /\ k \notin visited
    /\ visited' = visited \cup {k}
    /\ content[k] # Nil
    /\ UNCHANGED content

End ==
  /\ visited # Nil /\ visited' = Nil
  /\ {k \in Key : content[k] # Nil} \subseteq visited
  /\ UNCHANGED content

Next == Begin \/ Visit \/ End \/ Assign

Spec == Init /\ [][Next]_vars
===============================================================================

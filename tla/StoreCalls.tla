----------------------------- MODULE StoreCalls -----------------------------
(***************************************************************************)
(* The calls that a store takes and what they return.                      *)
(***************************************************************************)
EXTENDS StoreOps

CONSTANTS
  Threads,   \* goroutines that call the store
  Ids,       \* what generateID may draw
  Values     \* the contents of a record

NoId == ""
NoCall == [op |-> "none", id |-> NoId, val |-> {}]

ASSUME NoIdAssumption == NoId \notin Ids

Rec == [id : Ids, val : Values]

\* Create and List name no id; only Create and Update bring contents (val is
\* optional: {} or {v}).  Count is left out: it locks as Get does and the
\* program never calls it.
Call ==
  [op : {"create"}, id : {NoId}, val : {{v} : v \in Values}]
    \cup [op : {"update"}, id : Ids, val : {{v} : v \in Values}]
    \cup [op : {"delete", "get"}, id : Ids, val : {{}}]
    \cup [op : {"list"}, id : {NoId}, val : {{}}]

\* out is the part of the map that is returned: the record of Create, Get and
\* Update, all of them for List.
Found(out) == {[ok |-> TRUE, out |-> out]}
NotFound == {[ok |-> FALSE, out |-> EmptyStore]}
Only(s, id) == [k \in {id} |-> s[k]]
=============================================================================

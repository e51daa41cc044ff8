------------------------------- MODULE Logged ------------------------------
(* What is logged is a tree: an object is the sequence of its fields, and  *)
(* Falsy stands for the values that are never taken (null, '', 0).         *)
CONSTANT Falsy

Value(v) == [kind |-> "value", value |-> v, fields |-> <<>>]
AnError(e) == [kind |-> "error", value |-> e, fields |-> <<>>]
Object(fields) == [kind |-> "object", value |-> Falsy, fields |-> fields]
Field(key, node) == [key |-> key, node |-> node]
Array(nodes) == Object([i \in DOMAIN nodes |-> Field("item", nodes[i])])
Nothing == <<>>
=============================================================================

----------------------------- MODULE LogContext ----------------------------
(***************************************************************************)
(* The context that a logger finds in what it is given (nestjs-telemetry,  *)
(* logger/LogContext.ts).  Attributes that are functions are left out.     *)
(***************************************************************************)
EXTENDS Logged, Naturals, Sequences, SequencesExt, TLC

CONSTANTS
  Attributes,  \* contextAttributes
  MaxDepth,    \* maximumDepth
  Cut          \* what an object that is too deep is replaced by

-----------------------------------------------------------------------------
(* What is found first stays, what the parent has stays.                   *)

\* Mutant: what is found replaces what the parent has.
FoundFirst(found, parent) == found @@ parent
ParentFirst(found, parent) == parent @@ found

RECURSIVE FindInner(_, _, _)
FindInner(depth, parent, params) ==
  LET Take(known, found, field) ==
        IF field.key \in DOMAIN parent \cup known THEN found
        ELSE IF field.node.kind # "value"
             THEN found @@ FindInner(depth + 1, found, <<field.node>>)
        ELSE IF field.key \in Attributes /\ field.node.value # Falsy
             THEN found @@ (field.key :> field.node.value)
        ELSE found
      FindIn(found, node) ==
        FoldLeft(LAMBDA f, field : Take(DOMAIN found, f, field), found, node.fields)
  IN  IF params = <<>> THEN Nothing
      ELSE IF depth >= MaxDepth THEN parent
      ELSE ParentFirst(FoldLeft(FindIn, Nothing, params), parent)

FindLogContext(parent, params) == FindInner(0, parent, params)

(* safeStringify and JSON.parse: what is too deep becomes a text, and of   *)
(* an error nothing is left.                                               *)
RECURSIVE Safe(_, _)
Safe(depth, node) ==
  CASE node.kind = "value" -> node
    [] depth >= MaxDepth -> Value(Cut)
    [] OTHER -> Object([i \in DOMAIN node.fields |->
                  Field(node.fields[i].key, Safe(depth + 1, node.fields[i].node))])

WithoutErrors(params) == SelectSeq(params, LAMBDA p : p.kind # "error")
GetLogContext(parent, params) ==
  FindLogContext(parent, <<Safe(0, Array(WithoutErrors(params)))>>)

-----------------------------------------------------------------------------
(* Where a value is in the tree, and under which names.                    *)
RECURSIVE Places(_, _, _)
Places(node, path, names) ==
  UNION {LET f == node.fields[i] IN
         IF f.node.kind = "value"
         THEN {[path |-> Append(path, i), names |-> names, key |-> f.key, value |-> f.node.value]}
         ELSE Places(f.node, Append(path, i), names \cup {f.key}) : i \in DOMAIN node.fields}
Before(p, q) ==
  \E i \in DOMAIN p \cap DOMAIN q :
    p[i] < q[i] /\ \A j \in 1 .. i - 1 : p[j] = q[j]
\* What is written in a call and may be taken; the array is the first level.
Takeable(params) ==
  {p \in Places(Array(WithoutErrors(params)), <<>>, {}) :
     p.key \in Attributes /\ p.value # Falsy /\ Len(p.path) <= MaxDepth}

(* No object is named like an attribute: its fields would be passed over   *)
(* once that attribute is known.                                           *)
NamesApart(params) == \A p \in Places(Array(params), <<>>, {}) : p.names \cap Attributes = {}

(* An attribute keeps the value the parent has, be it null, and otherwise  *)
(* has the value that is written first in the call, however deep; nothing  *)
(* else is in the context.                                                 *)
IsFirstFound(context, parent, params) ==
  /\ DOMAIN context = DOMAIN parent \cup {p.key : p \in Takeable(params)}
  /\ \A k \in DOMAIN context :
       IF k \in DOMAIN parent THEN context[k] = parent[k]
       ELSE \E p \in Takeable(params) :
              /\ p.key = k /\ p.value = context[k]
              /\ \A q \in Takeable(params) : q.key = k => q = p \/ Before(p.path, q.path)
=============================================================================

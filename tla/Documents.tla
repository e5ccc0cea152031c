----------------------------- MODULE Documents -----------------------------
(***************************************************************************)
(* One document of an agent on its way through the server's pure           *)
(* functions: an amount, an ABI value, a contract call, an action, a log   *)
(* query, the JSON bodies of two policy revisions.                         *)
(***************************************************************************)
EXTENDS Requests, PolicyTexts, JsValues, HostValues

CONSTANTS
    Typed,        \* pairs of an ABI type and a JSON value offered for it
    Jsons         \* JSON bodies of two policy revisions

(***************************************************************************)
(* The way of a decoded value through JSON, JavaScript and JSON again.     *)
(***************************************************************************)
JsType == [num |-> "int", float |-> "float", str |-> "decimal", list |-> "array"]

RECURSIVE AsJs(_)
AsJs(v) ==
    CASE v.k = "list" -> [t |-> "array", items |-> [i \in DOMAIN v.items |-> AsJs(v.items[i])]]
      [] v.k \in DOMAIN JsType -> [t |-> JsType[v.k], n |-> v.n]
      [] OTHER -> [t |-> v.k, v |-> v]

RECURSIVE AsHost(_)
AsHost(j) ==
    CASE j.t = "array" -> [k |-> "list", items |-> [i \in DOMAIN j.items |-> AsHost(j.items[i])]]
      [] j.t = "int" -> [k |-> "num", n |-> j.n]
      [] j.t = "float" -> [k |-> "float", n |-> j.n]
      [] j.t = "decimal" -> [k |-> "str", n |-> j.n]
      [] OTHER -> j.v

ThroughJs(v) == AsHost(JsToJson(JsonToJs(AsJs(v))).val)

-----------------------------------------------------------------------------
PassValue == Blank /\ \E p \in Typed :
    Enter([topic |-> "value", type |-> p[1], answer |-> JsToDyn(p[2], p[1])])

(***************************************************************************)
(* diff_json.  A JSON object is [obj |-> f], anything else [leaf |-> v];   *)
(* a path is a sequence of keys.  Arrays are replaced whole.               *)
(***************************************************************************)
IsObject(v) == "obj" \in DOMAIN v

\* The walk goes over the keys of both objects.
KeysOf(a, b) == DOMAIN a \cup DOMAIN b

RECURSIVE DiffJson(_, _, _)
DiffJson(path, old, new) ==
    LET a == old.obj
        b == new.obj
        at(k) == Append(path, k)
        under(k) ==
            CASE k \in DOMAIN a \cap DOMAIN b -> DiffJson(at(k), a[k], b[k])
              [] k \notin DOMAIN a -> {[op |-> "add", path |-> at(k), value |-> b[k]]}
              [] OTHER             -> {[op |-> "remove", path |-> at(k)]}
    IN  IF old = new THEN {}
        ELSE IF IsObject(old) /\ IsObject(new)
             THEN UNION {under(k) : k \in KeysOf(a, b)}
             ELSE {[op |-> "replace", path |-> path, value |-> new]}

DiffBodies == Blank /\ \E old, new \in Jsons :
    Enter([topic |-> "diff", old |-> old, new |-> new, ops |-> DiffJson(<<>>, old, new)])

NextDocument == PassValue \/ DiffBodies

Next == NextDocument \/ NextRequest \/ NextCall \/ NextText

Spec == Unread /\ [][Next]_doc

\* An integer that JSON writes as a number and JavaScript keeps as a float.
RECURSIVE TurnsFloat(_)
TurnsFloat(d) ==
    CASE d.k \in {"uint", "int"} ->
           UsesNumber(d.bits) /\ (d.n > IntMax \/ d.n < -IntMax - 1)
      [] d.k \in {"tuple", "array", "fixedarray"} ->
           \E i \in DOMAIN d.items : TurnsFloat(d.items[i])
      [] OTHER -> FALSE

-----------------------------------------------------------------------------
\* RFC 6902 on objects: the operations applied to a body.
Under(ops, k) == {[o EXCEPT !.path = Tail(@)] : o \in {o \in ops : o.path # <<>> /\ o.path[1] = k}}
Whole1(ops) == {o \in ops : o.path = <<>>}

RECURSIVE Patch(_, _)
Patch(body, ops) ==
    LET keys    == {o.path[1] : o \in ops}
        gone    == {k \in keys : \E o \in Whole1(Under(ops, k)) : o.op = "remove"}
        present == DOMAIN body.obj
        set(k)  == (CHOOSE o \in Whole1(Under(ops, k)) : TRUE).value
    IN  IF Whole1(ops) # {} THEN (CHOOSE o \in Whole1(ops) : TRUE).value
        ELSE IF ops = {} THEN body
        ELSE [obj |-> [k \in (present \cup keys) \ gone |->
                 IF k \in present THEN Patch(body.obj[k], Under(ops, k)) ELSE set(k)]]

(* An ABI value that was read, shown to the strategy and passed on encodes *)
(* to itself, with the one exception the code has: a number beyond i32     *)
(* comes back as a float, which parse_uint refuses (dyn_abi.rs,            *)
(* json_to_qjs_value and qjs_value_to_json).                               *)
ValuesInvert ==
    doc.topic = "value" /\ doc.answer.ok =>
        LET again == JsToDyn(ThroughJs(ReadAnswer(<<doc.answer.val>>)), doc.type)
        IN  IF TurnsFloat(doc.answer.val) THEN ~again.ok ELSE again = doc.answer

(* The structured diff of policy_set is complete: applied to the old body  *)
(* it gives the new one (policy_diff.rs diff_json).                        *)
DiffReplays == doc.topic = "diff" => Patch(doc.old, doc.ops) = doc.new

(* What was converted is found again: a value in JavaScript, a revision in *)
(* its diff.                                                               *)
ConversionsInvert == ValuesInvert /\ DiffReplays

=============================================================================

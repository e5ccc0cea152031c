----------------------------- MODULE JsValues -----------------------------
(***************************************************************************)
(* The boundary between the strategy's JavaScript values and the host:     *)
(* strategy-js/src/sandbox.rs, the functions below `execute`.  A JSON      *)
(* value is the same kind of record as a JavaScript value (NodeReads),     *)
(* with the JSON types.  Every conversion answers Ok(value) or Fail(why):  *)
(* in the code, a thrown JS error.  The strings themselves, and the        *)
(* messages, are left out.                                                 *)
(***************************************************************************)
EXTENDS NodeReads

CONSTANT IntMax    \* i32::MAX, the largest value QuickJS keeps as an int

ASSUME JsValuesAssumption == IntMax \in Nat /\ IntMax < WordMax

(***************************************************************************)
(* Values both ways.                                                       *)
(***************************************************************************)
Unserializable ==
    {"function", "symbol", "bigint", "promise", "proxy", "exception", "module"}

RECURSIVE JsToJson(_)
JsToJson(v) ==
    IF v.t \in Unserializable THEN Fail(v.t)
    ELSE IF IsNullish(v) THEN Ok(Null)
    ELSE IF v.t = "float" /\ ~v.finite THEN Fail("non_finite")
    ELSE IF v.t \in {"array", "object"} THEN
        LET parts == [i \in DOMAIN v.items |-> JsToJson(v.items[i])]
            bad   == {i \in DOMAIN parts : ~parts[i].ok}
        IN  IF bad # {} THEN parts[Min(bad)]
            ELSE Ok([v EXCEPT !.items = [i \in DOMAIN parts |-> parts[i].val]])
    ELSE Ok(v)

\* Slip: every JSON integer becomes a JS int.
RECURSIVE JsonToJsSlip(_)
JsonToJsSlip(v) ==
    IF v.t = "int" THEN [t |-> "int", n |-> v.n % (IntMax + 1)]
    ELSE IF v.t \in {"array", "object"}
         THEN [v EXCEPT !.items = [i \in DOMAIN v.items |-> JsonToJsSlip(v.items[i])]]
         ELSE v

RECURSIVE JsonToJs(_)
JsonToJs(v) ==
    IF v.t = "int" /\ (v.n > IntMax \/ v.n < -IntMax - 1)
    THEN [t |-> "float", n |-> v.n, frac |-> FALSE, finite |-> TRUE]
    ELSE IF v.t \in {"array", "object"}
         THEN [v EXCEPT !.items = [i \in DOMAIN v.items |-> JsonToJs(v.items[i])]]
         ELSE v

=============================================================================

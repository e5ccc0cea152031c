---------------------------- MODULE HostValues ----------------------------
(***************************************************************************)
(* ABI values on their way through the JSON that the strategy sees         *)
(* (executor-evm dyn_abi.rs, read.rs).                                     *)
(***************************************************************************)
EXTENDS NodeReads

CONSTANTS
    NumberBits,    \* 32, the widest integer written as a JSON number
    WideBits       \* 256, the bits of a word

ASSUME HostValuesAssumption ==
    NumberBits \in Nat /\ WideBits \in Nat /\ NumberBits < WideBits

(***************************************************************************)
(* ABI values.  A type is [k |-> kind, ...] with its width, its inner      *)
(* types or its length; a JSON value has the kind "num" or "str" for       *)
(* integers (both with the integer n), the rest as in the type.            *)
(***************************************************************************)
FitsUint(n, bits) == n >= 0 /\ (bits >= WideBits \/ n < 2^bits)
FitsInt(n, bits) == n >= -(2^(bits - 1)) /\ n < 2^(bits - 1)
UsesNumber(bits) == bits <= NumberBits

\* A JSON number that is not an integer ("float") is never one for as_u64,
\* whatever its value.
ParseUint(v, bits) ==
    CASE v.k \notin {"num", "float", "str"} -> Fail("type_mismatch")
      [] v.k # "str" /\ ~UsesNumber(bits) -> Fail("type_mismatch")
      [] v.k = "float" -> Fail("out_of_range")
      [] v.n < 0 -> Fail(IF v.k = "num" THEN "out_of_range" ELSE "bad_decimal")
      [] ~FitsUint(v.n, bits) -> Fail("out_of_range")
      [] OTHER -> Ok([k |-> "uint", bits |-> bits, n |-> v.n])

\* The width of a signed integer is left to the encoder.
ParseInt(v, bits) ==
    CASE v.k \notin {"num", "float", "str"} -> Fail("type_mismatch")
      [] v.k # "str" /\ ~UsesNumber(bits) -> Fail("type_mismatch")
      [] v.k = "float" -> Fail("out_of_range")
      [] ~FitsInt(v.n, WideBits) -> Fail("bad_decimal")
      [] OTHER -> Ok([k |-> "int", bits |-> bits, n |-> v.n])

IntegerToJson(v) == [k |-> IF UsesNumber(v.bits) THEN "num" ELSE "str", n |-> v.n]

Scalars == {"bool", "string", "address", "bytes"}

RECURSIVE JsToDyn(_, _)
JsToDyn(v, ty) ==
    LET inner(i) == CASE ty.k = "tuple" -> ty.inner[i] [] OTHER -> ty.inner[1]
        parts == [i \in DOMAIN v.items |-> JsToDyn(v.items[i], inner(i))]
        bad   == {i \in DOMAIN parts : ~parts[i].ok}
    IN  CASE ty.k = "uint" -> ParseUint(v, ty.bits)
          [] ty.k = "int" -> ParseInt(v, ty.bits)
          [] ty.k \in Scalars ->
               IF v.k = ty.k THEN Ok(v) ELSE Fail("type_mismatch")
          [] ty.k = "fixedbytes" ->
               IF v.k = "bytes" /\ v.n = ty.bits
               THEN Ok([k |-> "fixedbytes", n |-> v.n]) ELSE Fail("type_mismatch")
          [] ty.k \notin {"tuple", "array", "fixedarray"} -> Fail("type_mismatch")
          [] v.k # "list" -> Fail("type_mismatch")
          [] ty.k = "tuple" /\ Len(v.items) # Len(ty.inner) -> Fail("arity_mismatch")
          [] ty.k = "fixedarray" /\ Len(v.items) # ty.length -> Fail("arity_mismatch")
          [] bad # {} -> parts[Min(bad)]
          [] OTHER -> Ok([k |-> ty.k, items |-> [i \in DOMAIN parts |-> parts[i].val]])

RECURSIVE DynToJs(_)
DynToJs(d) ==
    CASE d.k \in {"uint", "int"} -> IntegerToJson(d)
      [] d.k = "fixedbytes" -> [k |-> "bytes", n |-> d.n]
      [] d.k \in {"tuple", "array", "fixedarray"} ->
           [k |-> "list", items |-> [i \in DOMAIN d.items |-> DynToJs(d.items[i])]]
      [] OTHER -> d

\* One output unwraps to its value, several make a list.
ReadAnswer(outputs) ==
    IF Len(outputs) = 1 THEN DynToJs(outputs[1])
    ELSE [k |-> "list", items |-> [i \in DOMAIN outputs |-> DynToJs(outputs[i])]]

=============================================================================

------------------------------- MODULE Units -------------------------------
(***************************************************************************)
(* Decimal amounts: executor-evm units.rs and action.rs, behind ctx.units  *)
(* of the sandbox.  A numeral is a sequence of digits in CONSTANT Base,    *)
(* most significant first; signs, the dot and the x of a hex prefix are    *)
(* the integers above the digits.                                          *)
(***************************************************************************)
EXTENDS NodeReads

CONSTANTS
    Base,          \* 10, the base of the decimal strings
    MaxDecimals,   \* 77, units.rs MAX_DECIMALS
    DecimalsMax,   \* 255, the largest decimals a u8 holds
    UintMax,       \* U256::MAX
    Numerals,      \* decimal strings, as sequences of digits and signs
    DecimalsArgs   \* JavaScript values given as a number of decimals

ASSUME UnitsAssumption ==
    /\ Base \in Nat /\ Base > 1
    /\ MaxDecimals \in Nat /\ DecimalsMax \in Nat /\ UintMax \in Nat
    /\ \A s \in Numerals : s \in Seq(Nat)
    /\ \A v \in DecimalsArgs : IsNumber(v) /\ IsFinite(v) => v.n \in Int

Dot == Base
Minus == Base + 1
Plus == Base + 2
HexX == Base + 3

AllDigits(s) == \A i \in DOMAIN s : s[i] < Base

Value(s) ==
    LET value[n \in 0..Len(s)] == IF n = 0 THEN 0 ELSE value[n - 1] * Base + s[n]
    IN  value[Len(s)]

Zeros(n) == [i \in 1..n |-> 0]

Numeral(n) ==
    LET numeral[m \in 0..n] ==
            IF m < Base THEN <<m>> ELSE Append(numeral[m \div Base], m % Base)
    IN  numeral[n]

ToUint(s) == IF Value(s) > UintMax THEN Fail("amount_overflow_u256") ELSE Ok(Value(s))

(***************************************************************************)
(* parse_units and format_units.                                           *)
(***************************************************************************)
Signed(s, sign) == s # <<>> /\ s[1] = sign
HexPrefixed(s) == Len(s) > 1 /\ s[1] = 0 /\ s[2] = HexX
Dots(s) == {i \in DOMAIN s : s[i] = Dot}
Whole(s) == IF Dots(s) = {} THEN s ELSE SubSeq(s, 1, Min(Dots(s)) - 1)
Fraction(s) == IF Dots(s) = {} THEN <<>> ELSE SubSeq(s, Min(Dots(s)) + 1, Len(s))

ParseUnits(s, decimals) ==
    IF decimals > MaxDecimals THEN Fail("decimals_out_of_range")
    ELSE IF s = <<>> THEN Fail("amount_empty")
    ELSE IF Signed(s, Minus) THEN Fail("amount_negative")
    ELSE IF Signed(s, Plus) \/ HexPrefixed(s) THEN Fail("amount_not_decimal")
    ELSE IF Cardinality(Dots(s)) > 1 THEN Fail("amount_not_decimal")
    ELSE IF Len(Fraction(s)) > decimals THEN Fail("amount_overflow_fraction")
    ELSE IF ~AllDigits(Whole(s) \o Fraction(s)) THEN Fail("amount_not_decimal")
    ELSE IF Whole(s) \o Fraction(s) = <<>> THEN Fail("amount_not_decimal")
    ELSE ToUint(Whole(s) \o Fraction(s)
                  \o Zeros(decimals - Len(Fraction(s))))

TrimZeros(s) ==
    LET kept == {i \in DOMAIN s : s[i] # 0}
    IN  IF kept = {} THEN <<>> ELSE SubSeq(s, 1, Max(kept))

FormatUnits(value, decimals) ==
    LET s     == Numeral(value)
        whole == IF Len(s) <= decimals THEN <<0>> ELSE SubSeq(s, 1, Len(s) - decimals)
        frac  == IF Len(s) <= decimals THEN Zeros(decimals - Len(s)) \o s
                 ELSE SubSeq(s, Len(s) - decimals + 1, Len(s))
    IN  IF decimals > MaxDecimals THEN Fail("decimals_out_of_range")
        ELSE IF decimals = 0 THEN Ok(s)
        ELSE IF TrimZeros(frac) = <<>> THEN Ok(whole)
        ELSE Ok(whole \o <<Dot>> \o TrimZeros(frac))

FormatUnitsFromStr(s, decimals) ==
    IF s = <<>> THEN Fail("amount_empty")
    ELSE IF Signed(s, Minus) THEN Fail("amount_negative")
    ELSE IF ~AllDigits(s) THEN Fail("amount_not_decimal")
    ELSE IF ~ToUint(s).ok THEN ToUint(s)
    ELSE FormatUnits(ToUint(s).val, decimals)

ValidateDecimalAmount(s) ==
    IF s = <<>> \/ ~AllDigits(s) THEN Fail("bad_decimal")
    ELSE IF ~ToUint(s).ok THEN Fail("bad_decimal")
    ELSE ToUint(s)

(***************************************************************************)
(* ctx.units.                                                              *)
(***************************************************************************)
ParseDecimals(v) ==
    IF NonNegativeWhole(v) /\ v.n <= DecimalsMax THEN Ok(v.n) ELSE Fail("decimals")

UnitsCall(amount, decimals, Convert(_, _)) ==
    IF amount.t = "bigint" THEN Fail("bigint")
    ELSE IF ~IsString(amount) THEN Fail("not_string")
    ELSE IF ~ParseDecimals(decimals).ok THEN Fail("decimals")
    ELSE Convert(amount, ParseDecimals(decimals).val)

\* ctx.units.parseUnits and formatUnits on the text of a numeral.
Numeric(s) == [t |-> "text", s |-> s]
ParseAmount(s, decimals) == UnitsCall(Numeric(s), decimals, LAMBDA a, d : ParseUnits(a.s, d))
FormatAmount(n, decimals) ==
    UnitsCall(Numeric(Numeral(n)), decimals, LAMBDA a, d : FormatUnitsFromStr(a.s, d))

ConvertAmount == Blank /\ \E s \in Numerals, d \in DecimalsArgs :
    Enter([topic |-> "amount", decimals |-> d, answer |-> ParseAmount(s, d)])

-----------------------------------------------------------------------------
(* formatUnits writes what parseUnits reads back, at every number of       *)
(* decimals (units.rs).                                                    *)
AmountsInvert ==
    doc.topic = "amount" /\ doc.answer.ok =>
        LET text == FormatAmount(doc.answer.val, doc.decimals)
        IN  /\ text.ok /\ ParseAmount(text.val, doc.decimals) = doc.answer
            /\ ValidateDecimalAmount(Numeral(doc.answer.val)) = doc.answer
=============================================================================

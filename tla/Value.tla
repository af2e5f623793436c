------------------------------- MODULE Value -------------------------------
(***************************************************************************)
(* The tagged union lmx::runtime::Value (src/runtime/value).  A value is a *)
(* type tag and eight bytes.  The code reads and writes either all eight   *)
(* bytes (i64, u64, f64, ptr, str) or only the lowest one (b, u8), so a    *)
(* value is modelled by its tag, its low byte lo and its other bytes hi,   *)
(* which keeps the stale high bytes that a narrow store leaves behind.     *)
(***************************************************************************)
EXTENDS Integers

CONSTANTS BYTE,  \* number of values of the low byte       (256 in the code)
          HIGH   \* number of values of the other bytes    (2^56 in the code)

ASSUME ByteAssumption == BYTE \in Nat /\ BYTE > 1
ASSUME HighAssumption == HIGH \in Nat /\ HIGH > 0

WORD == BYTE * HIGH

ValueType == {"Bool", "Int", "Float", "Str", "Ptr", "Null"}

Values == [type : ValueType, lo : 0 .. BYTE - 1, hi : 0 .. HIGH - 1]

-----------------------------------------------------------------------------
(* Reading the union. *)

u64(v) == v.lo + BYTE * v.hi

\* two's complement: the upper half of the words is negative
i64(v) == IF 2 * u64(v) >= WORD THEN u64(v) - WORD ELSE u64(v)

-----------------------------------------------------------------------------
(* The overloaded operator= of Value.  Bits(t, w) stores all eight bytes   *)
(* of the (wrapped) integer w under the tag t.                             *)

Bits(t, w) == [type |-> t, lo |-> w % BYTE, hi |-> (w \div BYTE) % HIGH]

Int64(w) == Bits("Int", w)       \* operator=(int64_t), operator=(uint64_t)
CharPtr(w) == Bits("Str", w)     \* operator=(char* )
VoidPtr(w) == Bits("Ptr", w)     \* operator=(void* )

\* Value::Value()
DefaultValue == VoidPtr(0)

\* A store through the union member b: the low byte only, no tag.
set_b(v, b) == [v EXCEPT !.lo = b]

dec_byte(v) == [v EXCEPT !.lo = @ - 1]   \* mutant: no borrow

\* v.i64-- : all bytes, no tag
dec(v) == Bits(v.type, u64(v) - 1)

\* operator=(const Value&): the tag always, the bytes according to the tag
assign(dst, src) ==
    CASE src.type = "Bool" -> [dst EXCEPT !.type = "Bool", !.lo = src.lo]
      [] src.type = "Null" -> Bits("Null", 0)
      [] OTHER -> src

\* What a copy promises to carry over: everything the tag makes meaningful.
View(v) ==
    CASE v.type = "Bool" -> <<v.type, v.lo, 0>>
      [] v.type = "Null" -> <<v.type, 0, 0>>
      [] OTHER -> <<v.type, v.lo, v.hi>>

-----------------------------------------------------------------------------
(* Arithmetic of C++ on int64_t: / and % truncate towards zero. *)

Abs(n) == IF n < 0 THEN -n ELSE n

TruncDiv(a, b) == IF (a < 0) = (b < 0) THEN Abs(a) \div Abs(b)
                                       ELSE -(Abs(a) \div Abs(b))

FloorMod(a, b) == a - Abs(b) * (a \div Abs(b))   \* mutant: never negative
TruncMod(a, b) == IF a < 0 THEN -(Abs(a) % Abs(b)) ELSE Abs(a) % Abs(b)

-----------------------------------------------------------------------------
(* Value::to_string, without its formatting: what is printed, and of what. *)

Tokens == [text : {"int", "str", "float", "true", "false", "null", "empty"},
           word : 0 .. WORD - 1]

Token(t, w) == [text |-> t, word |-> w]

to_string(v) ==
    CASE v.type = "Int"   -> Token("int", u64(v))
      [] v.type = "Bool"  -> Token(IF v.lo # 0 THEN "true" ELSE "false", 0)
      [] v.type = "Str"   -> Token("str", u64(v))
      [] v.type = "Float" -> Token("float", u64(v))
      [] v.type = "Null"  -> Token("null", 0)
      [] OTHER            -> Token(IF u64(v) = 0 THEN "null" ELSE "empty", 0)
=============================================================================

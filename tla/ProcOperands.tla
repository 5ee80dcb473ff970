----------------------------- MODULE ProcOperands -----------------------------
(***************************************************************************)
(* Typed values as the instruction handlers compute with them: parameters  *)
(* of the types of libparam are widened to operands of one width, combined *)
(* there, and written back in the type of the first operand.               *)
(*                                                                         *)
(* A parameter holds a number of Bits[type] bits, without a sign; what it  *)
(* means depends on its type. Hexadecimal types are those of the same      *)
(* width. The value of a FLOAT is not modelled: its comparisons and        *)
(* operations may have any result. A string is no operand: reading one     *)
(* into an operand writes behind it, for any string longer than a pointer. *)
(***************************************************************************)
EXTENDS Integers

CONSTANTS
    Bits,         \* width of each type in use (8, 16, 32 or 64)
    OperandBits   \* width of an operand (64)

UINT == {"UINT8", "UINT16", "UINT32", "UINT64"}
INT == {"INT8", "INT16", "INT32", "INT64"}
FLOAT == {"FLOAT", "DOUBLE"}

ASSUME OperandsAssumption ==
    /\ OperandBits \in Nat \ {0}
    /\ DOMAIN Bits # {} /\ DOMAIN Bits \subseteq UINT \cup INT \cup FLOAT \cup {"DATA"}
    /\ \A type \in DOMAIN Bits : Bits[type] \in 1 .. OperandBits

\* What ^ means; the provers do not know it.
ASSUME PowerAssumption == 2 ^ 0 = 1 /\ \A n \in 0 .. 2 * OperandBits : 2 ^ (n + 1) = 2 * 2 ^ n

Raw(type) == 0 .. 2 ^ Bits[type] - 1

\* operand_type_t of a parameter's type; DATA has none.
Kind(type) ==
    CASE type \in UINT -> "UINT" [] type \in INT -> "INT" [] type \in FLOAT -> "FLOAT"
      [] OTHER -> "NONE"

\* parse_param_to_operand: the number a parameter stands for.
Parsed(type, raw) ==
    IF Kind(type) = "INT" /\ raw >= 2 ^ (Bits[type] - 1) THEN raw - 2 ^ Bits[type] ELSE raw

\* operand_to_valuebuf: as many bits as the type of the first operand has, in a
\* buffer of zeros, lowest first. The destination takes as many as it has.
Written(type, value) == value % 2 ^ Bits[type]
Taken(type, buffer) == buffer % 2 ^ Bits[type]

\* The operands an integer of a kind can be.
Operands(kind) ==
    IF kind = "UINT" THEN 0 .. 2 ^ OperandBits - 1
    ELSE -(2 ^ (OperandBits - 1)) .. 2 ^ (OperandBits - 1) - 1

\* Division rounds towards zero.
Magnitude(x) == IF x < 0 THEN -x ELSE x
Quotient(x, y) ==
    LET q == Magnitude(x) \div Magnitude(y) IN IF (x < 0) = (y < 0) THEN q ELSE -q

\* One bit of a number (of its two's complement, below 0), and the number of an
\* operand with the given bits.
Bit(x, i) == (x \div 2 ^ i) % 2 = 1
OfBits(kind, bits) ==
    LET sum[n \in 0 .. OperandBits] ==
            IF n = 0 THEN 0
            ELSE sum[n - 1] + (IF n - 1 \notin bits THEN 0
                               ELSE IF kind = "INT" /\ n = OperandBits THEN -(2 ^ (n - 1))
                               ELSE 2 ^ (n - 1))
    IN  sum[OperandBits]
Positions == 0 .. OperandBits - 1

-----------------------------------------------------------------------------
(* proc_runtime_unop and proc_runtime_binop. The operand's type decides,   *)
(* except that ! compares the type of the parameter with the numbers of    *)
(* operand types, which are those of UINT8 and UINT16.                     *)

UnopSupported(op, type) ==
    \/ op \in {"++", "--"} /\ Kind(type) # "NONE"
    \/ op = "!" /\ type \in {"UINT8", "UINT16"}
    \/ op = "-" /\ Kind(type) \in {"INT", "FLOAT"}
    \/ op \in {"idt", "rmt"}

UnopValue(op, x) ==
    CASE op = "++" -> x + 1
      [] op = "--" -> x - 1
      [] op = "!" -> -x - 1
      [] op = "-" -> -x
      [] op \in {"idt", "rmt"} -> x

BinopSupported(op, type, other) ==
    /\ Kind(type) = Kind(other)
    /\ Kind(type) \in {"UINT", "INT"} \/ (Kind(type) = "FLOAT" /\ op \in {"+", "-", "*", "/"})

Divides(op) == op \in {"/", "%"}
Shifts(op) == op \in {"<<", ">>"}

BinopValue(op, kind, x, y) ==
    CASE op = "+" -> x + y
      [] op = "-" -> x - y
      [] op = "*" -> x * y
      [] op = "/" -> Quotient(x, y)
      [] op = "%" -> x - y * Quotient(x, y)
      [] op = "<<" -> x * 2 ^ y
      [] op = ">>" -> x \div 2 ^ y
      [] op = "&" -> OfBits(kind, {i \in Positions : Bit(x, i) /\ Bit(y, i)})
      [] op = "|" -> OfBits(kind, {i \in Positions : Bit(x, i) \/ Bit(y, i)})
      [] op = "^" -> OfBits(kind, {i \in Positions : Bit(x, i) # Bit(y, i)})

\* Shifts by less than 0 or by the width, negative numbers shifted to the left
\* and the division of the smallest number by -1 are undefined.
BinopUndefined(op, kind, x, y) ==
    \/ Shifts(op) /\ y \notin 0 .. OperandBits - 1
    \/ op = "<<" /\ x < 0
    \/ Divides(op) /\ kind = "INT" /\ Quotient(x, y) \notin Operands("INT")

\* Unsigned results are taken modulo the width; signed ones must not overflow.
Overflows(kind, value) == kind = "INT" /\ value \notin Operands("INT")
Wrapped(kind, value) == IF kind = "UINT" THEN value % 2 ^ OperandBits ELSE value

\* The comparisons of proc_runtime_ifelse between integers.
Holds(op, x, y) ==
    CASE op = "==" -> x = y [] op = "!=" -> x # y [] op = "<" -> x < y
      [] op = ">" -> x > y [] op = "<=" -> x <= y [] op = ">=" -> x >= y

\* The flags a comparison may give.
Comparisons(op, type, x, other, y) ==
    IF Kind(type) # Kind(other) THEN {"ERR_TYPE"}
    ELSE IF Kind(type) = "FLOAT" THEN {"TRUE", "FALSE"}
    ELSE {IF Holds(op, x, y) THEN "TRUE" ELSE "FALSE"}
=============================================================================

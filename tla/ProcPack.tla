------------------------------ MODULE ProcPack ------------------------------
(***************************************************************************)
(* proc_pack.c: which fields of an instruction its functions measure,      *)
(* write, read, free and copy, and in which order. A packet is a sequence  *)
(* of values; what matters of a string is its length.                      *)
(***************************************************************************)
EXTENDS Naturals, Sequences, FiniteSetsExt, SequencesExt

CONSTANTS
    Length,          \* string -> strlen
    CSP_BUFFER_SIZE

ASSUME PackAssumption ==
    /\ \A string \in DOMAIN Length : Length[string] \in Nat
    /\ CSP_BUFFER_SIZE \in Nat /\ CSP_BUFFER_SIZE >= 3  \* flags, slot and count

Types == {"block", "ifelse", "set", "unop", "binop", "call", "noop"}
UNKNOWN == "unknown"  \* a type that no switch has a case for
Strings(fields) == fields \ {"op", "procedure_slot"}

MeasuredFields(type) ==
    CASE type \in {"block", "ifelse"} -> {"op", "param_a", "param_b"}
      [] type = "set"   -> {"param", "value"}
      [] type = "unop"  -> {"op", "param", "result"}
      [] type = "binop" -> {"op", "param_a", "param_b", "result"}
      [] type = "call"  -> {"procedure_slot"}
      [] type = "noop"  -> {}

PackedFields(type) ==
    CASE type \in {"block", "ifelse"} -> <<"param_a", "op", "param_b">>
      [] type = "set"   -> <<"param", "value">>
      [] type = "unop"  -> <<"param", "op", "result">>
      [] type = "binop" -> <<"param_a", "op", "param_b", "result">>
      [] type = "call"  -> <<"procedure_slot">>
      [] type = "noop"  -> <<>>

\* Faulty variants. The operands of a binop are swapped, and the operator of a
\* condition is read first.
UnpackedFieldsSwapped(type) ==
    IF type = "binop" THEN <<"param_b", "op", "param_a", "result">> ELSE PackedFields(type)
UnpackedFieldsOpFirst(type) ==
    IF type = "ifelse" THEN <<"op", "param_a", "param_b">> ELSE PackedFields(type)

UnpackedFields(type) ==
    CASE type \in {"block", "ifelse"} -> <<"param_a", "op", "param_b">>
      [] type = "set"   -> <<"param", "value">>
      [] type = "unop"  -> <<"param", "op", "result">>
      [] type = "binop" -> <<"param_a", "op", "param_b", "result">>
      [] type = "call"  -> <<"procedure_slot">>
      [] type = "noop"  -> <<>>

\* Faulty: the result of a binop is forgotten.
FreedFieldsWithoutResult(type) ==
    CASE type \in {"block", "ifelse", "binop"} -> {"param_a", "param_b"}
      [] type = "set"   -> {"param", "value"}
      [] type = "unop"  -> {"param", "result"}
      [] OTHER          -> {}

\* An unknown type is reported and nothing is freed.
FreedFields(type) ==
    CASE type \in {"block", "ifelse"} -> {"param_a", "param_b"}
      [] type = "set"   -> {"param", "value"}
      [] type = "unop"  -> {"param", "result"}
      [] type = "binop" -> {"param_a", "param_b", "result"}
      [] OTHER          -> {}

CopiedFields(type) ==
    CASE type \in {"block", "ifelse"} -> {"param_a", "param_b", "op"}
      [] type = "set"   -> {"param", "value"}
      [] type = "unop"  -> {"param", "result", "op"}
      [] type = "binop" -> {"param_a", "param_b", "result", "op"}
      [] type = "call"  -> {"procedure_slot"}
      [] type = "noop"  -> {}

\* An instruction of a known type has the fields of this type.
Shaped(instruction) ==
    /\ instruction.type \in Types
    /\ instruction = [node |-> instruction.node, type |-> instruction.type,
                      arg |-> [f \in ToSet(PackedFields(instruction.type)) |-> instruction.arg[f]]]
IsProcedure(p) == Len(p) \in Nat /\ p = [k \in 1 .. Len(p) |-> p[k]] /\ \A k \in 1 .. Len(p) : Shaped(p[k])

\* The strings of a procedure that is not in memory are themselves.
IsText(p) ==
    /\ IsProcedure(p)
    /\ \A k \in DOMAIN p : \A f \in Strings(DOMAIN p[k].arg) : p[k].arg[f] \in DOMAIN Length

-----------------------------------------------------------------------------
(* Bytes. An enumeration has four, a slot one, a string its length and a   *)
(* NUL; in front of the fields there are two of the node and one of the    *)
(* type.                                                                   *)

Bytes(instruction, fields) ==
    LET Width(field) == CASE field = "op" -> 4
                          [] field = "procedure_slot" -> 1
                          [] OTHER -> Length[instruction.arg[field]] + 1
    IN  3 + MapThenSumSet(Width, fields)

WrittenBytes(instruction) == Bytes(instruction, ToSet(PackedFields(instruction.type)))

\* Faulty: the operator of a unop is not counted.
calc_proc_sizeShort(procedure) ==
    1 + MapThenSumSet(LAMBDA k : Bytes(procedure[k], MeasuredFields(procedure[k].type)
                                        \ IF procedure[k].type = "unop" THEN {"op"} ELSE {}),
                      DOMAIN procedure)

calc_proc_size(procedure) ==
    1 + MapThenSumSet(LAMBDA k : Bytes(procedure[k], MeasuredFields(procedure[k].type)),
                      DOMAIN procedure)

\* Two bytes are left for the flags and the slot.
Fits(procedure) == calc_proc_size(procedure) + 2 <= CSP_BUFFER_SIZE

\* What pack_proc_into_csp_packet leaves in the packet of a procedure that fits.
PackedInstruction(instruction) ==
    <<instruction.node, instruction.type>>
    \o [k \in DOMAIN PackedFields(instruction.type) |->
            instruction.arg[PackedFields(instruction.type)[k]]]
Packed(procedure) ==
    <<Len(procedure)>> \o FlattenSeq([k \in DOMAIN procedure |-> PackedInstruction(procedure[k])])
=============================================================================

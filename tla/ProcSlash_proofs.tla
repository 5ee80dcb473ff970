-------------------------- MODULE ProcSlash_proofs --------------------------
(***************************************************************************)
(* The active procedure of the command line owns its strings, and is what  *)
(* the user edited.                                                        *)
(***************************************************************************)
EXTENDS ProcSlash, FiniteSetTheorems, SequenceTheorems, WellFoundedInduction, TLAPS

-----------------------------------------------------------------------------
(* What the functions of proc_pack.c do with the strings of procedures:    *)
(* duplicate, copy and free them. The lemmas are those of         *)
(* ProcMemory_proofs: each of the two modules stands alone.                *)

Fields(type) == ToSet(PackedFields(type))

\* The tables of proc_pack.c agree.
LEMMA FieldTables ==
  ASSUME NEW type \in Types
  PROVE  /\ Fields(type) = MeasuredFields(type)
         /\ Fields(type) = CopiedFields(type)
         /\ PackedFields(type) = UnpackedFields(type)
         /\ FreedFields(type) = Strings(Fields(type))
         /\ Len(PackedFields(type)) \in Nat /\ DOMAIN PackedFields(type) = 1 .. Len(PackedFields(type))
         /\ \A i, j \in DOMAIN PackedFields(type) : PackedFields(type)[i] = PackedFields(type)[j] => i = j
<1> USE DEF Fields, ToSet, PackedFields, MeasuredFields, CopiedFields, UnpackedFields, FreedFields, Strings
<1>1. CASE type = "block"
  BY <1>1
<1>2. CASE type = "ifelse"
  BY <1>2
<1>3. CASE type = "set"
  BY <1>3
<1>4. CASE type = "unop"
  BY <1>4
<1>5. CASE type = "binop"
  BY <1>5
<1>6. CASE type = "call"
  BY <1>6
<1>7. CASE type = "noop"
  BY <1>7
<1> QED BY <1>1, <1>2, <1>3, <1>4, <1>5, <1>6, <1>7 DEF Types

\* An unknown type has no strings.
LEMMA UnknownFields == UNKNOWN \notin Types /\ FreedFields(UNKNOWN) = {}
BY DEF UNKNOWN, Types, FreedFields

LEMMA ShapedFields ==
  ASSUME NEW i, Shaped(i)
  PROVE  /\ i.type \in Types /\ DOMAIN i.arg = Fields(i.type)
         /\ i = [node |-> i.node, type |-> i.type, arg |-> i.arg]
         /\ i.arg = [f \in Fields(i.type) |-> i.arg[f]]
<1>1. i = [node |-> i.node, type |-> i.type, arg |-> [f \in Fields(i.type) |-> i.arg[f]]]
  BY DEF Shaped, Fields
<1>2. i.arg = [f \in Fields(i.type) |-> i.arg[f]]
  BY <1>1
<1>3. DOMAIN i.arg = Fields(i.type)
  BY <1>2
<1> QED BY <1>1, <1>2, <1>3 DEF Shaped

\* An instruction with other arguments.
LEMMA OtherArguments ==
  ASSUME NEW i, Shaped(i), NEW a, a = [f \in Fields(i.type) |-> a[f]], NEW j, j = [i EXCEPT !.arg = a]
  PROVE  Shaped(j) /\ j.node = i.node /\ j.type = i.type /\ j.arg = a
<1>1. i = [node |-> i.node, type |-> i.type, arg |-> i.arg] /\ i.type \in Types
  BY ShapedFields
<1>2. j = [node |-> i.node, type |-> i.type, arg |-> a]
  BY <1>1
<1> QED BY <1>1, <1>2 DEF Shaped, Fields

\* Addresses are never in use when they are given out.
LEMMA UnusedIsFresh ==
  ASSUME IsFiniteSet(DOMAIN heap)
  PROVE  \A a \in DOMAIN heap : a[1] # Unused
<1> DEFINE D == DOMAIN heap
           c == Cardinality(D)
           T == {a[1] : a \in D}
<1>1. c \in Nat
  BY FS_CardinalityType
<1>2. IsFiniteSet(T) /\ Cardinality(T) \in Nat /\ Cardinality(T) <= c
  <2>1. [a \in D |-> a[1]] \in Surjection(D, T)
    BY DEF Surjection
  <2>2. IsFiniteSet(T) /\ Cardinality(T) <= c
    BY <2>1, FS_Surjection
  <2> QED BY <2>2, FS_CardinalityType
<1>3. \E n \in 1 .. c + 1 : n \notin T
  <2> SUFFICES ASSUME 1 .. c + 1 \in SUBSET T PROVE FALSE
    OBVIOUS
  <2>1. Cardinality(1 .. c + 1) <= Cardinality(T)
    BY <1>2, FS_Subset
  <2>2. Cardinality(1 .. c + 1) = c + 1
    BY <1>1, FS_Interval
  <2> HIDE DEF c, T
  <2> QED BY <1>1, <1>2, <2>1, <2>2
<1>4. \E n \in 1 .. c + 1 : \A a \in D : a[1] # n
  BY <1>3
<1> QED BY <1>4 DEF Unused

\* What proc_strdup gives for the instruction k of a text.
DuplicatedAs(new, n, k, i) ==
    /\ Shaped(new) /\ new.node = i.node /\ new.type = i.type
    /\ \A f \in Fields(i.type) : new.arg[f] = IF f \in Strings({f}) THEN <<n, k, f>> ELSE i.arg[f]

Duplicated(new, n, text) ==
    /\ IsProcedure(new.procedure) /\ Len(new.procedure) = Len(text)
    /\ \A k \in 1 .. Len(text) : DuplicatedAs(new.procedure[k], n, k, text[k])
    /\ \A a : a \in DOMAIN new.strings <=>
            \E k \in 1 .. Len(text) : \E f \in Strings(Fields(text[k].type)) : a = <<n, k, f>>
    /\ \A k \in 1 .. Len(text) : \A f \in Strings(Fields(text[k].type)) :
            new.strings[<<n, k, f>>] = text[k].arg[f]

LEMMA DuplicateEffect ==
  ASSUME NEW text, IsProcedure(text)
  PROVE  Duplicated(Duplicate(text), Unused, text)
<1>10. PICK new, n : new = Duplicate(text) /\ n = Unused
  OBVIOUS
<1>1. Len(text) \in Nat /\ DOMAIN text = 1 .. Len(text) /\ \A k \in 1 .. Len(text) : Shaped(text[k])
  BY DEF IsProcedure
<1>2. \A k \in 1 .. Len(text) : DOMAIN text[k].arg = Fields(text[k].type)
  BY <1>1, ShapedFields
<1>3. new.procedure = [k \in 1 .. Len(text) |-> [text[k] EXCEPT !.arg =
                        [f \in DOMAIN @ |-> IF f \in Strings({f}) THEN <<n, k, f>> ELSE @[f]]]]
  BY <1>1, <1>10 DEF Duplicate
<1>4. ASSUME NEW k \in 1 .. Len(text)
      PROVE  DuplicatedAs(new.procedure[k], n, k, text[k])
  <2> DEFINE i == text[k]
  <2>1. Shaped(i) /\ DOMAIN i.arg = Fields(i.type)
    BY <1>1, <1>2
  <2>2. PICK a : a = [f \in Fields(i.type) |-> IF f \in Strings({f}) THEN <<n, k, f>> ELSE i.arg[f]]
    OBVIOUS
  <2>3. new.procedure[k] = [i EXCEPT !.arg = a]
    BY <1>3, <2>1, <2>2
  <2> HIDE DEF i
  <2>4. a = [f \in Fields(i.type) |-> a[f]]
    BY <2>2
  <2>5. Shaped(new.procedure[k]) /\ new.procedure[k].node = i.node /\ new.procedure[k].type = i.type
        /\ new.procedure[k].arg = a
    BY <2>1, <2>3, <2>4, OtherArguments
  <2> QED BY <2>2, <2>5 DEF DuplicatedAs, i
<1>5. IsProcedure(new.procedure) /\ Len(new.procedure) = Len(text)
  <2>1. Len(new.procedure) = Len(text)
    BY <1>1, <1>3
  <2>2. new.procedure = [k \in 1 .. Len(text) |-> new.procedure[k]]
    BY <1>3
  <2> QED BY <1>1, <1>4, <2>1, <2>2 DEF IsProcedure, DuplicatedAs
<1>6. new.strings =
        [a \in UNION {{<<n, k, f>> : f \in Strings(DOMAIN text[k].arg)} : k \in 1 .. Len(text)} |->
            text[a[2]].arg[a[3]]]
  BY <1>1, <1>10 DEF Duplicate
<1>7. \A a : a \in DOMAIN new.strings <=>
            \E k \in 1 .. Len(text) : \E f \in Strings(Fields(text[k].type)) : a = <<n, k, f>>
  BY <1>2, <1>6
<1>8. \A k \in 1 .. Len(text) : \A f \in Strings(Fields(text[k].type)) :
                new.strings[<<n, k, f>>] = text[k].arg[f]
  BY <1>6, <1>7
<1>9. Duplicated(new, n, text)
  BY <1>4, <1>5, <1>7, <1>8 DEF Duplicated
<1> QED BY <1>9, <1>10

\* The text of an instruction.
LEMMA TextShaped ==
  ASSUME NEW h, NEW i, Shaped(i)
  PROVE  /\ Shaped(TextIn(h, i)) /\ TextIn(h, i).node = i.node /\ TextIn(h, i).type = i.type
         /\ \A f \in Fields(i.type) : TextIn(h, i).arg[f] = IF f \in Strings({f}) THEN h[i.arg[f]] ELSE i.arg[f]
<1>1. DOMAIN i.arg = Fields(i.type)
  BY ShapedFields
<1>2. PICK a : a = [f \in Fields(i.type) |-> IF f \in Strings({f}) THEN h[i.arg[f]] ELSE i.arg[f]]
  OBVIOUS
<1>3. TextIn(h, i) = [i EXCEPT !.arg = a]
  BY <1>1, <1>2 DEF TextIn
<1>4. a = [f \in Fields(i.type) |-> a[f]]
  BY <1>2
<1>5. Shaped(TextIn(h, i)) /\ TextIn(h, i).node = i.node /\ TextIn(h, i).type = i.type /\ TextIn(h, i).arg = a
  BY <1>3, <1>4, OtherArguments
<1> QED BY <1>2, <1>5

\* Two instructions with the same fields are the same.
LEMMA SameInstruction ==
  ASSUME NEW i, Shaped(i), NEW j, Shaped(j), i.node = j.node, i.type = j.type,
         \A f \in Fields(i.type) : i.arg[f] = j.arg[f]
  PROVE  i = j
<1>1. PICK F : F = Fields(i.type)
  OBVIOUS
<1>2. i.arg = [f \in F |-> i.arg[f]]
  BY <1>1, ShapedFields
<1>3. j.arg = [f \in F |-> j.arg[f]]
  BY <1>1, ShapedFields
<1>4. i.arg = j.arg
  BY <1>1, <1>2, <1>3
<1>5. i = [node |-> i.node, type |-> i.type, arg |-> i.arg]
  BY ShapedFields
<1>6. j = [node |-> j.node, type |-> j.type, arg |-> j.arg]
  BY ShapedFields
<1> QED BY <1>4, <1>5, <1>6

\* The text does not depend on other strings.
LEMMA TextStays ==
  ASSUME NEW g, NEW h, NEW i, Shaped(i), \A f \in Strings(Fields(i.type)) : g[i.arg[f]] = h[i.arg[f]]
  PROVE  TextIn(g, i) = TextIn(h, i)
<1>1. \A f \in Fields(i.type) : TextIn(g, i).arg[f] = TextIn(h, i).arg[f]
  BY TextShaped DEF Strings
<1> QED BY <1>1, TextShaped, SameInstruction

\* A duplicate stands for what was duplicated.
LEMMA DuplicateText ==
  ASSUME NEW h, NEW i, Shaped(i), NEW n, NEW k, NEW new, DuplicatedAs(new, n, k, i),
         \A f \in Strings(Fields(i.type)) : h[<<n, k, f>>] = i.arg[f]
  PROVE  TextIn(h, new) = i
<1>1. Shaped(new) /\ new.node = i.node /\ new.type = i.type
  BY DEF DuplicatedAs
<1>2. ASSUME NEW f \in Fields(i.type)
      PROVE  TextIn(h, new).arg[f] = i.arg[f]
  <2>1. TextIn(h, new).arg[f] = IF f \in Strings({f}) THEN h[new.arg[f]] ELSE new.arg[f]
    BY <1>1, TextShaped
  <2>2. new.arg[f] = IF f \in Strings({f}) THEN <<n, k, f>> ELSE i.arg[f]
    BY DEF DuplicatedAs
  <2>3. f \in Strings({f}) => f \in Strings(Fields(i.type))
    BY DEF Strings
  <2> QED BY <2>1, <2>2, <2>3
<1> QED BY <1>1, <1>2, TextShaped, SameInstruction

\* Copying an instruction copies all of it.
LEMMA CopiedIsText ==
  ASSUME NEW i, Shaped(i)
  PROVE  Copied(i) = Duplicate(<<Text(i)>>) /\ IsProcedure(<<Text(i)>>)
<1> DEFINE t == Text(i)
<1>1. Shaped(t) /\ t.type = i.type
  BY TextShaped DEF Text
<1>2. DOMAIN t.arg = CopiedFields(i.type)
  BY <1>1, ShapedFields, FieldTables
<1> HIDE DEF t
<1>3. Restrict(t.arg, CopiedFields(i.type)) = t.arg
  <2>1. t.arg = [f \in CopiedFields(i.type) |-> t.arg[f]]
    BY <1>1, ShapedFields, FieldTables
  <2> QED BY <2>1 DEF Restrict
<1>4. [t EXCEPT !.arg = Restrict(@, CopiedFields(i.type))] = t
  <2>1. t = [node |-> t.node, type |-> t.type, arg |-> t.arg]
    BY <1>1, ShapedFields
  <2>2. [t EXCEPT !.arg = Restrict(@, CopiedFields(i.type))] = [t EXCEPT !.arg = t.arg]
    BY <1>3, <2>1
  <2> QED BY <2>1, <2>2
<1>5. IsProcedure(<<t>>)
  BY <1>1 DEF IsProcedure
<1> QED BY <1>4, <1>5 DEF Copied, t

\* The strings that freeing a procedure gives back.
LEMMA FreedAddresses ==
  ASSUME NEW p, DOMAIN p = 1 .. Len(p), \A k \in DOMAIN p : Shaped(p[k]) \/ p[k].type = UNKNOWN, NEW a
  PROVE  a \in Freed(p) <=>
            \E k \in DOMAIN p : p[k].type # UNKNOWN /\ \E f \in Strings(Fields(p[k].type)) : a = p[k].arg[f]
<1>1. a \in Freed(p) <=> \E k \in DOMAIN p : \E f \in FreedFields(p[k].type) : a = p[k].arg[f]
  BY DEF Freed
<1>2. \A k \in DOMAIN p : p[k].type = UNKNOWN => FreedFields(p[k].type) = {}
  BY UnknownFields
<1>3. \A k \in DOMAIN p : p[k].type # UNKNOWN => FreedFields(p[k].type) = Strings(Fields(p[k].type))
  BY FieldTables, ShapedFields
<1> QED BY <1>1, <1>2, <1>3

\* The fields of a type are finitely many.
LEMMA FiniteFields ==
  ASSUME NEW type \in Types
  PROVE  IsFiniteSet(Fields(type)) /\ IsFiniteSet(Strings(Fields(type)))
<1>1. PICK L \in Nat : DOMAIN PackedFields(type) = 1 .. L
  BY FieldTables
<1>2. IsFiniteSet(1 .. L)
  BY <1>1, FS_Interval
<1>3. [k \in 1 .. L |-> PackedFields(type)[k]] \in Surjection(1 .. L, Fields(type))
  BY <1>1 DEF Surjection, Fields, ToSet
<1>4. IsFiniteSet(Fields(type))
  BY <1>2, <1>3, FS_Surjection
<1> QED BY <1>4, FS_Subset DEF Strings

\* What is held before and after a step means the same.
Agree(g, h) == \A a \in DOMAIN g \cap DOMAIN h : g[a] = h[a]

\* proc_strdup of the strings of one instruction.
LEMMA InstructionDuplicated ==
  ASSUME IsFiniteSet(DOMAIN heap), NEW i, Shaped(i),
         NEW new, new = Duplicate(<<i>>), heap' = With(heap, new.strings)
  PROVE  \E n : /\ DuplicatedAs(new.procedure[1], n, 1, i)
                /\ DOMAIN heap' = DOMAIN heap \cup {<<n, 1, f>> : f \in Strings(Fields(i.type))}
                /\ IsFiniteSet(DOMAIN heap')
                /\ \A f \in Strings(Fields(i.type)) : heap'[<<n, 1, f>>] = i.arg[f]
                /\ \A f : <<n, 1, f>> \notin DOMAIN heap
                /\ Agree(heap, heap')
                /\ TextIn(heap', new.procedure[1]) = i
<1>1. IsProcedure(<<i>>) /\ Len(<<i>>) = 1 /\ <<i>>[1] = i
  BY DEF IsProcedure
<1>2. PICK n : n = Unused
  OBVIOUS
<1>3. PICK text : text = <<i>>
  OBVIOUS
<1>4. /\ DuplicatedAs(new.procedure[1], n, 1, i)
      /\ \A a : a \in DOMAIN new.strings <=> \E f \in Strings(Fields(i.type)) : a = <<n, 1, f>>
      /\ \A f \in Strings(Fields(i.type)) : new.strings[<<n, 1, f>>] = i.arg[f]
  <2>1. /\ \A k \in 1 .. Len(text) : DuplicatedAs(new.procedure[k], n, k, text[k])
        /\ \A a : a \in DOMAIN new.strings <=>
                \E k \in 1 .. Len(text) : \E f \in Strings(Fields(text[k].type)) : a = <<n, k, f>>
        /\ \A k \in 1 .. Len(text) : \A f \in Strings(Fields(text[k].type)) :
                new.strings[<<n, k, f>>] = text[k].arg[f]
    <3>1. Duplicated(new, n, text)
      BY <1>1, <1>2, <1>3, DuplicateEffect
    <3> QED BY <3>1 DEF Duplicated
  <2>2. 1 .. Len(text) = {1} /\ text[1] = i
    BY <1>3
  <2> QED BY <2>1, <2>2
<1>5. PICK N : N = {<<n, 1, f>> : f \in Strings(Fields(i.type))}
  OBVIOUS
<1>6. DOMAIN new.strings = N
  BY <1>4, <1>5
<1>7. \A a \in N : a[1] = n /\ a \notin DOMAIN heap
  BY <1>2, <1>5, UnusedIsFresh
<1>8. \A f : <<n, 1, f>> \notin DOMAIN heap
  <2> TAKE f
  <2>1. <<n, 1, f>>[1] = n
    OBVIOUS
  <2> QED BY <1>2, <2>1, UnusedIsFresh
<1>9. /\ DOMAIN heap' = DOMAIN heap \cup N
      /\ \A a \in DOMAIN heap' : heap'[a] = IF a \in N THEN new.strings[a] ELSE heap[a]
  BY <1>6 DEF With
<1>10. Agree(heap, heap')
  BY <1>7, <1>9 DEF Agree
<1>11. \A f \in Strings(Fields(i.type)) : heap'[<<n, 1, f>>] = i.arg[f]
  BY <1>4, <1>5, <1>9
<1>12. IsFiniteSet(DOMAIN heap')
  <2>1. IsFiniteSet(Strings(Fields(i.type)))
    BY FiniteFields, ShapedFields
  <2>2. IsFiniteSet(N)
    <3>1. [f \in Strings(Fields(i.type)) |-> <<n, 1, f>>] \in Surjection(Strings(Fields(i.type)), N)
      BY <1>5 DEF Surjection
    <3> QED BY <2>1, <3>1, FS_Surjection
  <2> QED BY <1>9, <2>2, FS_Union
<1>13. TextIn(heap', new.procedure[1]) = i
  BY <1>4, <1>11, DuplicateText
<1> QED BY <1>4, <1>5, <1>8, <1>9, <1>10, <1>11, <1>12, <1>13

\* free_proc of a procedure.
LEMMA FreedHeap ==
  ASSUME IsFiniteSet(DOMAIN heap), NEW p, Free(p)
  PROVE  DOMAIN heap' = DOMAIN heap \ Freed(p) /\ IsFiniteSet(DOMAIN heap') /\ Agree(heap, heap')
<1>1. DOMAIN heap' = DOMAIN heap \ Freed(p) /\ \A a \in DOMAIN heap' : heap'[a] = heap[a]
  BY DEF Free, Restrict
<1>2. IsFiniteSet(DOMAIN heap')
  BY <1>1, FS_Subset
<1> QED BY <1>1, <1>2 DEF Agree

-----------------------------------------------------------------------------

-----------------------------------------------------------------------------
(* The inductive invariant.                                                *)

\* What NONE stands for.
NullIsNoProcedure == ~IsProcedure(NONE)

\* Every string of p but those at position s is allocated, once.
Sole(p, s, D) ==
    /\ \A k, l \in DOMAIN p \ {s} :
        \A f \in Strings(Fields(p[k].type)), g \in Strings(Fields(p[l].type)) :
            p[k].arg[f] = p[l].arg[g] => k = l /\ f = g
    /\ \A k \in DOMAIN p \ {s} : \A f \in Strings(Fields(p[k].type)) : p[k].arg[f] \in D
Held(p, s, D) == IsProcedure(p) /\ Len(p) <= MAX_INSTRUCTIONS /\ Sole(p, s, D)

Inv ==
    /\ Active => Held(current_procedure, shift, DOMAIN heap)
    /\ shift \in 0 .. MAX_INSTRUCTIONS /\ (shift # 0 => Active /\ shift <= Len(current_procedure))
    /\ commands \in 0 .. MaxCommands
    /\ IsFiniteSet(DOMAIN heap)

-----------------------------------------------------------------------------
(* Procedures as sequences.                                                *)

LEMMA InSeq ==
  ASSUME NEW p, NEW n \in Nat, p = [k \in 1 .. n |-> p[k]]
  PROVE  \E V : p \in Seq(V) /\ Len(p) = n
<1>1. PICK V : V = {p[k] : k \in 1 .. n}
  OBVIOUS
<1>2. p \in [1 .. n -> V]
  BY <1>1
<1> QED BY <1>2

LEMMA FrontIs ==
  ASSUME NEW p, NEW n \in Nat \ {0}, p = [k \in 1 .. n |-> p[k]]
  PROVE  Front(p) = [k \in 1 .. n - 1 |-> p[k]] /\ Len(p) = n
<1>1. PICK V : p \in Seq(V) /\ Len(p) = n
  BY InSeq
<1>2. Front(p) = SubSeq(p, 1, n - 1)
  BY <1>1 DEF Front
<1>3. SubSeq(p, 1, n - 1) = [k \in 1 .. n - 1 |-> p[k]]
  BY <1>1
<1> QED BY <1>1, <1>2, <1>3

LEMMA AppendIs ==
  ASSUME NEW p, NEW n \in Nat, p = [k \in 1 .. n |-> p[k]], NEW x
  PROVE  Append(p, x) = [k \in 1 .. n + 1 |-> IF k = n + 1 THEN x ELSE p[k]] /\ Len(p) = n
<1>1. PICK V : p \in Seq(V) /\ Len(p) = n
  BY InSeq
<1>2. PICK q : q = Append(p, x)
  OBVIOUS
<1>3. p \in Seq(V \cup {x}) /\ x \in V \cup {x}
  BY <1>1, SeqMonotonic
<1>4. q \in Seq(V \cup {x}) /\ Len(q) = n + 1 /\ q[n + 1] = x /\ \A k \in 1 .. n : q[k] = p[k]
  BY <1>1, <1>2, <1>3
<1>5. q = [k \in 1 .. n + 1 |-> q[k]]
  BY <1>4
<1>6. \A k \in 1 .. n + 1 : q[k] = IF k = n + 1 THEN x ELSE p[k]
  BY <1>4
<1> QED BY <1>1, <1>2, <1>5, <1>6

LEMMA RemoveAtIs ==
  ASSUME NEW p, NEW n \in Nat, p = [k \in 1 .. n |-> p[k]], NEW i \in 1 .. n
  PROVE  RemoveAt(p, i) = [k \in 1 .. n - 1 |-> p[IF k < i THEN k ELSE k + 1]]
<1>1. PICK V : p \in Seq(V) /\ Len(p) = n
  BY InSeq
<1>2. PICK a, b : a = SubSeq(p, 1, i - 1) /\ b = SubSeq(p, i + 1, n)
  OBVIOUS
<1>3. /\ a \in Seq(V) /\ Len(a) = i - 1 /\ \A k \in 1 .. i - 1 : a[k] = p[k]
      /\ b \in Seq(V) /\ Len(b) = n - i /\ \A k \in 1 .. n - i : b[k] = p[i + k]
  <2>1. a = [k \in 1 .. i - 1 |-> p[k]] /\ b = [k \in 1 .. n - i |-> p[i + k]]
    <3>1. SubSeq(p, 1, i - 1) = [k \in 1 .. i - 1 |-> p[k]]
      BY <1>1
    <3>2. SubSeq(p, i + 1, n) = [k \in 1 .. n - i |-> p[(i + 1) + k - 1]]
      BY <1>1
    <3>3. \A k \in 1 .. n - i : (i + 1) + k - 1 = i + k
      OBVIOUS
    <3> QED BY <1>2, <3>1, <3>2, <3>3
  <2>2. a \in [1 .. i - 1 -> V] /\ b \in [1 .. n - i -> V]
    BY <1>1, <2>1
  <2>3. i - 1 \in Nat /\ n - i \in Nat
    OBVIOUS
  <2>4. \A m \in Nat : \A c \in [1 .. m -> V] : c \in Seq(V) /\ Len(c) = m
    OBVIOUS
  <2>5. a \in Seq(V) /\ Len(a) = i - 1 /\ b \in Seq(V) /\ Len(b) = n - i
    BY <2>2, <2>3, <2>4
  <2> QED BY <2>1, <2>5
<1>4. PICK q : q = a \o b
  OBVIOUS
<1>5. /\ q \in Seq(V) /\ Len(q) = n - 1
      /\ (\A k \in 1 .. i - 1 : q[k] = p[k]) /\ \A k \in 1 .. n - i : q[i - 1 + k] = p[i + k]
  <2>1. i - 1 \in Nat /\ n - i \in Nat /\ i - 1 + (n - i) = n - 1
    OBVIOUS
  <2>2. q \in Seq(V) /\ Len(q) = i - 1 + (n - i)
    BY <1>3, <1>4
  <2>3. \A k \in 1 .. Len(a) : q[k] = a[k]
    BY <1>3, <1>4
  <2>4. \A k \in 1 .. Len(b) : q[Len(a) + k] = b[k]
    BY <1>3, <1>4
  <2> QED BY <1>3, <2>1, <2>2, <2>3, <2>4
<1>6. q = [k \in 1 .. n - 1 |-> q[k]]
  BY <1>5
<1>7. \A k \in 1 .. n - 1 : q[k] = p[IF k < i THEN k ELSE k + 1]
  <2> TAKE k \in 1 .. n - 1
  <2>1. CASE k < i
    <3>1. k \in 1 .. i - 1
      BY <2>1
    <3> QED BY <1>5, <2>1, <3>1
  <2>2. CASE ~(k < i)
    <3>1. k - i + 1 \in 1 .. n - i /\ i - 1 + (k - i + 1) = k /\ i + (k - i + 1) = k + 1
      BY <2>2
    <3> QED BY <1>5, <2>2, <3>1
  <2> QED BY <2>1, <2>2
<1>8. RemoveAt(p, i) = q
  BY <1>1, <1>2, <1>4 DEF RemoveAt
<1> QED BY <1>6, <1>7, <1>8

-----------------------------------------------------------------------------
(* Owning strings.                                                         *)

\* What freeing a procedure gives back.
LEMMA FreedIs ==
  ASSUME NEW p, IsProcedure(p), NEW a
  PROVE  a \in Freed(p) <=> \E k \in 1 .. Len(p) : \E f \in Strings(Fields(p[k].type)) : a = p[k].arg[f]
<1>1. DOMAIN p = 1 .. Len(p) /\ \A k \in 1 .. Len(p) : Shaped(p[k]) /\ p[k].type # UNKNOWN
  BY UnknownFields DEF IsProcedure, Shaped
<1> QED BY <1>1, FreedAddresses

\* The instructions but the one at position s keep their texts.
SameTexts(p, s, g, h) == \A k \in 1 .. Len(p) : k # s => TextIn(h, p[k]) = TextIn(g, p[k])

\* More strings are allocated.
More(g, h) == DOMAIN g \subseteq DOMAIN h /\ Agree(g, h)
LEMMA MoreHeap ==
  ASSUME NEW p, NEW s, NEW g, NEW h, Held(p, s, DOMAIN g), More(g, h)
  PROVE  Held(p, s, DOMAIN h) /\ SameTexts(p, s, g, h)
<1>1. DOMAIN p = 1 .. Len(p) /\ \A k \in 1 .. Len(p) : Shaped(p[k])
  BY DEF Held, IsProcedure
<1>2. ASSUME NEW k \in 1 .. Len(p), k # s PROVE TextIn(h, p[k]) = TextIn(g, p[k])
  <2>1. \A f \in Strings(Fields(p[k].type)) : g[p[k].arg[f]] = h[p[k].arg[f]]
    BY <1>1, <1>2 DEF Held, Sole, More, Agree
  <2> QED BY <1>1, <2>1, TextStays
<1>3. Sole(p, s, DOMAIN h)
  BY DEF Held, Sole, More
<1> QED BY <1>2, <1>3 DEF Held, SameTexts

\* The strings of instruction i are freed, and only they.
Less(g, h, p, i) ==
    /\ \A a : a \in DOMAIN h <=> a \in DOMAIN g /\ ~ \E f \in Strings(Fields(p[i].type)) : a = p[i].arg[f]
    /\ Agree(g, h)
LEMMA LessHeap ==
  ASSUME NEW p, NEW g, NEW h, NEW i \in 1 .. Len(p), Held(p, 0, DOMAIN g), Less(g, h, p, i)
  PROVE  Held(p, i, DOMAIN h) /\ SameTexts(p, i, g, h)
<1>1. DOMAIN p = 1 .. Len(p) /\ 0 \notin DOMAIN p /\ \A k \in 1 .. Len(p) : Shaped(p[k])
  BY DEF Held, IsProcedure
<1>2. /\ \A k, l \in 1 .. Len(p) :
            \A f \in Strings(Fields(p[k].type)), e \in Strings(Fields(p[l].type)) :
                p[k].arg[f] = p[l].arg[e] => k = l /\ f = e
      /\ \A k \in 1 .. Len(p) : \A f \in Strings(Fields(p[k].type)) : p[k].arg[f] \in DOMAIN g
  BY <1>1 DEF Held, Sole
<1>3. \A k \in 1 .. Len(p) : k # i => \A f \in Strings(Fields(p[k].type)) : p[k].arg[f] \in DOMAIN h
  BY <1>2 DEF Less
<1>4. ASSUME NEW k \in 1 .. Len(p), k # i PROVE TextIn(h, p[k]) = TextIn(g, p[k])
  <2>1. \A f \in Strings(Fields(p[k].type)) : g[p[k].arg[f]] = h[p[k].arg[f]]
    BY <1>2, <1>3, <1>4 DEF Less, Agree
  <2> QED BY <1>1, <2>1, TextStays
<1>5. Sole(p, i, DOMAIN h)
  BY <1>1, <1>2, <1>3 DEF Sole
<1> QED BY <1>4, <1>5 DEF Held, SameTexts

\* A new instruction x, with strings of its own, comes to position i of p; what was
\* there and at position s is forgotten.
Puts(p, i, x, q) ==
    /\ IsProcedure(q) /\ Len(q) <= MAX_INSTRUCTIONS /\ i \in 1 .. Len(q) /\ q[i] = x
    /\ \A k \in 1 .. Len(q) : k # i => k \in 1 .. Len(p) /\ q[k] = p[k]
Own(x, g, h) ==
    /\ \A f \in Strings(Fields(x.type)) : x.arg[f] \in DOMAIN h /\ x.arg[f] \notin DOMAIN g
    /\ \A f, e \in Strings(Fields(x.type)) : x.arg[f] = x.arg[e] => f = e
LEMMA PutHeap ==
  ASSUME NEW p, NEW s, NEW g, NEW h, NEW i, NEW x, NEW q, NEW t, Held(p, s, DOMAIN g), More(g, h),
         Puts(p, i, x, q), Own(x, g, h), s \in 1 .. Len(q) => t = s \/ s = i
  PROVE  Held(q, t, DOMAIN h)
<1>1. DOMAIN p = 1 .. Len(p) /\ DOMAIN q = 1 .. Len(q)
  BY DEF Held, Puts, IsProcedure
<1>2. ASSUME NEW k \in DOMAIN q \ {t}, k # i
      PROVE  k \in DOMAIN p \ {s} /\ q[k] = p[k]
  BY <1>1, <1>2 DEF Puts
<1>3. ASSUME NEW k \in DOMAIN q \ {t}, NEW f \in Strings(Fields(q[k].type))
      PROVE  /\ q[k].arg[f] \in DOMAIN h
             /\ IF k = i THEN q[k].arg[f] \notin DOMAIN g ELSE q[k].arg[f] \in DOMAIN g
  <2>1. CASE k = i
    BY <2>1 DEF Own, Puts
  <2>2. CASE k # i
    BY <1>2, <2>2 DEF Held, Sole, More
  <2> QED BY <2>1, <2>2
<1>4. ASSUME NEW k \in DOMAIN q \ {t}, NEW l \in DOMAIN q \ {t},
             NEW f \in Strings(Fields(q[k].type)), NEW e \in Strings(Fields(q[l].type)),
             q[k].arg[f] = q[l].arg[e]
      PROVE  k = l /\ f = e
  <2>1. (k = i) <=> (l = i)
    BY <1>3, <1>4
  <2>2. CASE k = i
    BY <1>4, <2>1, <2>2 DEF Own, Puts
  <2>3. CASE k # i
    BY <1>2, <1>4, <2>1, <2>3 DEF Held, Sole
  <2> QED BY <2>2, <2>3
<1>5. Sole(q, t, DOMAIN h)
  BY <1>3, <1>4 DEF Sole
<1> QED BY <1>5 DEF Held, Puts

\* The last instruction goes.
LEMMA FrontHeld ==
  ASSUME NEW p, NEW s, NEW D, Held(p, s, D), p # <<>>, s \in {0, Len(p)}
  PROVE  /\ Held(Front(p), 0, D) /\ Len(Front(p)) = Len(p) - 1 /\ Len(p) \in Nat \ {0}
         /\ Front(p) = [k \in 1 .. Len(p) - 1 |-> p[k]]
<1>1. Len(p) \in Nat /\ p = [k \in 1 .. Len(p) |-> p[k]] /\ \A k \in 1 .. Len(p) : Shaped(p[k])
  BY DEF Held, IsProcedure
<1>2. PICK n \in Nat : n = Len(p)
  BY <1>1
<1>3. n # 0
  BY <1>1, <1>2
<1>4. PICK q : q = Front(p)
  OBVIOUS
<1>5. q = [k \in 1 .. n - 1 |-> p[k]]
  BY <1>1, <1>2, <1>3, <1>4, FrontIs
<1>6. DOMAIN q = 1 .. n - 1 /\ Len(q) = n - 1 /\ \A k \in 1 .. n - 1 : q[k] = p[k] /\ k \in DOMAIN p \ {s}
  BY <1>1, <1>2, <1>3, <1>5
<1>7. IsProcedure(q)
  BY <1>1, <1>2, <1>3, <1>5, <1>6 DEF IsProcedure
<1>8. Sole(q, 0, D)
  BY <1>6 DEF Held, Sole
<1>9. Len(q) <= MAX_INSTRUCTIONS
  BY <1>2, <1>6, SlashAssumption DEF Held
<1> QED BY <1>2, <1>3, <1>4, <1>5, <1>6, <1>7, <1>8, <1>9 DEF Held

-----------------------------------------------------------------------------
(* Steps. Each keeps the invariant and has an effect on the text.          *)

Texts(h, p) == [k \in 1 .. Len(p) |-> TextIn(h, p[k])]
LEMMA TextOfIs ==
  ASSUME NEW p, IsProcedure(p)
  PROVE  TextOf(p) = Texts(heap, p)
<1>1. DOMAIN p = 1 .. Len(p)
  BY DEF IsProcedure
<1> QED BY <1>1 DEF TextOf, Text, Texts

\* What is left when position i of p goes.
Remaining(h, p, i) == [k \in 1 .. Len(p) - 1 |-> TextIn(h, p[IF k < i THEN k ELSE k + 1])]

LEMMA TextsAre ==
  ASSUME NEW h, NEW p, IsProcedure(p)
  PROVE  /\ IsProcedure(Texts(h, p)) /\ Len(Texts(h, p)) = Len(p)
         /\ \A k \in 1 .. Len(p) : Texts(h, p)[k] = TextIn(h, p[k])
         /\ Texts(h, p) = [k \in 1 .. Len(p) |-> Texts(h, p)[k]]
<1>1. PICK n, t : n = Len(p) /\ t = Texts(h, p)
  OBVIOUS
<1>2. n \in Nat /\ \A k \in 1 .. n : Shaped(p[k])
  BY <1>1 DEF IsProcedure
<1>3. t = [k \in 1 .. n |-> TextIn(h, p[k])]
  BY <1>1 DEF Texts
<1>4. t = [k \in 1 .. n |-> t[k]] /\ \A k \in 1 .. n : t[k] = TextIn(h, p[k])
  BY <1>3
<1>5. Len(t) = n
  BY <1>2, <1>4, InSeq
<1>6. \A k \in 1 .. n : Shaped(t[k])
  BY <1>2, <1>4, TextShaped
<1> QED BY <1>1, <1>2, <1>4, <1>5, <1>6 DEF IsProcedure

LEMMA RemainingIs ==
  ASSUME NEW h, NEW p, IsProcedure(p), NEW i \in 1 .. Len(p)
  PROVE  RemoveAt(Texts(h, p), i) = Remaining(h, p, i)
<1>1. PICK n, t : n = Len(p) /\ t = Texts(h, p)
  OBVIOUS
<1>2. n \in Nat /\ t = [k \in 1 .. n |-> t[k]] /\ \A k \in 1 .. n : t[k] = TextIn(h, p[k])
  <2>1. n \in Nat
    BY <1>1 DEF IsProcedure
  <2> QED BY <1>1, <2>1, TextsAre
<1>3. RemoveAt(t, i) = [k \in 1 .. n - 1 |-> t[IF k < i THEN k ELSE k + 1]]
  <2>1. i \in 1 .. n /\ n \in Nat /\ t = [k \in 1 .. n |-> t[k]]
    BY <1>1, <1>2
  <2> QED BY ONLY <2>1, RemoveAtIs
<1>4. \A k \in 1 .. n - 1 : (IF k < i THEN k ELSE k + 1) \in 1 .. n
  BY <1>1, <1>2
<1>5. \A k \in 1 .. n - 1 : t[IF k < i THEN k ELSE k + 1] = TextIn(h, p[IF k < i THEN k ELSE k + 1])
  BY <1>2, <1>4
<1> QED BY <1>1, <1>3, <1>5 DEF Remaining

LEMMA FrontRemains ==
  ASSUME NEW h, NEW p, IsProcedure(p), p # <<>>
  PROVE  Texts(h, Front(p)) = Remaining(h, p, Len(p))
<1>1. Len(p) \in Nat /\ p = [k \in 1 .. Len(p) |-> p[k]]
  BY DEF IsProcedure
<1>2. PICK n \in Nat : n = Len(p)
  BY <1>1
<1>3. n # 0
  BY <1>1, <1>2
<1>4. PICK q : q = Front(p)
  OBVIOUS
<1>5. q = [k \in 1 .. n - 1 |-> p[k]]
  BY <1>1, <1>2, <1>3, <1>4, FrontIs
<1>6. Len(q) = n - 1
  BY <1>2, <1>3, <1>5
<1>7. \A k \in 1 .. n - 1 : q[k] = p[IF k < n THEN k ELSE k + 1]
  BY <1>2, <1>5
<1> QED BY <1>2, <1>4, <1>6, <1>7 DEF Texts, Remaining

\* Freeing the strings of an instruction leaves the texts of the others.
LEMMA SameRemains ==
  ASSUME NEW g, NEW h, NEW p, IsProcedure(p), NEW i \in 1 .. Len(p), SameTexts(p, i, g, h)
  PROVE  Remaining(h, p, i) = Remaining(g, p, i)
<1>1. Len(p) \in Nat
  BY DEF IsProcedure
<1>2. ASSUME NEW k \in 1 .. Len(p) - 1
      PROVE  TextIn(h, p[IF k < i THEN k ELSE k + 1]) = TextIn(g, p[IF k < i THEN k ELSE k + 1])
  <2>1. (IF k < i THEN k ELSE k + 1) \in 1 .. Len(p) /\ (IF k < i THEN k ELSE k + 1) # i
    BY <1>1
  <2> QED BY <2>1 DEF SameTexts
<1> QED BY <1>2 DEF Remaining

\* Every command reads the words of the fields that are packed.
LEMMA ArgumentFields == ASSUME NEW type \in Types PROVE Arguments(type) = PackedFields(type)
BY DEF Types, Arguments, PackedFields, BlockArguments, IfelseArguments, NoopArguments, SetArguments,
       UnopArguments, BinopArguments, CallArguments

LEMMA InstructionShaped ==
  ASSUME NEW line \in Lines
  PROVE  Shaped(Instruction(line))
<1>1. line.type \in Types
  BY SlashAssumption
<1>2. PICK node, arg :
        /\ Instruction(line) = [node |-> node, type |-> line.type, arg |-> arg]
        /\ arg = [f \in ToSet(Arguments(line.type)) |-> arg[f]]
  <2>1. PICK arguments, node, arg :
            /\ arguments = Arguments(line.type)
            /\ node = IF line.type = "noop" THEN 0 ELSE line.node
            /\ arg = [f \in ToSet(arguments) |->
                        Argument(line, CHOOSE k \in DOMAIN arguments : arguments[k] = f)]
    OBVIOUS
  <2>2. Instruction(line) = [node |-> node, type |-> line.type, arg |-> arg]
    BY <2>1 DEF Instruction
  <2>3. arg = [f \in ToSet(Arguments(line.type)) |-> arg[f]]
    BY <2>1
  <2> QED BY <2>2, <2>3
<1>3. arg = [f \in ToSet(PackedFields(line.type)) |-> arg[f]]
  BY <1>1, <1>2, ArgumentFields
<1> QED BY <1>1, <1>2, <1>3 DEF Shaped

\* The active procedure is freed.
LEMMA Discarded ==
  ASSUME Inv, shift = 0, Discard
  PROVE  /\ IsFiniteSet(DOMAIN heap')
         /\ DOMAIN heap' = DOMAIN heap \ (IF Active THEN Freed(current_procedure) ELSE {})
<1>1. CASE Active
  BY <1>1, FreedHeap DEF Inv, Discard
<1>2. CASE ~Active
  BY <1>2 DEF Inv, Discard
<1> QED BY <1>1, <1>2

LEMMA EmptyHeld == ASSUME NEW D PROVE IsProcedure(<<>>) /\ Held(<<>>, 0, D) /\ Freed(<<>>) = {}
<1>1. IsProcedure(<<>>)
  BY DEF IsProcedure
<1>2. Len(<<>>) = 0 /\ DOMAIN <<>> = {}
  OBVIOUS
<1>3. Freed(<<>>) = {}
  BY <1>2 DEF Freed
<1> QED BY <1>1, <1>2, <1>3, SlashAssumption DEF Held, Sole

\* A command is counted.
LEMMA Counted ==
  ASSUME Inv, NEW command, Command(command)
  PROVE  commands' \in 0 .. MaxCommands /\ shift = 0 /\ asked' = command
BY SlashAssumption DEF Inv, Command

LEMMA NewStep ==
  ASSUME Inv, New
  PROVE  /\ Inv' /\ shift = 0 /\ shift' = 0 /\ asked' = <<"new">> /\ current_procedure' \in {<<>>, NONE}
         /\ DOMAIN heap' = DOMAIN heap \ (IF Active THEN Freed(current_procedure) ELSE {})
<1>1. shift = 0 /\ shift' = 0 /\ current_procedure' \in {<<>>, NONE} /\ Discard
      /\ asked' = <<"new">> /\ commands' \in 0 .. MaxCommands
  BY Counted DEF New
<1>2. IsFiniteSet(DOMAIN heap')
      /\ DOMAIN heap' = DOMAIN heap \ (IF Active THEN Freed(current_procedure) ELSE {})
  BY <1>1, Discarded
<1>3. Active' => Held(current_procedure', shift', DOMAIN heap')
  BY <1>1, EmptyHeld DEF Active
<1>4. shift' \in 0 .. MAX_INSTRUCTIONS
  BY <1>1, SlashAssumption
<1> QED BY <1>1, <1>2, <1>3, <1>4 DEF Inv

LEMMA PullFailsStep ==
  ASSUME Inv, NEW text, PullFails(text)
  PROVE  /\ Inv' /\ shift = 0 /\ shift' = 0 /\ asked' = <<"pull", text>> /\ current_procedure' = NONE
         /\ DOMAIN heap' = DOMAIN heap \ (IF Active THEN Freed(current_procedure) ELSE {})
<1>1. shift = 0 /\ shift' = 0 /\ current_procedure' = NONE /\ Discard
      /\ asked' = <<"pull", text>> /\ commands' \in 0 .. MaxCommands
  BY Counted DEF PullFails
<1>2. IsFiniteSet(DOMAIN heap')
      /\ DOMAIN heap' = DOMAIN heap \ (IF Active THEN Freed(current_procedure) ELSE {})
  BY <1>1, Discarded
<1>3. shift' \in 0 .. MAX_INSTRUCTIONS
  BY <1>1, SlashAssumption
<1> QED BY <1>1, <1>2, <1>3 DEF Inv, Active

\* One instruction is appended with strings of its own.
LEMMA AddStep ==
  ASSUME Inv, NEW line \in Lines, Add(line)
  PROVE  /\ Inv' /\ Active /\ shift = 0 /\ shift' = 0 /\ asked' = <<"add", line>> /\ Parses(line)
         /\ Len(current_procedure) < MAX_INSTRUCTIONS
         /\ IsProcedure(current_procedure) /\ IsProcedure(current_procedure')
         /\ Texts(heap', current_procedure') = Append(Texts(heap, current_procedure), Instruction(line))
         /\ DOMAIN heap' \subseteq DOMAIN heap \cup Freed(current_procedure')
         /\ Freed(current_procedure) \subseteq Freed(current_procedure')
<1>1. PICK p, i, new : p = current_procedure /\ i = Instruction(line) /\ new = Duplicate(<<i>>)
  OBVIOUS
<1>2. /\ shift = 0 /\ shift' = 0 /\ asked' = <<"add", line>> /\ Parses(line) /\ commands' \in 0 .. MaxCommands
      /\ Active /\ Len(p) < MAX_INSTRUCTIONS
  BY <1>1, Counted DEF Add, instruction_can_be_added
<1>3. PICK x, q : x = new.procedure[1] /\ q = current_procedure'
  OBVIOUS
<1>4. q = Append(p, x) /\ heap' = With(heap, new.strings)
  BY <1>1, <1>3 DEF Add
<1>5. Held(p, 0, DOMAIN heap) /\ IsFiniteSet(DOMAIN heap)
  BY <1>1, <1>2 DEF Inv
<1>6. PICK n : n \in Nat /\ n = Len(p) /\ p = [k \in 1 .. n |-> p[k]] /\ \A k \in 1 .. n : Shaped(p[k])
  BY <1>5 DEF Held, IsProcedure
<1>7. PICK m : /\ DuplicatedAs(x, m, 1, i)
               /\ DOMAIN heap' = DOMAIN heap \cup {<<m, 1, f>> : f \in Strings(Fields(i.type))}
               /\ IsFiniteSet(DOMAIN heap')
               /\ \A f : <<m, 1, f>> \notin DOMAIN heap
               /\ Agree(heap, heap')
               /\ TextIn(heap', x) = i
  BY <1>1, <1>3, <1>4, <1>5, InstructionShaped, InstructionDuplicated
<1>8. Shaped(x) /\ x.type = i.type /\ \A f \in Strings(Fields(i.type)) : x.arg[f] = <<m, 1, f>>
  BY <1>7 DEF DuplicatedAs, Strings
<1>9. q = [k \in 1 .. n + 1 |-> IF k = n + 1 THEN x ELSE p[k]] /\ Len(q) = n + 1
  <2>1. q = [k \in 1 .. n + 1 |-> IF k = n + 1 THEN x ELSE p[k]]
    BY <1>4, <1>6, AppendIs
  <2> QED BY <1>6, <2>1
<1>10. q[n + 1] = x /\ \A k \in 1 .. n : q[k] = p[k]
  BY <1>6, <1>9
<1>11. IsProcedure(q)
  <2>1. \A k \in 1 .. n + 1 : k = n + 1 \/ k \in 1 .. n
    BY <1>6
  <2>2. \A k \in 1 .. n + 1 : Shaped(q[k])
    BY <1>6, <1>8, <1>10, <2>1
  <2>3. q = [k \in 1 .. n + 1 |-> q[k]] /\ n + 1 \in Nat
    BY <1>6, <1>9
  <2> QED BY <1>9, <2>2, <2>3 DEF IsProcedure
<1>12. More(heap, heap') /\ Own(x, heap, heap')
  <2>1. \A f \in Strings(Fields(i.type)) : <<m, 1, f>> \in DOMAIN heap'
    BY <1>7
  <2>2. More(heap, heap')
    BY <1>7 DEF More
  <2>3. \A f \in Strings(Fields(x.type)) : x.arg[f] \in DOMAIN heap' /\ x.arg[f] \notin DOMAIN heap
    BY <1>7, <1>8, <2>1
  <2>4. \A f, e \in Strings(Fields(x.type)) : x.arg[f] = x.arg[e] => f = e
    BY <1>8
  <2> QED BY <2>2, <2>3, <2>4 DEF Own
<1>13. Puts(p, n + 1, x, q)
  <2>1. n + 1 <= MAX_INSTRUCTIONS
    BY <1>2, <1>6, SlashAssumption
  <2> QED BY <1>6, <1>9, <1>10, <1>11, <2>1 DEF Puts
<1>14. Held(q, 0, DOMAIN heap')
  <2>1. 0 \notin 1 .. Len(q)
    BY <1>6, <1>9
  <2> QED BY <1>5, <1>12, <1>13, <2>1, PutHeap
<1>15. Inv'
  BY <1>2, <1>3, <1>7, <1>14, SlashAssumption DEF Inv
<1>16. Texts(heap', q) = Append(Texts(heap, p), i)
  <2>1. PICK s, t : s = Texts(heap, p) /\ t = Texts(heap', q)
    OBVIOUS
  <2>2. s = [k \in 1 .. n |-> s[k]] /\ \A k \in 1 .. n : s[k] = TextIn(heap, p[k])
    BY <1>6, <2>1 DEF Texts
  <2>3. t = [k \in 1 .. n + 1 |-> t[k]] /\ \A k \in 1 .. n + 1 : t[k] = TextIn(heap', q[k])
    BY <1>9, <2>1 DEF Texts
  <2>4. \A k \in 1 .. n : TextIn(heap', p[k]) = TextIn(heap, p[k])
    <3>1. SameTexts(p, 0, heap, heap')
      BY <1>5, <1>12, MoreHeap
    <3>2. \A k \in 1 .. n : k # 0 /\ k \in 1 .. Len(p)
      BY <1>6
    <3> QED BY <3>1, <3>2 DEF SameTexts
  <2>5. \A k \in 1 .. n + 1 : t[k] = IF k = n + 1 THEN i ELSE s[k]
    <3>1. \A k \in 1 .. n + 1 : k = n + 1 \/ (k # n + 1 /\ k \in 1 .. n)
      BY <1>6
    <3>2. n + 1 \in 1 .. n + 1
      BY <1>6
    <3>5. t[n + 1] = i
      BY <1>7, <1>10, <2>3, <3>2
    <3>3. \A k \in 1 .. n : k \in 1 .. n + 1
      BY <1>6
    <3>4. \A k \in 1 .. n : t[k] = s[k]
      BY <1>10, <2>2, <2>3, <2>4, <3>3
    <3> QED BY <3>1, <3>4, <3>5
  <2>6. Append(s, i) = [k \in 1 .. n + 1 |-> IF k = n + 1 THEN i ELSE s[k]]
    BY <1>6, <2>2, AppendIs
  <2> QED BY <2>1, <2>3, <2>5, <2>6
<1>17. /\ DOMAIN heap' \subseteq DOMAIN heap \cup Freed(q) /\ Freed(p) \subseteq Freed(q)
  <2>1. \A f \in Strings(Fields(i.type)) : <<m, 1, f>> \in Freed(q)
    <3>1. n + 1 \in 1 .. Len(q) /\ Strings(Fields(q[n + 1].type)) = Strings(Fields(i.type))
      BY <1>6, <1>8, <1>9, <1>10
    <3>2. \A f \in Strings(Fields(i.type)) : q[n + 1].arg[f] = <<m, 1, f>>
      BY <1>8, <1>10
    <3> QED BY <1>11, <3>1, <3>2, FreedIs
  <2>2. ASSUME NEW a \in Freed(p) PROVE a \in Freed(q)
    <3>1. PICK k \in 1 .. n : \E f \in Strings(Fields(p[k].type)) : a = p[k].arg[f]
      BY <1>5, <1>6, FreedIs DEF Held
    <3>2. k \in 1 .. Len(q) /\ q[k] = p[k]
      BY <1>6, <1>9, <1>10
    <3> QED BY <1>11, <3>1, <3>2, FreedIs
  <2> QED BY <1>7, <2>1, <2>2
<1> QED BY <1>1, <1>2, <1>3, <1>5, <1>11, <1>15, <1>16, <1>17 DEF Held

\* Strings of a refused line stay behind.
LEMMA AddRefusedStep ==
  ASSUME Inv, NEW line \in Lines, AddRefused(line)
  PROVE  Inv' /\ shift = 0 /\ UNCHANGED <<current_procedure, shift, asked>> /\ More(heap, heap')
<1>1. shift = 0 /\ UNCHANGED <<current_procedure, shift, asked>> /\ commands' \in 0 .. MaxCommands
  BY Counted DEF AddRefused
<1>2. PICK n : n = Unused
  OBVIOUS
<1>3. PICK A, strings : /\ heap' = With(heap, strings) /\ DOMAIN strings = A /\ IsFiniteSet(A)
                        /\ \A a \in A : a[1] = n
  <2>1. PICK read : read = {Arguments(line.type)[k] : k \in Read(line)}
    OBVIOUS
  <2>2. PICK kept \in SUBSET Strings(read) : heap' = With(heap, Kept(line, kept))
    BY <2>1 DEF AddRefused
  <2>3. PICK A, strings : A = {<<Unused, 1, f>> : f \in kept} /\ strings = Kept(line, kept)
    OBVIOUS
  <2>4. IsFiniteSet(kept)
    <3>1. line.type \in Types
      BY SlashAssumption
    <3>2. Arguments(line.type) = PackedFields(line.type)
      BY <3>1, ArgumentFields
    <3>3. kept \in SUBSET Fields(line.type)
      BY <2>1, <2>2, <3>2 DEF Fields, ToSet, Strings, Read
    <3> QED BY <3>1, <3>3, FiniteFields, FS_Subset
  <2>5. IsFiniteSet(A)
    <3>1. PICK g : g = [f \in kept |-> <<Unused, 1, f>>]
      OBVIOUS
    <3>2. g \in Surjection(kept, A)
      BY <2>3, <3>1 DEF Surjection
    <3> QED BY <2>4, <3>2, FS_Surjection
  <2>6. heap' = With(heap, strings) /\ DOMAIN strings = A
    BY <2>2, <2>3 DEF Kept
  <2>7. \A a \in A : a[1] = n
    BY <1>2, <2>3
  <2> QED BY <2>5, <2>6, <2>7
<1>4. /\ DOMAIN heap' = DOMAIN heap \cup A
      /\ \A a \in DOMAIN heap' : heap'[a] = IF a \in A THEN strings[a] ELSE heap[a]
  BY <1>3 DEF With
<1>5. \A a \in DOMAIN heap : a \notin A
  BY <1>2, <1>3, UnusedIsFresh DEF Inv
<1>6. More(heap, heap') /\ IsFiniteSet(DOMAIN heap')
  <2>1. PICK D : D = DOMAIN heap
    OBVIOUS
  <2>2. IsFiniteSet(D) /\ DOMAIN heap' = D \cup A
    BY <1>4, <2>1 DEF Inv
  <2>3. IsFiniteSet(D \cup A)
    BY <1>3, <2>2, FS_Union
  <2> QED BY <1>4, <1>5, <2>2, <2>3 DEF More, Agree
<1>7. Active' => Held(current_procedure', shift', DOMAIN heap')
  BY <1>1, <1>6, MoreHeap DEF Inv, Active
<1> QED BY <1>1, <1>6, <1>7 DEF Inv, Active

LEMMA PullStep ==
  ASSUME Inv, NEW text \in Stored, Pull(text)
  PROVE  /\ Inv' /\ shift = 0 /\ shift' = 0 /\ asked' = <<"pull", text>>
         /\ IsProcedure(current_procedure') /\ Texts(heap', current_procedure') = text
         /\ DOMAIN heap' \subseteq (DOMAIN heap \ (IF Active THEN Freed(current_procedure) ELSE {}))
                                  \cup Freed(current_procedure')
<1>1. IsProcedure(text) /\ Len(text) <= MAX_INSTRUCTIONS
  BY SlashAssumption
<1>2. shift = 0 /\ shift' = 0 /\ asked' = <<"pull", text>> /\ commands' \in 0 .. MaxCommands
  BY Counted DEF Pull
<1>3. PICK new, n, D, q : /\ new = Duplicate(text) /\ n = Unused /\ q = current_procedure'
                          /\ D = DOMAIN heap \ (IF Active THEN Freed(current_procedure) ELSE {})
  OBVIOUS
<1>4. q = new.procedure /\ heap' = With(Restrict(heap, D), new.strings)
  <2>1. D = IF Active THEN DOMAIN heap \ Freed(current_procedure) ELSE DOMAIN heap
    BY <1>3
  <2> QED BY <1>3, <2>1 DEF Pull
<1>5. Duplicated(new, n, text)
  BY <1>1, <1>3, DuplicateEffect
<1>6. PICK l : l \in Nat /\ l = Len(text) /\ text = [k \in 1 .. l |-> text[k]] /\ \A k \in 1 .. l : Shaped(text[k])
  BY <1>1 DEF IsProcedure
<1>7. /\ IsProcedure(q) /\ Len(q) = l /\ DOMAIN q = 1 .. l
      /\ \A k \in 1 .. l : DuplicatedAs(q[k], n, k, text[k])
  BY <1>4, <1>5, <1>6 DEF Duplicated, IsProcedure
<1>8. \A k \in 1 .. l : /\ q[k].type = text[k].type
                        /\ \A f \in Strings(Fields(text[k].type)) : q[k].arg[f] = <<n, k, f>>
  BY <1>7 DEF DuplicatedAs, Strings
<1>18. \A k \in 1 .. l : \A f \in Strings(Fields(q[k].type)) : q[k].arg[f] = <<n, k, f>>
  <2> TAKE k \in 1 .. l
  <2>1. q[k].type = text[k].type
    BY <1>8
  <2>2. \A f \in Strings(Fields(text[k].type)) : q[k].arg[f] = <<n, k, f>>
    BY <1>8
  <2> QED BY <2>1, <2>2
<1>9. /\ DOMAIN heap' = D \cup DOMAIN new.strings
      /\ \A a \in DOMAIN new.strings : heap'[a] = new.strings[a]
  <2>1. PICK h : h = Restrict(heap, D)
    OBVIOUS
  <2>2. DOMAIN h = D
    BY <2>1 DEF Restrict
  <2> QED BY <1>4, <2>1, <2>2 DEF With
<1>10. \A a : a \in DOMAIN new.strings <=>
            \E k \in 1 .. l : \E f \in Strings(Fields(text[k].type)) : a = <<n, k, f>>
  BY <1>5, <1>6 DEF Duplicated
<1>11. \A k \in 1 .. l : \A f \in Strings(Fields(text[k].type)) :
            <<n, k, f>> \in DOMAIN heap' /\ heap'[<<n, k, f>>] = text[k].arg[f]
  BY <1>5, <1>6, <1>9, <1>10 DEF Duplicated
<1>12. Sole(q, 0, DOMAIN heap')
  <2>1. ASSUME NEW k \in 1 .. l, NEW m \in 1 .. l, NEW f \in Strings(Fields(q[k].type)),
               NEW g \in Strings(Fields(q[m].type)), q[k].arg[f] = q[m].arg[g]
        PROVE  k = m /\ f = g
    <3>1. q[k].arg[f] = <<n, k, f>> /\ q[m].arg[g] = <<n, m, g>>
      BY <1>18
    <3>2. <<n, k, f>> = <<n, m, g>>
      BY <2>1, <3>1
    <3> QED BY <3>2
  <2>2. \A k \in 1 .. l : \A f \in Strings(Fields(q[k].type)) : q[k].arg[f] \in DOMAIN heap'
    BY <1>8, <1>11
  <2> QED BY <1>7, <2>1, <2>2 DEF Sole
<1>13. Held(q, 0, DOMAIN heap')
  BY <1>1, <1>6, <1>7, <1>12 DEF Held
<1>14. IsFiniteSet(DOMAIN heap')
  <2>1. IsFiniteSet(D)
    BY <1>3, FS_Subset DEF Inv
  <2>2. IsFiniteSet(DOMAIN new.strings)
    <3>1. PICK F : F = {{<<n, k, f>> : f \in Strings(Fields(text[k].type))} : k \in 1 .. l}
      OBVIOUS
    <3>2. \A T \in F : IsFiniteSet(T)
      <4> SUFFICES ASSUME NEW k \in 1 .. l PROVE IsFiniteSet({<<n, k, f>> : f \in Strings(Fields(text[k].type))})
        BY <3>1
      <4>1. PICK E, T, g : E = Strings(Fields(text[k].type)) /\ T = {<<n, k, f>> : f \in E}
                           /\ g = [f \in E |-> <<n, k, f>>]
        OBVIOUS
      <4>2. IsFiniteSet(E)
        BY <1>6, <4>1, FiniteFields, ShapedFields
      <4>3. g \in Surjection(E, T)
        BY <4>1 DEF Surjection
      <4> QED BY <4>1, <4>2, <4>3, FS_Surjection
    <3>3. IsFiniteSet(F)
      <4>1. PICK g : g = [k \in 1 .. l |-> {<<n, k, f>> : f \in Strings(Fields(text[k].type))}]
        OBVIOUS
      <4>2. g \in Surjection(1 .. l, F)
        BY <3>1, <4>1 DEF Surjection
      <4>3. IsFiniteSet(1 .. l)
        BY <1>6, FS_Interval
      <4> QED BY <4>2, <4>3, FS_Surjection
    <3>4. DOMAIN new.strings = UNION F
      BY <1>10, <3>1
    <3> QED BY <3>2, <3>3, <3>4, FS_UNION
  <2> QED BY <1>9, <2>1, <2>2, FS_Union
<1>15. Inv'
  BY <1>2, <1>3, <1>13, <1>14, SlashAssumption DEF Inv
<1>16. Texts(heap', q) = text
  <2>1. ASSUME NEW k \in 1 .. l PROVE TextIn(heap', q[k]) = text[k]
    <3>1. \A f \in Strings(Fields(text[k].type)) : heap'[<<n, k, f>>] = text[k].arg[f]
      BY <1>11
    <3>2. Shaped(text[k]) /\ DuplicatedAs(q[k], n, k, text[k])
      BY <1>6, <1>7
    <3> QED BY <3>1, <3>2, DuplicateText
  <2>2. Texts(heap', q) = [k \in 1 .. l |-> TextIn(heap', q[k])]
    BY <1>7 DEF Texts
  <2>3. Texts(heap', q) = [k \in 1 .. l |-> text[k]]
    BY <2>1, <2>2
  <2> QED BY <1>6, <2>3
<1>17. \A a \in DOMAIN new.strings : a \in Freed(q)
  <2> TAKE a \in DOMAIN new.strings
  <2>1. PICK k \in 1 .. l : \E f \in Strings(Fields(text[k].type)) : a = <<n, k, f>>
    BY <1>10
  <2>2. \E f \in Strings(Fields(q[k].type)) : a = q[k].arg[f]
    BY <1>8, <2>1
  <2> QED BY <1>7, <2>2, FreedIs
<1> QED BY <1>2, <1>3, <1>7, <1>9, <1>15, <1>16, <1>17

\* The step is a byte, and the number that was typed if that is one.
LEMMA StepIs ==
  ASSUME NEW index \in Indexes
  PROVE  /\ Step(index) \in 0 .. BYTE - 1
         /\ index \in 0 .. MAX_INSTRUCTIONS => Step(index) = index
<1>1. /\ BYTE \in Nat \ {0} /\ index \in Int
      /\ MAX_INSTRUCTIONS \in Nat /\ BYTE = MAX_INSTRUCTIONS + 1
  BY SlashAssumption
<1>2. index % BYTE \in 0 .. BYTE - 1
  BY <1>1
<1>3. ASSUME index \in 0 .. MAX_INSTRUCTIONS
      PROVE  index % BYTE = index
  <2>1. PICK m \in Nat \ {0} : m = BYTE
    BY <1>1
  <2>2. index \in Int /\ m > 0
    BY <1>1, <2>1
  <2>3. \E q \in Int, rest \in Nat :
            rest = index % m /\ index = m * q + rest /\ rest < m
    BY <2>2
  <2>4. PICK q \in Int, rest \in Nat :
            rest = index % m /\ index = m * q + rest /\ rest < m
    BY <2>3
  <2>5. 0 <= index /\ index < m
    BY <1>1, <1>3, <2>1
  <2>6. m * q \in Int /\ m * q > -m /\ m * q < m
    BY <2>5, <2>4
  <2>7. q <= -1 => m * q <= -m
    BY <2>1
  <2>8. q >= 1 => m * q >= m
    BY <2>1
  <2>9. q = 0
    BY <2>6, <2>7, <2>8
  <2> QED BY <2>1, <2>9, <2>4
<1> QED BY <1>2, <1>3 DEF Step

LEMMA PopLatestStep ==
  ASSUME Inv, NEW index \in Indexes, NEW step, step = Step(index), PopLatest(index)
  PROVE  /\ Inv' /\ Active /\ shift = 0 /\ shift' = 0 /\ asked' = <<"pop", index>> /\ heap' = heap
         /\ IsProcedure(current_procedure) /\ step + 1 = Len(current_procedure)
         /\ current_procedure # <<>> /\ current_procedure' = Front(current_procedure)
         /\ IsProcedure(current_procedure')
<1>1. PICK p : p = current_procedure
  OBVIOUS
<1>2. /\ shift = 0 /\ shift' = 0 /\ asked' = <<"pop", index>> /\ commands' \in 0 .. MaxCommands
      /\ Active /\ step = Len(p) - 1 /\ current_procedure' = Front(p) /\ heap' = heap
  BY <1>1, Counted DEF PopLatest
<1>3. Held(p, 0, DOMAIN heap) /\ IsProcedure(p) /\ Len(p) \in Nat
  BY <1>1, <1>2 DEF Inv, Held, IsProcedure
<1>4. step \in Nat /\ step + 1 = Len(p) /\ p # <<>>
  <2>1. step \in 0 .. BYTE - 1 /\ BYTE \in Nat
    BY StepIs, SlashAssumption
  <2>2. step \in Nat /\ Len(p) = step + 1
    BY <1>2, <1>3, <2>1
  <2>3. Len(p) # Len(<<>>)
    BY <2>2
  <2> QED BY <2>2, <2>3
<1>5. Held(Front(p), 0, DOMAIN heap)
  BY <1>3, <1>4, FrontHeld
<1>6. Inv'
  BY <1>2, <1>5 DEF Inv
<1> QED BY <1>1, <1>2, <1>3, <1>4, <1>5, <1>6 DEF Held

LEMMA PopFromStep ==
  ASSUME Inv, NEW index \in Indexes, NEW step, step = Step(index), PopFrom(index)
  PROVE  /\ Inv' /\ Active /\ shift = 0 /\ shift' = step + 1 /\ asked' = <<"pop", index>>
         /\ current_procedure' = current_procedure
         /\ IsProcedure(current_procedure) /\ step + 1 \in 1 .. Len(current_procedure) - 1
         /\ SameTexts(current_procedure, step + 1, heap, heap')
<1>1. PICK p, i : p = current_procedure /\ i = step + 1
  OBVIOUS
<1>2. /\ shift = 0 /\ shift' = i /\ asked' = <<"pop", index>> /\ commands' \in 0 .. MaxCommands
      /\ Active /\ step < Len(p) - 1 /\ current_procedure' = p /\ Free(<<p[i]>>)
  BY <1>1, Counted DEF PopFrom
<1>3. Held(p, 0, DOMAIN heap) /\ IsProcedure(p) /\ Len(p) \in Nat /\ Len(p) <= MAX_INSTRUCTIONS
  BY <1>1, <1>2 DEF Inv, Held, IsProcedure
<1>4. i \in 1 .. Len(p) - 1 /\ i \in 1 .. Len(p) /\ i \in 0 .. MAX_INSTRUCTIONS
  BY <1>1, <1>2, <1>3, StepIs, SlashAssumption
<1>5. IsProcedure(<<p[i]>>) /\ Len(<<p[i]>>) = 1 /\ <<p[i]>>[1] = p[i]
  BY <1>3, <1>4 DEF IsProcedure
<1>6. Less(heap, heap', p, i) /\ IsFiniteSet(DOMAIN heap')
  <2>1. PICK q : q = <<p[i]>>
    OBVIOUS
  <2>2. DOMAIN heap' = DOMAIN heap \ Freed(q) /\ IsFiniteSet(DOMAIN heap') /\ Agree(heap, heap')
    BY <1>2, <2>1, FreedHeap DEF Inv
  <2>3. \A a : a \in Freed(q) <=> \E f \in Strings(Fields(p[i].type)) : a = p[i].arg[f]
    <3> TAKE a
    <3>3. IsProcedure(q)
      BY <1>5, <2>1
    <3>1. a \in Freed(q) <=> \E k \in 1 .. Len(q) : \E f \in Strings(Fields(q[k].type)) : a = q[k].arg[f]
      BY <3>3, FreedIs
    <3>2. 1 .. Len(q) = {1} /\ q[1] = p[i]
      BY <1>5, <2>1
    <3> QED BY <3>1, <3>2
  <2> QED BY <2>2, <2>3 DEF Less
<1>7. Held(p, i, DOMAIN heap') /\ SameTexts(p, i, heap, heap')
  BY <1>3, <1>4, <1>6, LessHeap
<1>8. Inv'
  BY <1>1, <1>2, <1>4, <1>6, <1>7 DEF Inv, Active
<1> QED BY <1>1, <1>2, <1>3, <1>4, <1>7, <1>8

\* One turn of the loop that closes the gap: what remains is the same.
LEMMA PopShiftStep ==
  ASSUME NullIsNoProcedure, Inv, PopShift
  PROVE  /\ Inv' /\ Active /\ shift # 0 /\ shift' = shift + 1 /\ asked' = asked
         /\ shift \in 1 .. Len(current_procedure) /\ shift + 1 \in 1 .. Len(current_procedure')
         /\ IsProcedure(current_procedure) /\ IsProcedure(current_procedure')
         /\ Remaining(heap', current_procedure', shift + 1) = Remaining(heap, current_procedure, shift)
<1>1. PICK p, s, n, q : p = current_procedure /\ s = shift /\ n = Len(p) /\ q = current_procedure'
  OBVIOUS
<1>2. /\ Active /\ s \in Nat /\ s # 0 /\ s < n /\ shift' = s + 1 /\ asked' = asked /\ commands' = commands
  BY <1>1, SlashAssumption DEF PopShift, Inv
<1>3. Held(p, s, DOMAIN heap) /\ IsProcedure(p) /\ n <= MAX_INSTRUCTIONS /\ IsFiniteSet(DOMAIN heap)
  BY <1>1, <1>2 DEF Inv, Held
<1>4. n \in Nat /\ p = [k \in 1 .. n |-> p[k]] /\ \A k \in 1 .. n : Shaped(p[k])
  BY <1>1, <1>3 DEF IsProcedure
<1>5. s \in 1 .. n /\ s + 1 \in 1 .. n /\ s + 1 # s
  BY <1>2, <1>4
<1>6. PICK t, new, x : t = Text(p[s + 1]) /\ new = Duplicate(<<t>>) /\ x = new.procedure[1]
  OBVIOUS
<1>7. Shaped(t) /\ Copied(p[s + 1]) = new
  <2>1. Shaped(p[s + 1])
    BY <1>4, <1>5
  <2> QED BY <1>6, <2>1, TextShaped, CopiedIsText DEF Text
<1>8. q = [p EXCEPT ![s] = x] /\ heap' = With(heap, new.strings)
  BY <1>1, <1>6, <1>7 DEF PopShift
<1>9. PICK m : /\ DuplicatedAs(x, m, 1, t)
               /\ DOMAIN heap' = DOMAIN heap \cup {<<m, 1, f>> : f \in Strings(Fields(t.type))}
               /\ IsFiniteSet(DOMAIN heap')
               /\ \A f : <<m, 1, f>> \notin DOMAIN heap
               /\ Agree(heap, heap')
               /\ TextIn(heap', x) = t
  BY <1>3, <1>6, <1>7, <1>8, InstructionDuplicated
<1>10. Shaped(x) /\ x.type = t.type /\ \A f \in Strings(Fields(t.type)) : x.arg[f] = <<m, 1, f>>
  BY <1>9 DEF DuplicatedAs, Strings
<1>11. q = [k \in 1 .. n |-> q[k]] /\ q[s] = x /\ \A k \in 1 .. n : k # s => q[k] = p[k]
  <2>1. q = [k \in 1 .. n |-> IF k = s THEN x ELSE p[k]]
    BY <1>4, <1>5, <1>8
  <2> QED BY <1>5, <2>1
<1>12. Len(q) = n
  BY <1>4, <1>11, InSeq
<1>13. IsProcedure(q)
  <2>1. \A k \in 1 .. n : Shaped(q[k])
    BY <1>4, <1>10, <1>11
  <2> QED BY <1>4, <1>11, <1>12, <2>1 DEF IsProcedure
<1>14. More(heap, heap') /\ Own(x, heap, heap')
  <2>1. More(heap, heap')
    BY <1>9 DEF More
  <2>2. \A f \in Strings(Fields(t.type)) : <<m, 1, f>> \in DOMAIN heap'
    BY <1>9
  <2>3. \A f \in Strings(Fields(x.type)) : x.arg[f] \in DOMAIN heap' /\ x.arg[f] \notin DOMAIN heap
    BY <1>9, <1>10, <2>2
  <2>4. \A f, e \in Strings(Fields(x.type)) : x.arg[f] = x.arg[e] => f = e
    BY <1>10
  <2> QED BY <2>1, <2>3, <2>4 DEF Own
<1>15. Puts(p, s, x, q)
  BY <1>1, <1>3, <1>5, <1>11, <1>12, <1>13 DEF Puts
<1>16. Held(q, s + 1, DOMAIN heap')
  BY <1>3, <1>14, <1>15, PutHeap
<1>17. Inv'
  <2>1. s + 1 \in 0 .. MAX_INSTRUCTIONS /\ s + 1 <= n
    BY <1>2, <1>3, <1>4, SlashAssumption
  <2>2. commands' \in 0 .. MaxCommands
    BY <1>2 DEF Inv
  <2>3. Active'
    BY <1>1, <1>13 DEF Active, NullIsNoProcedure
  <2> QED BY <1>1, <1>2, <1>9, <1>12, <1>16, <2>1, <2>2, <2>3 DEF Inv
<1>18. Remaining(heap', q, s + 1) = Remaining(heap, p, s)
  <2>1. SameTexts(p, s, heap, heap')
    BY <1>3, <1>14, MoreHeap
  <2>2. ASSUME NEW k \in 1 .. n - 1
        PROVE  TextIn(heap', q[IF k < s + 1 THEN k ELSE k + 1]) = TextIn(heap, p[IF k < s THEN k ELSE k + 1])
    <3>1. k \in 1 .. n /\ k + 1 \in 1 .. n
      BY <1>4
    <3>2. CASE k < s
      <4>1. k < s + 1 /\ k # s
        BY <1>2, <3>2
      <4>2. q[k] = p[k] /\ TextIn(heap', p[k]) = TextIn(heap, p[k])
        BY <1>1, <1>11, <2>1, <3>1, <4>1 DEF SameTexts
      <4> QED BY <3>2, <4>1, <4>2
    <3>3. CASE k = s
      <4>1. k < s + 1 /\ ~(k < s)
        BY <1>2, <3>3
      <4>2. TextIn(heap', q[s]) = TextIn(heap, p[s + 1])
        BY <1>6, <1>9, <1>11 DEF Text
      <4> QED BY <3>3, <4>1, <4>2
    <3>4. CASE k > s
      <4>1. ~(k < s + 1) /\ ~(k < s) /\ k + 1 # s
        BY <1>2, <3>4
      <4>2. q[k + 1] = p[k + 1] /\ TextIn(heap', p[k + 1]) = TextIn(heap, p[k + 1])
        BY <1>1, <1>11, <2>1, <3>1, <4>1 DEF SameTexts
      <4> QED BY <4>1, <4>2
    <3>5. k < s \/ k = s \/ k > s
      BY <1>2
    <3> QED BY <3>2, <3>3, <3>4, <3>5
  <2> QED BY <1>1, <1>12, <2>2 DEF Remaining
<1> QED BY <1>1, <1>2, <1>3, <1>5, <1>12, <1>13, <1>17, <1>18

\* The loop is over: the last instruction goes.
LEMMA PopEndsStep ==
  ASSUME Inv, PopEnds
  PROVE  /\ Inv' /\ Active /\ shift # 0 /\ shift' = 0 /\ asked' = asked /\ heap' = heap
         /\ shift = Len(current_procedure) /\ shift \in 1 .. Len(current_procedure)
         /\ current_procedure' = Front(current_procedure) /\ current_procedure # <<>>
         /\ IsProcedure(current_procedure) /\ IsProcedure(current_procedure')
<1>1. PICK p : p = current_procedure
  OBVIOUS
<1>2. /\ Active /\ shift \in Nat /\ shift # 0 /\ shift = Len(p) /\ shift' = 0 /\ asked' = asked
      /\ heap' = heap /\ commands' = commands /\ current_procedure' = Front(p)
  BY <1>1, SlashAssumption DEF PopEnds, Inv
<1>3. Held(p, shift, DOMAIN heap) /\ IsProcedure(p)
  BY <1>1, <1>2 DEF Inv, Held
<1>4. p # <<>> /\ shift \in 1 .. Len(p)
  <2>1. Len(<<>>) = 0
    OBVIOUS
  <2> QED BY <1>2, <2>1
<1>5. Held(Front(p), 0, DOMAIN heap)
  BY <1>2, <1>3, <1>4, FrontHeld
<1>6. Inv'
  <2>1. shift' \in 0 .. MAX_INSTRUCTIONS
    BY <1>2, SlashAssumption
  <2>2. commands' \in 0 .. MaxCommands
    BY <1>2 DEF Inv
  <2> QED BY <1>2, <1>5, <2>1, <2>2 DEF Inv
<1> QED BY <1>1, <1>2, <1>3, <1>4, <1>5, <1>6 DEF Held

-----------------------------------------------------------------------------
(* The invariant.                                                          *)

LEMMA InitInv == Init => Inv
<1> SUFFICES ASSUME Init PROVE Inv
  OBVIOUS
<1>1. ~Active /\ shift = 0 /\ commands = 0
  BY DEF Init, Active
<1>2. IsFiniteSet(DOMAIN heap)
  <2>1. DOMAIN heap = {}
    BY DEF Init
  <2> QED BY <2>1, FS_EmptySet
<1> QED BY <1>1, <1>2, SlashAssumption DEF Inv

LEMMA NextInv == ASSUME NullIsNoProcedure, Inv, [Next]_vars PROVE Inv'
<1>1. CASE New
  BY <1>1, NewStep
<1>2. CASE \E line \in Lines : Add(line)
  BY <1>2, AddStep
<1>3. CASE \E line \in Lines : AddRefused(line)
  BY <1>3, AddRefusedStep
<1>4. CASE \E text \in Stored : Pull(text)
  BY <1>4, PullStep
<1>5. CASE \E text \in Stored : PullFails(text)
  BY <1>5, PullFailsStep
<1>6. CASE \E index \in Indexes : PopLatest(index)
  BY <1>6, PopLatestStep
<1>7. CASE \E index \in Indexes : PopFrom(index)
  BY <1>7, PopFromStep
<1>8. CASE PopShift
  BY <1>8, PopShiftStep
<1>9. CASE PopEnds
  BY <1>9, PopEndsStep
<1>10. CASE UNCHANGED vars
  BY <1>10 DEF vars, Inv, Active
<1> QED BY <1>1, <1>2, <1>3, <1>4, <1>5, <1>6, <1>7, <1>8, <1>9, <1>10 DEF Next

\* proc_new, the commands that enter instructions, proc_pull and proc_pop keep an
\* active procedure whose strings are allocated, each for one field of one of its
\* instructions, also between two turns of the loop that removes an instruction.
THEOREM Invariant == ASSUME NullIsNoProcedure PROVE Spec => []Inv
<1>1. Inv /\ [Next]_vars => Inv'
  BY NextInv
<1> QED BY InitInv, <1>1, PTL DEF Spec

-----------------------------------------------------------------------------
(* Strings.                                                                *)

\* The places of strings in a procedure of which position s is being overwritten.
PlacesOf(p, s) == UNION {{<<k, f>> : f \in Strings(DOMAIN p[k].arg)} : k \in DOMAIN p \ {s}}

LEMMA PlaceIs ==
  ASSUME NEW p, IsProcedure(p), NEW s, NEW a
  PROVE  a \in PlacesOf(p, s) <=>
            \E k \in DOMAIN p \ {s} : \E f \in Strings(Fields(p[k].type)) : a = <<k, f>>
<1>1. \A k \in DOMAIN p : DOMAIN p[k].arg = Fields(p[k].type)
  BY ShapedFields DEF IsProcedure
<1> QED BY <1>1 DEF PlacesOf

LEMMA PlacesAre ==
  ASSUME NEW p, IsProcedure(p)
  PROVE  {p[a[1]].arg[a[2]] : a \in PlacesOf(p, 0)} = Freed(p)
<1>1. PICK A : A = {p[a[1]].arg[a[2]] : a \in PlacesOf(p, 0)}
  OBVIOUS
<1>2. DOMAIN p = 1 .. Len(p) /\ DOMAIN p \ {0} = 1 .. Len(p)
  BY DEF IsProcedure
<1>3. ASSUME NEW b PROVE b \in A <=> b \in Freed(p)
  <2>1. b \in Freed(p) <=> \E k \in 1 .. Len(p) : \E f \in Strings(Fields(p[k].type)) : b = p[k].arg[f]
    BY FreedIs
  <2>2. ASSUME b \in A PROVE b \in Freed(p)
    <3>1. PICK a \in PlacesOf(p, 0) : b = p[a[1]].arg[a[2]]
      BY <1>1, <2>2
    <3>2. PICK k \in 1 .. Len(p) : \E f \in Strings(Fields(p[k].type)) : a = <<k, f>>
      BY <1>2, <3>1, PlaceIs
    <3>3. PICK f \in Strings(Fields(p[k].type)) : a = <<k, f>>
      BY <3>2
    <3>4. b = p[k].arg[f]
      BY <3>1, <3>3
    <3> QED BY <2>1, <3>4
  <2>3. ASSUME b \in Freed(p) PROVE b \in A
    <3>1. PICK k \in 1 .. Len(p) : \E f \in Strings(Fields(p[k].type)) : b = p[k].arg[f]
      BY <2>1, <2>3
    <3>2. PICK f \in Strings(Fields(p[k].type)) : b = p[k].arg[f]
      BY <3>1
    <3>3. PICK a : a = <<k, f>>
      OBVIOUS
    <3>4. a \in PlacesOf(p, 0)
      BY <1>2, <3>3, PlaceIs
    <3>5. b = p[a[1]].arg[a[2]]
      BY <3>2, <3>3
    <3> QED BY <1>1, <3>4, <3>5
  <2> QED BY <2>2, <2>3
<1> QED BY <1>1, <1>3

\* instruction_can_be_added and the loop of proc_pop keep the procedure within
\* MAX_INSTRUCTIONS and the position of that loop within the procedure.
THEOREM TypesStay == ASSUME NullIsNoProcedure PROVE Spec => []TypeOK
<1>1. ASSUME Inv PROVE TypeOK
  <2>1. Active => Len(current_procedure) <= MAX_INSTRUCTIONS
    BY <1>1 DEF Inv, Held
  <2>2. Active => \A k \in DOMAIN current_procedure : current_procedure[k].type \in Types
    BY <1>1 DEF Inv, Held, IsProcedure, Shaped
  <2> QED BY <1>1, <2>1, <2>2 DEF Inv, TypeOK
<1>2. Inv => TypeOK
  BY <1>1
<1> QED BY <1>2, Invariant, PTL

\* However instructions are entered, pulled and removed, every string of the active
\* procedure is allocated and belongs to one field of one of its instructions, so that
\* free_proc frees each once; while proc_pop closes the gap that holds of all but the
\* position it overwrites next.
THEOREM StringsHaveOneOwner == ASSUME NullIsNoProcedure PROVE Spec => []SoleOwner
<1>1. ASSUME Inv PROVE SoleOwner
  <2>1. CASE ~Active
    <3>1. Places = {}
      BY <2>1 DEF Places
    <3> QED BY <3>1 DEF SoleOwner
  <2>2. CASE Active
    <3>1. PICK p : p = current_procedure
      OBVIOUS
    <3>2. Held(p, shift, DOMAIN heap) /\ IsProcedure(p)
      BY <1>1, <2>2, <3>1 DEF Inv, Held
    <3>3. Places = PlacesOf(p, shift)
      BY <2>2, <3>1 DEF Places, PlacesOf
    <3>4. \A a \in Places : \E k \in DOMAIN p \ {shift} : \E f \in Strings(Fields(p[k].type)) : a = <<k, f>>
      BY <3>2, <3>3, PlaceIs
    <3>5. ASSUME NEW a \in Places, NEW b \in Places, Address(a) = Address(b) PROVE a = b
      <4>1. PICK k \in DOMAIN p \ {shift} : \E f \in Strings(Fields(p[k].type)) : a = <<k, f>>
        BY <3>4
      <4>2. PICK f \in Strings(Fields(p[k].type)) : a = <<k, f>>
        BY <4>1
      <4>3. PICK l \in DOMAIN p \ {shift} : \E g \in Strings(Fields(p[l].type)) : b = <<l, g>>
        BY <3>4
      <4>4. PICK g \in Strings(Fields(p[l].type)) : b = <<l, g>>
        BY <4>3
      <4>5. p[k].arg[f] = p[l].arg[g]
        BY <3>1, <3>5, <4>2, <4>4 DEF Address
      <4>6. k = l /\ f = g
        BY <3>2, <4>5 DEF Held, Sole
      <4> QED BY <4>2, <4>4, <4>6
    <3>6. ASSUME NEW a \in Places PROVE Address(a) \in DOMAIN heap
      <4>1. PICK k \in DOMAIN p \ {shift} : \E f \in Strings(Fields(p[k].type)) : a = <<k, f>>
        BY <3>4
      <4>2. PICK f \in Strings(Fields(p[k].type)) : a = <<k, f>>
        BY <4>1
      <4>3. Address(a) = p[k].arg[f]
        BY <3>1, <4>2 DEF Address
      <4> QED BY <3>2, <4>3 DEF Held, Sole
    <3> QED BY <3>5, <3>6 DEF SoleOwner
  <2> QED BY <2>1, <2>2
<1>2. Inv => SoleOwner
  BY <1>1
<1> QED BY <1>2, Invariant, PTL

\* What no instruction of the active procedure holds.
LostOf(p, D) == D \ Freed(p)
LEMMA LostIs ==
  ASSUME Inv, shift = 0
  PROVE  Lost = IF Active THEN LostOf(current_procedure, DOMAIN heap) ELSE DOMAIN heap
<1>1. CASE Active
  <2>1. IsProcedure(current_procedure)
    BY <1>1 DEF Inv, Held
  <2>2. Places = PlacesOf(current_procedure, 0)
    BY <1>1 DEF Places, PlacesOf
  <2>3. {Address(a) : a \in Places} = Freed(current_procedure)
    BY <2>1, <2>2, PlacesAre DEF Address
  <2> QED BY <1>1, <2>3 DEF Lost, LostOf
<1>2. CASE ~Active
  BY <1>2 DEF Lost, Places
<1> QED BY <1>1, <1>2

LEMMA LostNext ==
  ASSUME Inv', shift' = 0
  PROVE  Lost' = IF Active' THEN LostOf(current_procedure', DOMAIN heap') ELSE DOMAIN heap'
<1>1. CASE Active'
  <2>1. IsProcedure(current_procedure')
    BY <1>1 DEF Inv, Held
  <2>2. Places' = PlacesOf(current_procedure', 0)
    BY <1>1 DEF Places, PlacesOf
  <2>3. {Address(a)' : a \in Places'} = Freed(current_procedure')
    BY <2>1, <2>2, PlacesAre DEF Address
  <2> QED BY <1>1, <2>3 DEF Lost, LostOf
<1>2. CASE ~Active'
  BY <1>2 DEF Lost, Places
<1> QED BY <1>1, <1>2

\* Of the commands that carry out what was asked only proc_pop leaves strings that
\* no instruction holds: proc_new and proc_pull free those of the procedure that was
\* active and what is entered or received belongs to the new one.
THEOREM OnlyPopsLose == ASSUME NullIsNoProcedure PROVE Spec => OnlyPopsAndRefusalsLose
<1> DEFINE Popped == asked'[1] = "pop"
           Loses == shift' = shift /\ current_procedure' # current_procedure /\ asked'[1] # "pop" => Lost' \subseteq Lost
<1>1. ASSUME Inv, [Next]_vars, shift' = shift, current_procedure' # current_procedure, ~Popped
      PROVE  Lost' \subseteq Lost
  <2>1. Inv'
    BY <1>1, NextInv
  <2>2. ASSUME shift = 0, DOMAIN heap' \subseteq DOMAIN heap \ (IF Active THEN Freed(current_procedure) ELSE {})
        PROVE  Lost' \subseteq Lost
    <3>1. Lost' \subseteq DOMAIN heap'
      BY <1>1, <2>1, <2>2, LostNext DEF LostOf
    <3>2. Lost = DOMAIN heap \ (IF Active THEN Freed(current_procedure) ELSE {})
      BY <1>1, <2>2, LostIs DEF LostOf
    <3> QED BY <2>2, <3>1, <3>2
  <2>3. CASE New
    <3>1. shift = 0 /\ DOMAIN heap' = DOMAIN heap \ (IF Active THEN Freed(current_procedure) ELSE {})
      BY <1>1, <2>3, NewStep
    <3> QED BY <2>2, <3>1
  <2>4. CASE \E text \in Stored : PullFails(text)
    <3>1. shift = 0 /\ DOMAIN heap' = DOMAIN heap \ (IF Active THEN Freed(current_procedure) ELSE {})
      BY <1>1, <2>4, PullFailsStep
    <3> QED BY <2>2, <3>1
  <2>5. CASE \E line \in Lines : Add(line)
    <3>1. /\ shift = 0 /\ Active /\ IsProcedure(current_procedure')
          /\ DOMAIN heap' \subseteq DOMAIN heap \cup Freed(current_procedure')
          /\ Freed(current_procedure) \subseteq Freed(current_procedure')
      BY <1>1, <2>5, AddStep
    <3>2. Lost' = DOMAIN heap' \ Freed(current_procedure')
      BY <1>1, <2>1, <3>1, LostNext DEF LostOf, Active, NullIsNoProcedure
    <3>3. Lost = DOMAIN heap \ Freed(current_procedure)
      BY <1>1, <3>1, LostIs DEF LostOf
    <3> QED BY <3>1, <3>2, <3>3
  <2>6. CASE \E text \in Stored : Pull(text)
    <3>1. /\ shift = 0 /\ IsProcedure(current_procedure')
          /\ DOMAIN heap' \subseteq (DOMAIN heap \ (IF Active THEN Freed(current_procedure) ELSE {}))
                                  \cup Freed(current_procedure')
      BY <1>1, <2>6, PullStep
    <3>2. Lost' = DOMAIN heap' \ Freed(current_procedure')
      BY <1>1, <2>1, <3>1, LostNext DEF LostOf, Active, NullIsNoProcedure
    <3>3. Lost = DOMAIN heap \ (IF Active THEN Freed(current_procedure) ELSE {})
      BY <1>1, <3>1, LostIs DEF LostOf
    <3> QED BY <3>1, <3>2, <3>3
  <2>7. CASE \E line \in Lines : AddRefused(line)
    BY <1>1, <2>7, AddRefusedStep
  <2>8. CASE \E index \in Indexes : PopLatest(index)
    BY <1>1, <2>8, PopLatestStep
  <2>9. CASE \E index \in Indexes : PopFrom(index)
    <3>1. PICK index \in Indexes : PopFrom(index)
      BY <2>9
    <3> QED BY <1>1, <3>1, PopFromStep
  <2>10. CASE PopShift
    <3>1. shift' = shift + 1 /\ shift \in Nat
      BY <1>1, <2>10, PopShiftStep, SlashAssumption DEF Inv
    <3> QED BY <1>1, <3>1
  <2>11. CASE PopEnds
    BY <1>1, <2>11, PopEndsStep
  <2>12. CASE UNCHANGED vars
    BY <1>1, <2>12 DEF vars
  <2> QED BY <1>1, <2>3, <2>4, <2>5, <2>6, <2>7, <2>8, <2>9, <2>10, <2>11, <2>12 DEF Next
<1>2. Inv /\ [Next]_vars => [Loses]_vars
  BY <1>1
<1> QED BY <1>2, Invariant, PTL DEF Spec, OnlyPopsAndRefusalsLose

-----------------------------------------------------------------------------
(* What the user edits.                                                    *)

LEMMA GapIs ==
  ASSUME NEW h, NEW p, NEW i, NEW q, q = [k \in 1 .. Len(p) - 1 |-> p[IF k < i THEN k ELSE k + 1]]
  PROVE  [k \in DOMAIN q |-> TextIn(h, q[k])] = Remaining(h, p, i)
<1>1. DOMAIN q = 1 .. Len(p) - 1
  OBVIOUS
<1>2. \A k \in 1 .. Len(p) - 1 : q[k] = p[IF k < i THEN k ELSE k + 1]
  OBVIOUS
<1> QED BY <1>1, <1>2 DEF Remaining

LEMMA WholeIs ==
  ASSUME NEW h, NEW p, IsProcedure(p)
  PROVE  [k \in DOMAIN p |-> TextIn(h, p[k])] = Texts(h, p)
<1>1. DOMAIN p = 1 .. Len(p)
  BY DEF IsProcedure
<1> QED BY <1>1 DEF Texts

LEMMA EditedIs ==
  ASSUME Inv
  PROVE  /\ ~Active => Edited = NONE
         /\ Active /\ shift = 0 => Edited = Texts(heap, current_procedure)
         /\ Active /\ shift # 0 => Edited = Remaining(heap, current_procedure, shift)
<1>1. Active => IsProcedure(current_procedure)
  BY DEF Inv, Held
<1>2. CASE Active /\ shift = 0
  BY <1>1, <1>2, WholeIs DEF Edited, TextOf, Text
<1>3. CASE Active /\ shift # 0
  <2>1. PICK p, i, q : /\ p = current_procedure /\ i = shift
                       /\ q = [k \in 1 .. Len(p) - 1 |-> p[IF k < i THEN k ELSE k + 1]]
    OBVIOUS
  <2>2. Edited = [k \in DOMAIN q |-> TextIn(heap, q[k])]
    BY <1>3, <2>1 DEF Edited, TextOf, Text
  <2>3. [k \in DOMAIN q |-> TextIn(heap, q[k])] = Remaining(heap, p, i)
    BY <2>1, GapIs
  <2> QED BY <1>3, <2>1, <2>2, <2>3
<1> QED BY <1>2, <1>3 DEF Edited

LEMMA EditedNext ==
  ASSUME Inv'
  PROVE  /\ ~Active' => Edited' = NONE
         /\ Active' /\ shift' = 0 => Edited' = Texts(heap', current_procedure')
         /\ Active' /\ shift' # 0 => Edited' = Remaining(heap', current_procedure', shift')
<1>1. Active' => IsProcedure(current_procedure')
  BY DEF Inv, Held
<1>2. CASE Active' /\ shift' = 0
  BY <1>1, <1>2, WholeIs DEF Edited, TextOf, Text
<1>3. CASE Active' /\ shift' # 0
  <2>1. PICK p, i, q : /\ p = current_procedure' /\ i = shift'
                       /\ q = [k \in 1 .. Len(p) - 1 |-> p[IF k < i THEN k ELSE k + 1]]
    OBVIOUS
  <2>2. Edited' = [k \in DOMAIN q |-> TextIn(heap', q[k])]
    BY <1>3, <2>1 DEF Edited, TextOf, Text
  <2>3. [k \in DOMAIN q |-> TextIn(heap', q[k])] = Remaining(heap', p, i)
    BY <2>1, GapIs
  <2> QED BY <1>3, <2>1, <2>2, <2>3
<1> QED BY <1>2, <1>3 DEF Edited

\* Removing an instruction removes it from the text.
LEMMA RemovedIs ==
  ASSUME NEW h, NEW p, IsProcedure(p), NEW i \in 1 .. Len(p)
  PROVE  /\ Editor!RemoveAt(Texts(h, p), i) = Remaining(h, p, i)
         /\ i \in DOMAIN Texts(h, p)
<1>1. PICK t : t = Texts(h, p)
  OBVIOUS
<1>2. RemoveAt(t, i) = Remaining(h, p, i)
  BY <1>1, RemainingIs
<1>3. Editor!RemoveAt(t, i) = RemoveAt(t, i)
  BY DEF Editor!RemoveAt, RemoveAt
<1>4. i \in DOMAIN t
  BY <1>1, TextsAre
<1> QED BY <1>1, <1>2, <1>3, <1>4

\* Every command on the active procedure and on its strings has the effect on the
\* text that the user edits which the editor promises: whatever the instructions and
\* their number, a position that fits a byte removes the instruction at this position
\* and leaves the others in order, and the turns of the loop in proc_pop are no steps
\* of the editor. Of a number beyond a byte it only follows that one is removed.
THEOREM EditsAsAsked == ASSUME NullIsNoProcedure, MeansExactly PROVE Spec => ImplementsEditor
<1>1. Init => Editor!Init
  BY DEF Init, Editor!Init, Edited, Active
<1>2. ASSUME Inv, [Next]_vars
      PROVE  [Editor!Next]_(Editor!vars)
  <2>1. Inv'
    BY <1>2, NextInv
  <2>2. \A p : IsProcedure(p) => p # NONE
    BY DEF NullIsNoProcedure
  <2>3. CASE New
    <3>1. shift' = 0 /\ asked' = <<"new">> /\ current_procedure' \in {<<>>, NONE}
      BY <1>2, <2>3, NewStep
    <3>2. IsProcedure(<<>>)
      BY EmptyHeld
    <3>3. CASE current_procedure' = NONE
      <4>1. Edited' = NONE
        BY <2>1, <3>3, EditedNext DEF Active
      <4> QED BY <3>1, <4>1 DEF Editor!Next, Editor!New
    <3>4. CASE current_procedure' = <<>>
      <4>1. Edited' = Texts(heap', <<>>)
        BY <2>1, <2>2, <3>1, <3>2, <3>4, EditedNext DEF Active
      <4>2. Texts(heap', <<>>) = <<>>
        BY DEF Texts
      <4> QED BY <3>1, <4>1, <4>2 DEF Editor!Next, Editor!New
    <3> QED BY <3>1, <3>3, <3>4
  <2>4. CASE \E line \in Lines : Add(line)
    <3>1. PICK line \in Lines : Add(line)
      BY <2>4
    <3>2. /\ Active /\ shift = 0 /\ shift' = 0 /\ asked' = <<"add", line>> /\ Parses(line)
          /\ Len(current_procedure) < MAX_INSTRUCTIONS
          /\ IsProcedure(current_procedure) /\ IsProcedure(current_procedure')
          /\ Texts(heap', current_procedure') = Append(Texts(heap, current_procedure), Instruction(line))
      BY <1>2, <3>1, AddStep
    <3>3. Edited = Texts(heap, current_procedure)
      BY <1>2, <3>2, EditedIs
    <3>4. Edited' = Texts(heap', current_procedure')
      BY <2>1, <2>2, <3>2, EditedNext DEF Active
    <3>5. Edited # NONE /\ Len(Edited) < MAX_INSTRUCTIONS
      BY <2>2, <3>2, <3>3, TextsAre
    <3>6. line \in DOMAIN Means /\ Instruction(line) \in Means[line]
      BY <3>2 DEF MeansExactly
    <3>7. Edited' = Append(Edited, Instruction(line))
      BY <3>2, <3>3, <3>4, <3>6
    <3> QED BY <3>2, <3>5, <3>6, <3>7 DEF Editor!Next, Editor!Add
  <2>5. CASE \E text \in Stored : Pull(text)
    <3>1. PICK text \in Stored : Pull(text)
      BY <2>5
    <3>2. /\ shift' = 0 /\ asked' = <<"pull", text>> /\ IsProcedure(current_procedure')
          /\ Texts(heap', current_procedure') = text
      BY <1>2, <3>1, PullStep
    <3>3. Edited' = text
      BY <2>1, <2>2, <3>2, EditedNext DEF Active
    <3> QED BY <3>2, <3>3 DEF Editor!Next, Editor!Pull
  <2>6. CASE \E text \in Stored : PullFails(text)
    <3>1. PICK text \in Stored : PullFails(text)
      BY <2>6
    <3>2. asked' = <<"pull", text>> /\ current_procedure' = NONE
      BY <1>2, <3>1, PullFailsStep
    <3>3. Edited' = NONE
      BY <2>1, <3>2, EditedNext DEF Active
    <3> QED BY <3>2, <3>3 DEF Editor!Next, Editor!Pull
  <2>7. ASSUME NEW index \in Indexes, NEW step, step = Step(index),
               NEW p, IsProcedure(p), step + 1 \in 1 .. Len(p),
               Edited = Texts(heap, p), Edited' = Remaining(heap, p, step + 1), asked' = <<"pop", index>>
        PROVE  Editor!Next
    <3>1. index \in 0 .. MAX_INSTRUCTIONS => step = index
      BY <2>7, StepIs
    <3>2. Edited # NONE
      BY <2>2, <2>7, TextsAre
    <3>3. step + 1 \in DOMAIN Edited /\ Edited' = Editor!RemoveAt(Edited, step + 1)
      BY <2>7, RemovedIs
    <3>4. CASE index \in 0 .. MAX_INSTRUCTIONS
      BY <2>7, <3>1, <3>2, <3>3, <3>4 DEF Editor!Next, Editor!Pop
    <3>5. CASE index \notin 0 .. MAX_INSTRUCTIONS
      BY <2>7, <3>2, <3>3, <3>5 DEF Editor!Next, Editor!PopAnother
    <3> QED BY <3>4, <3>5
  <2>8. CASE \E index \in Indexes : PopLatest(index)
    <3>1. PICK index \in Indexes : PopLatest(index)
      BY <2>8
    <3>2. PICK p, step : p = current_procedure /\ step = Step(index)
      OBVIOUS
    <3>3. /\ Active /\ shift = 0 /\ shift' = 0 /\ asked' = <<"pop", index>> /\ heap' = heap
          /\ IsProcedure(p) /\ step + 1 = Len(p) /\ p # <<>> /\ current_procedure' = Front(p)
          /\ IsProcedure(current_procedure')
      BY <1>2, <3>1, <3>2, PopLatestStep
    <3>4. Edited = Texts(heap, p)
      BY <1>2, <3>2, <3>3, EditedIs
    <3>5. Edited' = Texts(heap, Front(p))
      BY <2>1, <2>2, <3>3, EditedNext DEF Active
    <3>6. Edited' = Remaining(heap, p, step + 1)
      BY <3>3, <3>5, FrontRemains
    <3>7. step + 1 \in 1 .. Len(p)
      BY <3>2, <3>3, StepIs, SlashAssumption DEF IsProcedure
    <3>8. Editor!Next
      BY <2>7, <3>1, <3>2, <3>3, <3>4, <3>6, <3>7
    <3> QED BY <3>8
  <2>9. CASE \E index \in Indexes : PopFrom(index)
    <3>1. PICK index \in Indexes : PopFrom(index)
      BY <2>9
    <3>2. PICK p, step : p = current_procedure /\ step = Step(index)
      OBVIOUS
    <3>3. /\ Active /\ shift = 0 /\ shift' = step + 1 /\ asked' = <<"pop", index>> /\ current_procedure' = p
          /\ IsProcedure(p) /\ step + 1 \in 1 .. Len(p) - 1 /\ SameTexts(p, step + 1, heap, heap')
      BY <1>2, <3>1, <3>2, PopFromStep
    <3>4. step + 1 \in 1 .. Len(p) /\ step + 1 # 0
      BY <3>2, <3>3, StepIs, SlashAssumption DEF IsProcedure
    <3>5. Edited = Texts(heap, p)
      BY <1>2, <3>2, <3>3, EditedIs
    <3>6. Edited' = Remaining(heap', p, step + 1)
      BY <2>1, <2>2, <3>3, <3>4, EditedNext DEF Active
    <3>7. Edited' = Remaining(heap, p, step + 1)
      BY <3>3, <3>4, <3>6, SameRemains
    <3>8. Editor!Next
      BY <2>7, <3>1, <3>2, <3>3, <3>4, <3>5, <3>7
    <3> QED BY <3>8
  <2>10. CASE \E line \in Lines : AddRefused(line)
    <3>1. shift = 0 /\ UNCHANGED <<current_procedure, shift, asked>> /\ More(heap, heap')
      BY <1>2, <2>10, AddRefusedStep
    <3>2. CASE ~Active
      <4>1. Edited = NONE /\ Edited' = NONE
        BY <1>2, <2>1, <3>1, <3>2, EditedIs, EditedNext DEF Active
      <4> QED BY <3>1, <4>1 DEF Editor!vars
    <3>3. CASE Active
      <4>1. PICK p : p = current_procedure
        OBVIOUS
      <4>2. Held(p, 0, DOMAIN heap) /\ IsProcedure(p)
        BY <1>2, <3>1, <3>3, <4>1 DEF Inv, Held
      <4>3. Edited = Texts(heap, p)
        BY <1>2, <3>1, <3>3, <4>1, EditedIs
      <4>4. Edited' = Texts(heap', p)
        BY <2>1, <3>1, <3>3, <4>1, EditedNext DEF Active
      <4>5. Texts(heap', p) = Texts(heap, p)
        <5>1. SameTexts(p, 0, heap, heap')
          BY <3>1, <4>2, MoreHeap
        <5>2. \A k \in 1 .. Len(p) : k # 0
          BY <4>2 DEF IsProcedure
        <5> QED BY <5>1, <5>2 DEF SameTexts, Texts
      <4> QED BY <3>1, <4>3, <4>4, <4>5 DEF Editor!vars
    <3> QED BY <3>2, <3>3
  <2>11. CASE PopShift
    <3>1. PICK p, q : p = current_procedure /\ q = current_procedure'
      OBVIOUS
    <3>2. /\ Active /\ shift # 0 /\ shift' = shift + 1 /\ asked' = asked /\ shift \in 1 .. Len(p)
          /\ IsProcedure(p) /\ IsProcedure(q) /\ Remaining(heap', q, shift + 1) = Remaining(heap, p, shift)
      BY <1>2, <2>11, <3>1, PopShiftStep
    <3>3. shift' # 0
      BY <3>2 DEF IsProcedure
    <3>4. Edited = Remaining(heap, p, shift)
      BY <1>2, <3>1, <3>2, EditedIs
    <3>5. Edited' = Remaining(heap', q, shift + 1)
      BY <2>1, <2>2, <3>1, <3>2, <3>3, EditedNext DEF Active
    <3> QED BY <3>2, <3>4, <3>5 DEF Editor!vars
  <2>12. CASE PopEnds
    <3>1. PICK p : p = current_procedure
      OBVIOUS
    <3>2. /\ Active /\ shift # 0 /\ shift' = 0 /\ asked' = asked /\ heap' = heap /\ shift = Len(p)
          /\ current_procedure' = Front(p) /\ p # <<>> /\ IsProcedure(p) /\ IsProcedure(Front(p))
      BY <1>2, <2>12, <3>1, PopEndsStep
    <3>3. Edited = Remaining(heap, p, Len(p))
      BY <1>2, <3>1, <3>2, EditedIs
    <3>4. Edited' = Texts(heap, Front(p))
      BY <2>1, <2>2, <3>2, EditedNext DEF Active
    <3>5. Edited' = Edited
      BY <3>2, <3>3, <3>4, FrontRemains
    <3> QED BY <3>2, <3>5 DEF Editor!vars
  <2>13. CASE UNCHANGED vars
    <3>1. Edited' = Edited /\ asked' = asked
      BY <2>13 DEF vars, Edited, Active, TextOf, Text
    <3> QED BY <3>1 DEF Editor!vars
  <2> QED BY <1>2, <2>3, <2>4, <2>5, <2>6, <2>8, <2>9, <2>10, <2>11, <2>12, <2>13 DEF Next
<1>3. Inv /\ [Next]_vars => [Editor!Next]_(Editor!vars)
  BY <1>2
<1> QED BY <1>1, <1>3, Invariant, PTL DEF Spec, ImplementsEditor, Editor!Spec
=============================================================================

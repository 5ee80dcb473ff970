-------------------------- MODULE ProcMemory_proofs --------------------------
(***************************************************************************)
(* The strings of procedures in memory have one owner each, none is lost,  *)
(* and procedures arrive as they were sent.                                *)
(***************************************************************************)
EXTENDS ProcMemory, FiniteSetTheorems, SequenceTheorems, WellFoundedInduction, TLAPS

-----------------------------------------------------------------------------
(* What the functions of proc_pack.c do with the strings of procedures:    *)
(* duplicate, copy and free them.                                          *)

Fields(type) == ToSet(PackedFields(type))

\* The tables of proc_pack.c agree.
LEMMA FieldTables ==
  ASSUME NEW type \in Types
  PROVE  /\ Fields(type) = MeasuredFields(type)
         /\ Fields(type) = CopiedFields(type)
         /\ PackedFields(type) = UnpackedFields(type)
         /\ FreedFields(type) = Strings(Fields(type))
         /\ Len(PackedFields(type)) \in Nat /\ DOMAIN PackedFields(type) = 1 .. Len(PackedFields(type))
         /\ \A i, j \in DOMAIN PackedFields(type) : PackedFields(type)[i] = PackedFields(type)[j] => i = j
<1> USE DEF Fields, ToSet, PackedFields, MeasuredFields, CopiedFields, UnpackedFields, FreedFields, Strings
<1>1. CASE type = "block"
  BY <1>1
<1>2. CASE type = "ifelse"
  BY <1>2
<1>3. CASE type = "set"
  BY <1>3
<1>4. CASE type = "unop"
  BY <1>4
<1>5. CASE type = "binop"
  BY <1>5
<1>6. CASE type = "call"
  BY <1>6
<1>7. CASE type = "noop"
  BY <1>7
<1> QED BY <1>1, <1>2, <1>3, <1>4, <1>5, <1>6, <1>7 DEF Types

\* An unknown type has no strings.
LEMMA UnknownFields == UNKNOWN \notin Types /\ FreedFields(UNKNOWN) = {}
BY DEF UNKNOWN, Types, FreedFields

LEMMA ShapedFields ==
  ASSUME NEW i, Shaped(i)
  PROVE  /\ i.type \in Types /\ DOMAIN i.arg = Fields(i.type)
         /\ i = [node |-> i.node, type |-> i.type, arg |-> i.arg]
         /\ i.arg = [f \in Fields(i.type) |-> i.arg[f]]
<1>1. i = [node |-> i.node, type |-> i.type, arg |-> [f \in Fields(i.type) |-> i.arg[f]]]
  BY DEF Shaped, Fields
<1>2. i.arg = [f \in Fields(i.type) |-> i.arg[f]]
  BY <1>1
<1>3. DOMAIN i.arg = Fields(i.type)
  BY <1>2
<1> QED BY <1>1, <1>2, <1>3 DEF Shaped

\* An instruction with other arguments.
LEMMA OtherArguments ==
  ASSUME NEW i, Shaped(i), NEW a, a = [f \in Fields(i.type) |-> a[f]], NEW j, j = [i EXCEPT !.arg = a]
  PROVE  Shaped(j) /\ j.node = i.node /\ j.type = i.type /\ j.arg = a
<1>1. i = [node |-> i.node, type |-> i.type, arg |-> i.arg] /\ i.type \in Types
  BY ShapedFields
<1>2. j = [node |-> i.node, type |-> i.type, arg |-> a]
  BY <1>1
<1> QED BY <1>1, <1>2 DEF Shaped, Fields

\* Addresses are never in use when they are given out.
LEMMA UnusedIsFresh ==
  ASSUME IsFiniteSet(DOMAIN heap)
  PROVE  \A a \in DOMAIN heap : a[1] # Unused
<1> DEFINE D == DOMAIN heap
           c == Cardinality(D)
           T == {a[1] : a \in D}
<1>1. c \in Nat
  BY FS_CardinalityType
<1>2. IsFiniteSet(T) /\ Cardinality(T) \in Nat /\ Cardinality(T) <= c
  <2>1. [a \in D |-> a[1]] \in Surjection(D, T)
    BY DEF Surjection
  <2>2. IsFiniteSet(T) /\ Cardinality(T) <= c
    BY <2>1, FS_Surjection
  <2> QED BY <2>2, FS_CardinalityType
<1>3. \E n \in 1 .. c + 1 : n \notin T
  <2> SUFFICES ASSUME 1 .. c + 1 \in SUBSET T PROVE FALSE
    OBVIOUS
  <2>1. Cardinality(1 .. c + 1) <= Cardinality(T)
    BY <1>2, FS_Subset
  <2>2. Cardinality(1 .. c + 1) = c + 1
    BY <1>1, FS_Interval
  <2> HIDE DEF c, T
  <2> QED BY <1>1, <1>2, <2>1, <2>2
<1>4. \E n \in 1 .. c + 1 : \A a \in D : a[1] # n
  BY <1>3
<1> QED BY <1>4 DEF Unused

\* What proc_strdup gives for the instruction k of a text.
DuplicatedAs(new, n, k, i) ==
    /\ Shaped(new) /\ new.node = i.node /\ new.type = i.type
    /\ \A f \in Fields(i.type) : new.arg[f] = IF f \in Strings({f}) THEN <<n, k, f>> ELSE i.arg[f]

Duplicated(new, n, text) ==
    /\ IsProcedure(new.procedure) /\ Len(new.procedure) = Len(text)
    /\ \A k \in 1 .. Len(text) : DuplicatedAs(new.procedure[k], n, k, text[k])
    /\ \A a : a \in DOMAIN new.strings <=>
            \E k \in 1 .. Len(text) : \E f \in Strings(Fields(text[k].type)) : a = <<n, k, f>>
    /\ \A k \in 1 .. Len(text) : \A f \in Strings(Fields(text[k].type)) :
            new.strings[<<n, k, f>>] = text[k].arg[f]

LEMMA DuplicateEffect ==
  ASSUME NEW text, IsProcedure(text)
  PROVE  Duplicated(Duplicate(text), Unused, text)
<1>10. PICK new, n : new = Duplicate(text) /\ n = Unused
  OBVIOUS
<1>1. Len(text) \in Nat /\ DOMAIN text = 1 .. Len(text) /\ \A k \in 1 .. Len(text) : Shaped(text[k])
  BY DEF IsProcedure
<1>2. \A k \in 1 .. Len(text) : DOMAIN text[k].arg = Fields(text[k].type)
  BY <1>1, ShapedFields
<1>3. new.procedure = [k \in 1 .. Len(text) |-> [text[k] EXCEPT !.arg =
                        [f \in DOMAIN @ |-> IF f \in Strings({f}) THEN <<n, k, f>> ELSE @[f]]]]
  BY <1>1, <1>10 DEF Duplicate
<1>4. ASSUME NEW k \in 1 .. Len(text)
      PROVE  DuplicatedAs(new.procedure[k], n, k, text[k])
  <2> DEFINE i == text[k]
  <2>1. Shaped(i) /\ DOMAIN i.arg = Fields(i.type)
    BY <1>1, <1>2
  <2>2. PICK a : a = [f \in Fields(i.type) |-> IF f \in Strings({f}) THEN <<n, k, f>> ELSE i.arg[f]]
    OBVIOUS
  <2>3. new.procedure[k] = [i EXCEPT !.arg = a]
    BY <1>3, <2>1, <2>2
  <2> HIDE DEF i
  <2>4. a = [f \in Fields(i.type) |-> a[f]]
    BY <2>2
  <2>5. Shaped(new.procedure[k]) /\ new.procedure[k].node = i.node /\ new.procedure[k].type = i.type
        /\ new.procedure[k].arg = a
    BY <2>1, <2>3, <2>4, OtherArguments
  <2> QED BY <2>2, <2>5 DEF DuplicatedAs, i
<1>5. IsProcedure(new.procedure) /\ Len(new.procedure) = Len(text)
  <2>1. Len(new.procedure) = Len(text)
    BY <1>1, <1>3
  <2>2. new.procedure = [k \in 1 .. Len(text) |-> new.procedure[k]]
    BY <1>3
  <2> QED BY <1>1, <1>4, <2>1, <2>2 DEF IsProcedure, DuplicatedAs
<1>6. new.strings =
        [a \in UNION {{<<n, k, f>> : f \in Strings(DOMAIN text[k].arg)} : k \in 1 .. Len(text)} |->
            text[a[2]].arg[a[3]]]
  BY <1>1, <1>10 DEF Duplicate
<1>7. \A a : a \in DOMAIN new.strings <=>
            \E k \in 1 .. Len(text) : \E f \in Strings(Fields(text[k].type)) : a = <<n, k, f>>
  BY <1>2, <1>6
<1>8. \A k \in 1 .. Len(text) : \A f \in Strings(Fields(text[k].type)) :
                new.strings[<<n, k, f>>] = text[k].arg[f]
  BY <1>6, <1>7
<1>9. Duplicated(new, n, text)
  BY <1>4, <1>5, <1>7, <1>8 DEF Duplicated
<1> QED BY <1>9, <1>10

\* The text of an instruction.
LEMMA TextShaped ==
  ASSUME NEW h, NEW i, Shaped(i)
  PROVE  /\ Shaped(TextIn(h, i)) /\ TextIn(h, i).node = i.node /\ TextIn(h, i).type = i.type
         /\ \A f \in Fields(i.type) : TextIn(h, i).arg[f] = IF f \in Strings({f}) THEN h[i.arg[f]] ELSE i.arg[f]
<1>1. DOMAIN i.arg = Fields(i.type)
  BY ShapedFields
<1>2. PICK a : a = [f \in Fields(i.type) |-> IF f \in Strings({f}) THEN h[i.arg[f]] ELSE i.arg[f]]
  OBVIOUS
<1>3. TextIn(h, i) = [i EXCEPT !.arg = a]
  BY <1>1, <1>2 DEF TextIn
<1>4. a = [f \in Fields(i.type) |-> a[f]]
  BY <1>2
<1>5. Shaped(TextIn(h, i)) /\ TextIn(h, i).node = i.node /\ TextIn(h, i).type = i.type /\ TextIn(h, i).arg = a
  BY <1>3, <1>4, OtherArguments
<1> QED BY <1>2, <1>5

\* Two instructions with the same fields are the same.
LEMMA SameInstruction ==
  ASSUME NEW i, Shaped(i), NEW j, Shaped(j), i.node = j.node, i.type = j.type,
         \A f \in Fields(i.type) : i.arg[f] = j.arg[f]
  PROVE  i = j
<1>1. PICK F : F = Fields(i.type)
  OBVIOUS
<1>2. i.arg = [f \in F |-> i.arg[f]]
  BY <1>1, ShapedFields
<1>3. j.arg = [f \in F |-> j.arg[f]]
  BY <1>1, ShapedFields
<1>4. i.arg = j.arg
  BY <1>1, <1>2, <1>3
<1>5. i = [node |-> i.node, type |-> i.type, arg |-> i.arg]
  BY ShapedFields
<1>6. j = [node |-> j.node, type |-> j.type, arg |-> j.arg]
  BY ShapedFields
<1> QED BY <1>4, <1>5, <1>6

\* The text does not depend on other strings.
LEMMA TextStays ==
  ASSUME NEW g, NEW h, NEW i, Shaped(i), \A f \in Strings(Fields(i.type)) : g[i.arg[f]] = h[i.arg[f]]
  PROVE  TextIn(g, i) = TextIn(h, i)
<1>1. \A f \in Fields(i.type) : TextIn(g, i).arg[f] = TextIn(h, i).arg[f]
  BY TextShaped DEF Strings
<1> QED BY <1>1, TextShaped, SameInstruction

\* A duplicate stands for what was duplicated.
LEMMA DuplicateText ==
  ASSUME NEW h, NEW i, Shaped(i), NEW n, NEW k, NEW new, DuplicatedAs(new, n, k, i),
         \A f \in Strings(Fields(i.type)) : h[<<n, k, f>>] = i.arg[f]
  PROVE  TextIn(h, new) = i
<1>1. Shaped(new) /\ new.node = i.node /\ new.type = i.type
  BY DEF DuplicatedAs
<1>2. ASSUME NEW f \in Fields(i.type)
      PROVE  TextIn(h, new).arg[f] = i.arg[f]
  <2>1. TextIn(h, new).arg[f] = IF f \in Strings({f}) THEN h[new.arg[f]] ELSE new.arg[f]
    BY <1>1, TextShaped
  <2>2. new.arg[f] = IF f \in Strings({f}) THEN <<n, k, f>> ELSE i.arg[f]
    BY DEF DuplicatedAs
  <2>3. f \in Strings({f}) => f \in Strings(Fields(i.type))
    BY DEF Strings
  <2> QED BY <2>1, <2>2, <2>3
<1> QED BY <1>1, <1>2, TextShaped, SameInstruction

\* Copying an instruction copies all of it.
LEMMA CopiedIsText ==
  ASSUME NEW i, Shaped(i)
  PROVE  Copied(i) = Duplicate(<<Text(i)>>) /\ IsProcedure(<<Text(i)>>)
<1> DEFINE t == Text(i)
<1>1. Shaped(t) /\ t.type = i.type
  BY TextShaped DEF Text
<1>2. DOMAIN t.arg = CopiedFields(i.type)
  BY <1>1, ShapedFields, FieldTables
<1> HIDE DEF t
<1>3. Restrict(t.arg, CopiedFields(i.type)) = t.arg
  <2>1. t.arg = [f \in CopiedFields(i.type) |-> t.arg[f]]
    BY <1>1, ShapedFields, FieldTables
  <2> QED BY <2>1 DEF Restrict
<1>4. [t EXCEPT !.arg = Restrict(@, CopiedFields(i.type))] = t
  <2>1. t = [node |-> t.node, type |-> t.type, arg |-> t.arg]
    BY <1>1, ShapedFields
  <2>2. [t EXCEPT !.arg = Restrict(@, CopiedFields(i.type))] = [t EXCEPT !.arg = t.arg]
    BY <1>3, <2>1
  <2> QED BY <2>1, <2>2
<1>5. IsProcedure(<<t>>)
  BY <1>1 DEF IsProcedure
<1> QED BY <1>4, <1>5 DEF Copied, t

\* The strings that freeing a procedure gives back.
LEMMA FreedAddresses ==
  ASSUME NEW p, DOMAIN p = 1 .. Len(p), \A k \in DOMAIN p : Shaped(p[k]) \/ p[k].type = UNKNOWN, NEW a
  PROVE  a \in Freed(p) <=>
            \E k \in DOMAIN p : p[k].type # UNKNOWN /\ \E f \in Strings(Fields(p[k].type)) : a = p[k].arg[f]
<1>1. a \in Freed(p) <=> \E k \in DOMAIN p : \E f \in FreedFields(p[k].type) : a = p[k].arg[f]
  BY DEF Freed
<1>2. \A k \in DOMAIN p : p[k].type = UNKNOWN => FreedFields(p[k].type) = {}
  BY UnknownFields
<1>3. \A k \in DOMAIN p : p[k].type # UNKNOWN => FreedFields(p[k].type) = Strings(Fields(p[k].type))
  BY FieldTables, ShapedFields
<1> QED BY <1>1, <1>2, <1>3

\* The fields of a type are finitely many.
LEMMA FiniteFields ==
  ASSUME NEW type \in Types
  PROVE  IsFiniteSet(Fields(type)) /\ IsFiniteSet(Strings(Fields(type)))
<1>1. PICK L \in Nat : DOMAIN PackedFields(type) = 1 .. L
  BY FieldTables
<1>2. IsFiniteSet(1 .. L)
  BY <1>1, FS_Interval
<1>3. [k \in 1 .. L |-> PackedFields(type)[k]] \in Surjection(1 .. L, Fields(type))
  BY <1>1 DEF Surjection, Fields, ToSet
<1>4. IsFiniteSet(Fields(type))
  BY <1>2, <1>3, FS_Surjection
<1> QED BY <1>4, FS_Subset DEF Strings

\* What is held before and after a step means the same.
Agree(g, h) == \A a \in DOMAIN g \cap DOMAIN h : g[a] = h[a]

\* proc_strdup of the strings of one instruction.
LEMMA InstructionDuplicated ==
  ASSUME IsFiniteSet(DOMAIN heap), NEW i, Shaped(i),
         NEW new, new = Duplicate(<<i>>), heap' = With(heap, new.strings)
  PROVE  \E n : /\ DuplicatedAs(new.procedure[1], n, 1, i)
                /\ DOMAIN heap' = DOMAIN heap \cup {<<n, 1, f>> : f \in Strings(Fields(i.type))}
                /\ IsFiniteSet(DOMAIN heap')
                /\ \A f \in Strings(Fields(i.type)) : heap'[<<n, 1, f>>] = i.arg[f]
                /\ \A f : <<n, 1, f>> \notin DOMAIN heap
                /\ Agree(heap, heap')
                /\ TextIn(heap', new.procedure[1]) = i
<1>1. IsProcedure(<<i>>) /\ Len(<<i>>) = 1 /\ <<i>>[1] = i
  BY DEF IsProcedure
<1>2. PICK n : n = Unused
  OBVIOUS
<1>3. PICK text : text = <<i>>
  OBVIOUS
<1>4. /\ DuplicatedAs(new.procedure[1], n, 1, i)
      /\ \A a : a \in DOMAIN new.strings <=> \E f \in Strings(Fields(i.type)) : a = <<n, 1, f>>
      /\ \A f \in Strings(Fields(i.type)) : new.strings[<<n, 1, f>>] = i.arg[f]
  <2>1. /\ \A k \in 1 .. Len(text) : DuplicatedAs(new.procedure[k], n, k, text[k])
        /\ \A a : a \in DOMAIN new.strings <=>
                \E k \in 1 .. Len(text) : \E f \in Strings(Fields(text[k].type)) : a = <<n, k, f>>
        /\ \A k \in 1 .. Len(text) : \A f \in Strings(Fields(text[k].type)) :
                new.strings[<<n, k, f>>] = text[k].arg[f]
    <3>1. Duplicated(new, n, text)
      BY <1>1, <1>2, <1>3, DuplicateEffect
    <3> QED BY <3>1 DEF Duplicated
  <2>2. 1 .. Len(text) = {1} /\ text[1] = i
    BY <1>3
  <2> QED BY <2>1, <2>2
<1>5. PICK N : N = {<<n, 1, f>> : f \in Strings(Fields(i.type))}
  OBVIOUS
<1>6. DOMAIN new.strings = N
  BY <1>4, <1>5
<1>7. \A a \in N : a[1] = n /\ a \notin DOMAIN heap
  BY <1>2, <1>5, UnusedIsFresh
<1>8. \A f : <<n, 1, f>> \notin DOMAIN heap
  <2> TAKE f
  <2>1. <<n, 1, f>>[1] = n
    OBVIOUS
  <2> QED BY <1>2, <2>1, UnusedIsFresh
<1>9. /\ DOMAIN heap' = DOMAIN heap \cup N
      /\ \A a \in DOMAIN heap' : heap'[a] = IF a \in N THEN new.strings[a] ELSE heap[a]
  BY <1>6 DEF With
<1>10. Agree(heap, heap')
  BY <1>7, <1>9 DEF Agree
<1>11. \A f \in Strings(Fields(i.type)) : heap'[<<n, 1, f>>] = i.arg[f]
  BY <1>4, <1>5, <1>9
<1>12. IsFiniteSet(DOMAIN heap')
  <2>1. IsFiniteSet(Strings(Fields(i.type)))
    BY FiniteFields, ShapedFields
  <2>2. IsFiniteSet(N)
    <3>1. [f \in Strings(Fields(i.type)) |-> <<n, 1, f>>] \in Surjection(Strings(Fields(i.type)), N)
      BY <1>5 DEF Surjection
    <3> QED BY <2>1, <3>1, FS_Surjection
  <2> QED BY <1>9, <2>2, FS_Union
<1>13. TextIn(heap', new.procedure[1]) = i
  BY <1>4, <1>11, DuplicateText
<1> QED BY <1>4, <1>5, <1>8, <1>9, <1>10, <1>11, <1>12, <1>13

\* free_proc of a procedure.
LEMMA FreedHeap ==
  ASSUME IsFiniteSet(DOMAIN heap), NEW p, Free(p)
  PROVE  DOMAIN heap' = DOMAIN heap \ Freed(p) /\ IsFiniteSet(DOMAIN heap') /\ Agree(heap, heap')
<1>1. DOMAIN heap' = DOMAIN heap \ Freed(p) /\ \A a \in DOMAIN heap' : heap'[a] = heap[a]
  BY DEF Free, Restrict
<1>2. IsFiniteSet(DOMAIN heap')
  BY <1>1, FS_Subset
<1> QED BY <1>1, <1>2 DEF Agree

-----------------------------------------------------------------------------

-----------------------------------------------------------------------------
(* What a packet holds.                                                   *)

\* A set of numbers has a least one.
LEMMA Least ==
  ASSUME NEW S \in SUBSET Nat, S # {}
  PROVE  \E x \in S : \A y \in S : x <= y
<1>1. PICK x \in S : \A y \in S : ~ (<<y, x>> \in OpToRel(<, Nat))
  BY WFMin, NatLessThanWellFounded
<1>2. ASSUME NEW y \in S PROVE x <= y
  <2>1. x \in Nat /\ y \in Nat
    OBVIOUS
  <2>2. ~ (y < x)
    BY <1>1, <2>1 DEF OpToRel
  <2> QED BY <2>1, <2>2
<1> QED BY <1>2

\* FlattenSeq is built up from the front.
IsFlatten(g, s, n) == g = [i \in 1 .. n |-> IF i = 1 THEN s[i] ELSE g[i - 1] \o s[i]]

LEMMA FlattenExists ==
  ASSUME NEW V, NEW N \in Nat, NEW s \in [1 .. N -> Seq(V)]
  PROVE  \A n \in 1 .. N : \E g : IsFlatten(g, s, n) /\ g \in [1 .. n -> Seq(V)]
<1> DEFINE Q(n) == \E g : IsFlatten(g, s, n) /\ g \in [1 .. n -> Seq(V)]
           Bad == {n \in 1 .. N : ~Q(n)}
<1> SUFFICES ASSUME Bad # {} PROVE FALSE
  OBVIOUS
<1>1. PICK n \in Bad : \A m \in Bad : n <= m
  <2>1. Bad \in SUBSET Nat
    OBVIOUS
  <2> HIDE DEF Bad
  <2> QED BY <2>1, Least
<1>2. n \in 1 .. N /\ ~Q(n)
  OBVIOUS
<1>3. CASE n = 1
  <2>1. IsFlatten([i \in 1 .. 1 |-> s[1]], s, 1)
    BY DEF IsFlatten
  <2>2. [i \in 1 .. 1 |-> s[1]] \in [1 .. 1 -> Seq(V)]
    BY <1>2, <1>3
  <2> QED BY <1>2, <1>3, <2>1, <2>2
<1>4. CASE n # 1
  <2>1. n - 1 \in 1 .. N /\ Q(n - 1)
    <3>1. n - 1 \in 1 .. N /\ ~(n <= n - 1)
      BY <1>2, <1>4
    <3>2. n - 1 \notin Bad
      BY <1>1, <3>1
    <3> HIDE DEF Q
    <3> QED BY <3>1, <3>2
  <2>2. PICK g : IsFlatten(g, s, n - 1) /\ g \in [1 .. n - 1 -> Seq(V)]
    BY <2>1
  <2> DEFINE h == [i \in 1 .. n |-> IF i = n THEN g[n - 1] \o s[n] ELSE g[i]]
  <2>3. g[n - 1] \in Seq(V) /\ s[n] \in Seq(V)
    BY <1>2, <2>1, <2>2
  <2>4. h \in [1 .. n -> Seq(V)]
    BY <1>2, <2>2, <2>3
  <2>5. \A i \in 1 .. n : h[i] = IF i = 1 THEN s[i] ELSE h[i - 1] \o s[i]
    <3> SUFFICES ASSUME NEW i \in 1 .. n PROVE h[i] = IF i = 1 THEN s[i] ELSE h[i - 1] \o s[i]
      OBVIOUS
    <3>1. CASE i = n
      <4>1. h[n] = g[n - 1] \o s[n] /\ h[n - 1] = g[n - 1]
        <5>1. n \in 1 .. n /\ n - 1 \in 1 .. n /\ n - 1 # n
          BY <1>2, <1>4
        <5> QED BY <5>1
      <4> QED BY <1>4, <3>1, <4>1
    <3>2. CASE i # n
      <4>1. i \in 1 .. n - 1
        BY <1>2, <3>2
      <4>2. g[i] = IF i = 1 THEN s[i] ELSE g[i - 1] \o s[i]
        BY <2>2, <4>1 DEF IsFlatten
      <4>3. h[i] = g[i] /\ (i # 1 => h[i - 1] = g[i - 1])
        BY <1>2, <4>1
      <4> QED BY <4>2, <4>3
    <3> QED BY <3>1, <3>2
  <2>6. h = [i \in 1 .. n |-> h[i]]
    OBVIOUS
  <2> HIDE DEF h
  <2>7. IsFlatten(h, s, n)
    BY <2>5, <2>6 DEF IsFlatten
  <2> QED BY <1>2, <2>4, <2>7
<1> QED BY <1>3, <1>4

Ends(g, V, c, s) ==
    /\ c \in Nat \ {0} /\ s \in [1 .. c -> Seq(V)] /\ g \in [1 .. c -> Seq(V)]
    /\ g[1] = s[1] /\ (\A i \in 2 .. c : g[i] = g[i - 1] \o s[i]) /\ FlattenSeq(s) = g[c]

LEMMA Flattened ==
  ASSUME NEW V, NEW n \in Nat \ {0}, NEW s \in [1 .. n -> Seq(V)]
  PROVE  \E g : Ends(g, V, n, s)
<1> DEFINE flatten == CHOOSE g : IsFlatten(g, s, n)
<1>1. \E g : IsFlatten(g, s, n)
  BY FlattenExists
<1>2. IsFlatten(flatten, s, n)
  BY <1>1
<1>3. Len(s) = n
  OBVIOUS
<1>4. FlattenSeq(s) = flatten[n]
  BY <1>3 DEF FlattenSeq, IsFlatten
<1>5. PICK g \in [1 .. n -> Seq(V)] : IsFlatten(g, s, n)
  BY FlattenExists
<1>6. \A i \in 1 .. n : flatten[i] = g[i]
  <2> DEFINE Bad == {i \in 1 .. n : flatten[i] # g[i]}
  <2> SUFFICES ASSUME Bad # {} PROVE FALSE
    OBVIOUS
  <2>1. PICK i \in Bad : \A m \in Bad : i <= m
    <3>1. Bad \in SUBSET Nat
      OBVIOUS
    <3> HIDE DEF Bad
    <3> QED BY <3>1, Least
  <2>2. i \in 1 .. n /\ flatten[i] # g[i] /\ (i # 1 => flatten[i - 1] = g[i - 1])
    BY <2>1
  <2> HIDE DEF flatten
  <2>3. /\ flatten[i] = IF i = 1 THEN s[i] ELSE flatten[i - 1] \o s[i]
        /\ g[i] = IF i = 1 THEN s[i] ELSE g[i - 1] \o s[i]
    BY <1>2, <1>5, <2>2 DEF IsFlatten
  <2> QED BY <2>2, <2>3
<1>7. g[1] = s[1] /\ \A i \in 2 .. n : g[i] = g[i - 1] \o s[i]
  <2>1. \A i \in 1 .. n : g[i] = IF i = 1 THEN s[i] ELSE g[i - 1] \o s[i]
    BY <1>5 DEF IsFlatten
  <2>2. 1 \in 1 .. n /\ \A i \in 2 .. n : i \in 1 .. n /\ i # 1
    OBVIOUS
  <2> QED BY <2>1, <2>2
<1>8. flatten[n] = g[n]
  BY <1>6
<1> QED BY <1>4, <1>5, <1>7, <1>8 DEF Ends

\* What is appended leaves the front as it is.
LEMMA FrontStays ==
  ASSUME NEW V, NEW n, NEW s, NEW g, Ends(g, V, n, s)
  PROVE  \A m \in 1 .. n : \A k \in 1 .. m : \A x \in 1 .. Len(g[k]) : x <= Len(g[m]) /\ g[m][x] = g[k][x]
<1> DEFINE Q(m) == \A k \in 1 .. m : \A x \in 1 .. Len(g[k]) : x <= Len(g[m]) /\ g[m][x] = g[k][x]
           Bad == {m \in 1 .. n : ~Q(m)}
<1> SUFFICES ASSUME Bad # {} PROVE FALSE
  OBVIOUS
<1>0. n \in Nat /\ s \in [1 .. n -> Seq(V)] /\ g \in [1 .. n -> Seq(V)]
      /\ \A i \in 2 .. n : g[i] = g[i - 1] \o s[i]
  BY DEF Ends
<1>1. PICK m \in Bad : \A l \in Bad : m <= l
  <2>1. Bad \in SUBSET Nat
    OBVIOUS
  <2> HIDE DEF Bad
  <2> QED BY <2>1, Least
<1>2. m \in 1 .. n /\ ~Q(m)
  OBVIOUS
<1>3. PICK k \in 1 .. m : \E x \in 1 .. Len(g[k]) : ~(x <= Len(g[m]) /\ g[m][x] = g[k][x])
  BY <1>2
<1>4. PICK x \in 1 .. Len(g[k]) : ~(x <= Len(g[m]) /\ g[m][x] = g[k][x])
  BY <1>3
<1> HIDE DEF Q
<1>5. k # m /\ k \in 1 .. m - 1 /\ m - 1 \in 1 .. n /\ m \in 2 .. n
  <2>1. g[m] \in Seq(V) /\ Len(g[m]) \in Nat
    BY <1>0, <1>2
  <2>2. k # m
    BY <1>4, <2>1
  <2> QED BY <1>0, <1>2, <2>2
<1>6. Q(m - 1)
  <2>1. ~(m <= m - 1)
    BY <1>0, <1>2
  <2>2. m - 1 \notin Bad
    BY <1>1, <2>1
  <2> QED BY <1>5, <2>2
<1>7. x <= Len(g[m - 1]) /\ g[m - 1][x] = g[k][x]
  BY <1>5, <1>6 DEF Q
<1>8. g[m] = g[m - 1] \o s[m] /\ g[m - 1] \in Seq(V) /\ s[m] \in Seq(V) /\ g[k] \in Seq(V)
  <2>1. k \in 1 .. n
    BY <1>0, <1>2, <1>5
  <2>2. g[m] = g[m - 1] \o s[m]
    BY <1>0, <1>5
  <2> QED BY <1>0, <1>2, <1>5, <2>1, <2>2
<1>9. x \in 1 .. Len(g[m - 1])
  BY <1>7, <1>8
<1>10. x <= Len(g[m]) /\ g[m][x] = g[m - 1][x]
  <2>1. PICK a, b : a = g[m - 1] /\ b = s[m]
    OBVIOUS
  <2>2. a \in Seq(V) /\ b \in Seq(V) /\ g[m] = a \o b /\ x \in 1 .. Len(a)
    BY <1>8, <1>9, <2>1
  <2>3. x <= Len(a \o b) /\ (a \o b)[x] = a[x]
    BY <2>2
  <2> QED BY <2>1, <2>2, <2>3
<1> QED BY <1>4, <1>7, <1>10

\* The values an instruction puts into a packet.
Values(i) == {i.node, i.type} \cup {i.arg[f] : f \in Fields(i.type)}

LEMMA PackedParts ==
  ASSUME NEW i, Shaped(i), NEW V, Values(i) \subseteq V
  PROVE  /\ PackedInstruction(i) \in Seq(V)
         /\ Len(PackedInstruction(i)) = 2 + Len(PackedFields(i.type))
         /\ PackedInstruction(i)[1] = i.node /\ PackedInstruction(i)[2] = i.type
         /\ \A j \in DOMAIN PackedFields(i.type) :
                PackedInstruction(i)[2 + j] = i.arg[PackedFields(i.type)[j]]
<1> DEFINE fields == PackedFields(i.type)
           args == [k \in DOMAIN fields |-> i.arg[fields[k]]]
<1>1. i.type \in Types /\ Len(fields) \in Nat /\ DOMAIN fields = 1 .. Len(fields)
  BY ShapedFields, FieldTables
<1>2. \A k \in DOMAIN fields : fields[k] \in Fields(i.type)
  BY DEF Fields, ToSet
<1>3. PackedInstruction(i) = <<i.node, i.type>> \o args
  BY DEF PackedInstruction
<1>4. PICK L \in Nat : L = Len(fields)
  BY <1>1
<1>5. args \in [1 .. L -> V]
  BY <1>1, <1>2, <1>4 DEF Values
<1>6. \A k \in 1 .. L : args[k] = i.arg[fields[k]]
  BY <1>1, <1>4
<1>7. <<i.node, i.type>> \in Seq(V) /\ args \in Seq(V) /\ Len(args) = L
  BY <1>5 DEF Values
<1> HIDE DEF args, fields
<1> QED BY <1>1, <1>3, <1>4, <1>6, <1>7 DEF fields

\* Where the parts of a sequence are that was put together from a head, several
\* sequences and a tail: each starts where the one before it ended.
PutTogether(packet, V, x, c, s, tail) ==
    /\ c \in Nat \ {0} /\ s \in [1 .. c -> Seq(V)] /\ x \in V /\ tail \in Seq(V)
    /\ packet = <<x>> \o FlattenSeq(s) \o tail
Offsets(off, c, s) ==
    /\ off[1] = 2
    /\ \A k \in 1 .. c : off[k] \in Nat /\ Len(s[k]) \in Nat /\ off[k + 1] \in Nat
                         /\ off[k + 1] = off[k] + Len(s[k])

LEMMA Parts ==
  ASSUME NEW packet, NEW V, NEW x, NEW c, NEW s, NEW tail, PutTogether(packet, V, x, c, s, tail)
  PROVE  /\ packet[1] = x
         /\ \E off : /\ Offsets(off, c, s)
                     /\ \A k \in 1 .. c : \A y \in 1 .. Len(s[k]) : packet[off[k] - 1 + y] = s[k][y]
                     /\ \A y \in 1 .. Len(tail) : packet[off[c + 1] - 1 + y] = tail[y]
<1>1. PICK g : Ends(g, V, c, s)
  <2>1. c \in Nat \ {0} /\ s \in [1 .. c -> Seq(V)]
    BY DEF PutTogether
  <2> QED BY <2>1, Flattened
<1>2. c \in Nat \ {0} /\ 1 \in 1 .. c /\ c \in 1 .. c
  BY DEF PutTogether
<1>3. ASSUME NEW k \in 1 .. c
      PROVE  g[k] \in Seq(V) /\ Len(g[k]) \in Nat /\ s[k] \in Seq(V) /\ Len(s[k]) \in Nat
  BY <1>1 DEF PutTogether, Ends
<1>4. ASSUME NEW k \in 1 .. c
      PROVE  \A y \in 1 .. Len(g[k]) : y <= Len(g[c]) /\ g[c][y] = g[k][y]
  <2>2. \A m \in 1 .. c : \A l \in 1 .. m : \A y \in 1 .. Len(g[l]) : y <= Len(g[m]) /\ g[m][y] = g[l][y]
    BY <1>1, FrontStays
  <2> QED BY <1>2, <2>2
<1>5. PICK off : off = [k \in 1 .. c + 1 |-> IF k = 1 THEN 2 ELSE 2 + Len(g[k - 1])]
  OBVIOUS
<1>6. off[1] = 2
  BY <1>2, <1>5
<1>7. ASSUME NEW k \in 1 .. c PROVE off[k + 1] = 2 + Len(g[k])
  BY <1>2, <1>5
<1>8. ASSUME NEW k \in 1 .. c
      PROVE  /\ off[k] \in Nat /\ off[k] >= 2 /\ off[k + 1] = off[k] + Len(s[k])
             /\ \A y \in 1 .. Len(s[k]) : g[k][off[k] - 2 + y] = s[k][y]
  <2>1. CASE k = 1
    <3>1. g[k] = s[k] /\ off[k] = 2 /\ off[k + 1] = 2 + Len(g[k])
      BY <1>1, <1>6, <1>7, <2>1 DEF Ends
    <3> QED BY <1>3, <3>1
  <2>2. CASE k # 1
    <3>1. k - 1 \in 1 .. c /\ k \in 2 .. c /\ (k - 1) + 1 = k
      BY <1>2, <2>2
    <3>2. g[k] = g[k - 1] \o s[k] /\ g[k - 1] \in Seq(V) /\ s[k] \in Seq(V)
      BY <1>1, <1>3, <3>1 DEF Ends
    <3>3. off[k] = 2 + Len(g[k - 1]) /\ off[k + 1] = 2 + Len(g[k])
      BY <1>7, <3>1
    <3>4. PICK a, b : a = g[k - 1] /\ b = s[k]
      OBVIOUS
    <3>5. a \in Seq(V) /\ b \in Seq(V) /\ g[k] = a \o b
      BY <3>2, <3>4
    <3>6. Len(a) \in Nat /\ Len(b) \in Nat /\ Len(g[k]) = Len(a) + Len(b)
      BY <3>5
    <3>7. \A y \in 1 .. Len(b) : g[k][Len(a) + y] = b[y]
      BY <3>5
    <3>8. off[k] = 2 + Len(a) /\ off[k + 1] = 2 + Len(g[k])
      BY <3>3, <3>4
    <3>9. off[k] - 2 = Len(a) /\ off[k] >= 2 /\ off[k] \in Nat /\ off[k + 1] = off[k] + Len(b)
      BY <3>6, <3>8
    <3> QED BY <3>4, <3>7, <3>9
  <2> QED BY <2>1, <2>2
<1>9. /\ packet[1] = x
      /\ \A y \in 1 .. Len(g[c]) : packet[1 + y] = g[c][y]
      /\ \A y \in 1 .. Len(tail) : packet[1 + Len(g[c]) + y] = tail[y]
  <2>1. PICK a : a = g[c]
    OBVIOUS
  <2>2. x \in V /\ a \in Seq(V) /\ tail \in Seq(V)
    BY <1>2, <1>3, <2>1 DEF PutTogether
  <2>3. packet = <<x>> \o a \o tail
    BY <1>1, <2>1 DEF PutTogether, Ends
  <2>4. PICK b : b = <<x>> \o a
    OBVIOUS
  <2>5. /\ b \in Seq(V) /\ Len(b) = 1 + Len(a) /\ b[1] = x /\ Len(a) \in Nat
        /\ \A y \in 1 .. Len(a) : b[1 + y] = a[y]
    BY <2>2, <2>4
  <2>6. packet = b \o tail
    BY <2>3, <2>4
  <2>7. /\ \A y \in 1 .. Len(b) : packet[y] = b[y]
        /\ \A y \in 1 .. Len(tail) : packet[Len(b) + y] = tail[y]
    BY <2>2, <2>5, <2>6
  <2>8. 1 \in 1 .. Len(b) /\ \A y \in 1 .. Len(a) : 1 + y \in 1 .. Len(b)
    BY <2>5
  <2>9. packet[1] = x /\ \A y \in 1 .. Len(a) : packet[1 + y] = a[y]
    BY <2>5, <2>7, <2>8
  <2> QED BY <2>1, <2>5, <2>7, <2>9
<1>10. ASSUME NEW k \in 1 .. c, NEW y \in 1 .. Len(s[k])
       PROVE  packet[off[k] - 1 + y] = s[k][y]
  <2>1. off[k] - 2 + y \in 1 .. Len(g[k]) /\ 1 + (off[k] - 2 + y) = off[k] - 1 + y
    <3>1. Len(s[k]) \in Nat /\ Len(g[k]) \in Nat /\ off[k] \in Nat /\ off[k] >= 2
          /\ 2 + Len(g[k]) = off[k] + Len(s[k])
      BY <1>3, <1>7, <1>8
    <3>2. PICK a, b, o : a = Len(s[k]) /\ b = Len(g[k]) /\ o = off[k]
      OBVIOUS
    <3>3. a \in Nat /\ b \in Nat /\ o \in Nat /\ o >= 2 /\ 2 + b = o + a /\ y \in 1 .. a
      BY <3>1, <3>2
    <3>4. o - 2 + y \in 1 .. b /\ 1 + (o - 2 + y) = o - 1 + y
      BY ONLY <3>3
    <3> QED BY <3>2, <3>4
  <2>2. off[k] - 2 + y \in 1 .. Len(g[c]) /\ g[c][off[k] - 2 + y] = s[k][y]
    <3>1. Len(g[c]) \in Nat
      BY <1>2, <1>3
    <3>2. PICK z : z = off[k] - 2 + y
      OBVIOUS
    <3>3. z \in 1 .. Len(g[k]) /\ g[k][z] = s[k][y]
      BY <1>8, <2>1, <3>2
    <3>4. z \in 1 .. Len(g[c]) /\ g[c][z] = g[k][z]
      <4>1. z <= Len(g[c]) /\ g[c][z] = g[k][z] /\ Len(g[k]) \in Nat
        BY <1>3, <1>4, <3>3
      <4> QED BY <3>1, <3>3, <4>1
    <3> QED BY <3>2, <3>3, <3>4
  <2> QED BY <1>9, <2>1, <2>2
<1>11. off[c + 1] = 2 + Len(g[c]) /\ Len(g[c]) \in Nat
  BY <1>2, <1>3, <1>7
<1>12. \A y \in 1 .. Len(tail) : packet[off[c + 1] - 1 + y] = tail[y]
  <2>1. \A y : off[c + 1] - 1 = 1 + Len(g[c])
    BY <1>11
  <2> QED BY <1>9, <2>1
<1>13. \A k \in 1 .. c : off[k + 1] \in Nat
  BY <1>3, <1>7
<1> QED BY <1>3, <1>6, <1>8, <1>9, <1>10, <1>12, <1>13 DEF Offsets

\* Where the instructions of p are in a packet: the first c of them arrive, and
\* if these are not all then an unknown type follows.
Layout(packet, p, c, off) ==
    /\ packet[1] = Len(p)
    /\ off[1] = 2
    /\ \A k \in 1 .. c :
        /\ off[k] \in Nat /\ off[k + 1] = off[k] + 2 + Len(PackedFields(p[k].type))
        /\ packet[off[k]] = p[k].node /\ packet[off[k] + 1] = p[k].type
        /\ \A j \in DOMAIN PackedFields(p[k].type) :
            packet[off[k] + 1 + j] = p[k].arg[PackedFields(p[k].type)[j]]
    /\ c # Len(p) => packet[off[c + 1] + 1] \notin Types

\* The count, the first c instructions of p, and what follows.
Message(p, c, tail) ==
    <<Len(p)>> \o FlattenSeq([k \in 1 .. c |-> PackedInstruction(p[k])]) \o tail
EndsIn(p, c, tail) == c # Len(p) => Len(tail) = 2 /\ tail[2] \notin Types

\* What is sent is laid out like this.
LEMMA MessageLayout ==
  ASSUME NEW p, IsProcedure(p), NEW c \in 0 .. Len(p), NEW W, NEW tail \in Seq(W), EndsIn(p, c, tail)
  PROVE  \E off : Layout(Message(p, c, tail), p, c, off)
<1>1. Len(p) \in Nat /\ \A k \in 1 .. c : k \in 1 .. Len(p) /\ Shaped(p[k])
  BY DEF IsProcedure
<1>2. PICK packet : packet = Message(p, c, tail)
  OBVIOUS
<1>3. CASE c = 0
  <2>1. FlattenSeq([k \in 1 .. c |-> PackedInstruction(p[k])]) = <<>>
    BY <1>3 DEF FlattenSeq
  <2>2. packet = <<Len(p)>> \o <<>> \o tail
    BY <1>2, <2>1 DEF Message
  <2>3. packet[1] = Len(p) /\ (c # Len(p) => packet[3] = tail[2])
    BY <1>3, <2>2 DEF EndsIn
  <2>4. Layout(packet, p, c, <<2>>)
    BY <1>3, <2>3 DEF Layout, EndsIn
  <2> QED BY <1>2, <2>4
<1>4. CASE c # 0
  <2>1. PICK s : s = [k \in 1 .. c |-> PackedInstruction(p[k])]
    OBVIOUS
  <2>2. PICK V : V = W \cup {Len(p)} \cup UNION {Values(p[k]) : k \in 1 .. c}
    OBVIOUS
  <2>3. ASSUME NEW k \in 1 .. c
        PROVE  /\ s[k] \in Seq(V) /\ Len(s[k]) = 2 + Len(PackedFields(p[k].type))
               /\ s[k][1] = p[k].node /\ s[k][2] = p[k].type
               /\ \A j \in DOMAIN PackedFields(p[k].type) :
                        s[k][2 + j] = p[k].arg[PackedFields(p[k].type)[j]]
               /\ Len(PackedFields(p[k].type)) \in Nat
               /\ DOMAIN PackedFields(p[k].type) = 1 .. Len(PackedFields(p[k].type))
    <3>1. Shaped(p[k]) /\ Values(p[k]) \subseteq V
      BY <1>1, <2>2
    <3>2. s[k] = PackedInstruction(p[k])
      BY <2>1
    <3>3. p[k].type \in Types
      BY <3>1, ShapedFields
    <3>4. /\ Len(PackedFields(p[k].type)) \in Nat
          /\ DOMAIN PackedFields(p[k].type) = 1 .. Len(PackedFields(p[k].type))
      BY <3>3, FieldTables
    <3>5. PICK i : i = p[k]
      OBVIOUS
    <3>6. Shaped(i) /\ Values(i) \subseteq V /\ s[k] = PackedInstruction(i)
      BY <3>1, <3>2, <3>5
    <3>7. /\ s[k] \in Seq(V) /\ Len(s[k]) = 2 + Len(PackedFields(i.type))
          /\ s[k][1] = i.node /\ s[k][2] = i.type
          /\ \A j \in DOMAIN PackedFields(i.type) : s[k][2 + j] = i.arg[PackedFields(i.type)[j]]
      BY <3>6, PackedParts
    <3> QED BY <3>4, <3>5, <3>7
  <2>4. s \in [1 .. c -> Seq(V)]
    BY <2>1, <2>3
  <2>5. tail \in Seq(V)
    BY <2>2, SeqMonotonic
  <2>6. PutTogether(packet, V, Len(p), c, s, tail)
    <3>1. packet = <<Len(p)>> \o FlattenSeq(s) \o tail
      BY <1>2, <2>1 DEF Message
    <3>2. c \in Nat \ {0} /\ Len(p) \in V
      BY <1>1, <1>4, <2>2
    <3> QED BY <2>4, <2>5, <3>1, <3>2 DEF PutTogether
  <2>7. PICK off : /\ Offsets(off, c, s)
                   /\ \A k \in 1 .. c : \A y \in 1 .. Len(s[k]) : packet[off[k] - 1 + y] = s[k][y]
                   /\ \A y \in 1 .. Len(tail) : packet[off[c + 1] - 1 + y] = tail[y]
    BY <2>6, Parts
  <2>8. packet[1] = Len(p) /\ off[1] = 2
    BY <2>6, <2>7, Parts DEF Offsets
  <2>9. ASSUME NEW k \in 1 .. c
        PROVE  /\ off[k] \in Nat /\ off[k + 1] = off[k] + 2 + Len(PackedFields(p[k].type))
               /\ packet[off[k]] = p[k].node /\ packet[off[k] + 1] = p[k].type
               /\ \A j \in DOMAIN PackedFields(p[k].type) :
                        packet[off[k] + 1 + j] = p[k].arg[PackedFields(p[k].type)[j]]
    <3>1. PICK n : n = Len(PackedFields(p[k].type))
      OBVIOUS
    <3>2. n \in Nat /\ Len(s[k]) = 2 + n
      BY <2>3, <3>1
    <3>3. PICK o : o = off[k]
      OBVIOUS
    <3>4. o \in Nat /\ off[k + 1] = o + Len(s[k])
      BY <2>7, <3>3 DEF Offsets
    <3>5. \A y \in 1 .. 2 + n : packet[o - 1 + y] = s[k][y]
      BY <2>7, <3>2, <3>3
    <3>6. packet[o] = s[k][1] /\ packet[o + 1] = s[k][2]
      <4>1. o - 1 + 1 = o /\ o - 1 + 2 = o + 1 /\ 1 \in 1 .. 2 + n /\ 2 \in 1 .. 2 + n
        BY <3>2, <3>4
      <4> QED BY <3>5, <4>1
    <3>7. ASSUME NEW j \in 1 .. n PROVE packet[o + 1 + j] = s[k][2 + j]
      <4>1. o - 1 + (2 + j) = o + 1 + j /\ 2 + j \in 1 .. 2 + n
        BY <3>2, <3>4
      <4> QED BY <3>5, <4>1
    <3>8. off[k + 1] = o + 2 + n
      BY <3>2, <3>4
    <3> QED BY <2>3, <3>1, <3>3, <3>4, <3>6, <3>7, <3>8
  <2>10. c # Len(p) => packet[off[c + 1] + 1] \notin Types
    <3> SUFFICES ASSUME c # Len(p) PROVE packet[off[c + 1] + 1] \notin Types
      OBVIOUS
    <3>1. off[c + 1] \in Nat
      BY <1>4, <2>7 DEF Offsets
    <3>2. Len(tail) = 2 /\ tail[2] \notin Types
      BY DEF EndsIn
    <3>3. packet[off[c + 1] - 1 + 2] = tail[2] /\ off[c + 1] - 1 + 2 = off[c + 1] + 1
      BY <2>7, <3>1, <3>2
    <3> QED BY <3>2, <3>3
  <2>11. Layout(packet, p, c, off)
    BY <2>8, <2>9, <2>10 DEF Layout
  <2> QED BY <1>2, <2>11
<1> QED BY <1>3, <1>4

-----------------------------------------------------------------------------
(* Sums. A sum over a set is the number of pairs of an element and a       *)
(* number up to its weight, in whatever order it is added up.              *)

Area(w, T) == UNION {{x} \X (1 .. w[x]) : x \in T}
Total(w, T) == Cardinality(Area(w, T))
Weights(w, T) == IsFiniteSet(T) /\ \A x \in T : w[x] \in Nat

LEMMA FiniteArea ==
  ASSUME NEW w, NEW T, Weights(w, T)
  PROVE  IsFiniteSet(Area(w, T)) /\ Total(w, T) \in Nat
<1>1. \A x \in T : IsFiniteSet({x} \X (1 .. w[x]))
  <2> TAKE x \in T
  <2>1. 1 \in Int /\ w[x] \in Int
    BY DEF Weights
  <2>2. IsFiniteSet({x}) /\ IsFiniteSet(1 .. w[x])
    BY <2>1, FS_Singleton, FS_Interval
  <2> QED BY <2>2, FS_Product
<1>2. PICK F, g : F = {{x} \X (1 .. w[x]) : x \in T} /\ g = [x \in T |-> {x} \X (1 .. w[x])]
  OBVIOUS
<1>3. IsFiniteSet(F)
  <2>1. g \in Surjection(T, F)
    BY <1>2 DEF Surjection
  <2> QED BY <2>1, FS_Surjection DEF Weights
<1>4. IsFiniteSet(UNION F)
  BY <1>1, <1>2, <1>3, FS_UNION
<1> QED BY <1>2, <1>4, FS_CardinalityType DEF Area, Total

LEMMA NothingToAdd == ASSUME NEW w PROVE Total(w, {}) = 0
<1>1. Area(w, {}) = {}
  BY DEF Area
<1> QED BY <1>1, FS_EmptySet DEF Total

LEMMA AddOne ==
  ASSUME NEW w, NEW T, Weights(w, T), NEW x \in T
  PROVE  Total(w, T) = w[x] + Total(w, T \ {x})
<1>1. PICK A, B, C : A = Area(w, T) /\ B = Area(w, T \ {x}) /\ C = {x} \X (1 .. w[x])
  OBVIOUS
<1>2. Weights(w, T \ {x})
  BY FS_RemoveElement DEF Weights
<1>3. IsFiniteSet(A) /\ IsFiniteSet(B)
  BY <1>1, <1>2, FiniteArea
<1>4. IsFiniteSet(C) /\ Cardinality(C) = w[x]
  <2>1. w[x] \in Nat
    BY DEF Weights
  <2>2. IsFiniteSet({x}) /\ Cardinality({x}) = 1
    BY FS_Singleton
  <2>3. IsFiniteSet(1 .. w[x]) /\ Cardinality(1 .. w[x]) = w[x]
    <3>1. PICK m \in Nat : m = w[x]
      BY <2>1
    <3>2. 1 \in Int /\ m \in Int
      OBVIOUS
    <3>3. IsFiniteSet(1 .. m) /\ Cardinality(1 .. m) = IF 1 > m THEN 0 ELSE m - 1 + 1
      BY <3>2, FS_Interval
    <3> QED BY <3>1, <3>3
  <2>4. IsFiniteSet(C) /\ Cardinality(C) = 1 * w[x]
    <3>1. PICK X, W : X = {x} /\ W = 1 .. w[x]
      OBVIOUS
    <3>2. C = X \X W /\ IsFiniteSet(X) /\ IsFiniteSet(W) /\ Cardinality(X) = 1 /\ Cardinality(W) = w[x]
      BY <1>1, <2>2, <2>3, <3>1
    <3> QED BY <3>2, FS_Product
  <2> QED BY <2>1, <2>4
<1>5. A = B \cup C /\ B \cap C = {}
  <2>1. \A d : d \in A <=> \E y \in T : d \in {y} \X (1 .. w[y])
    BY <1>1 DEF Area
  <2>2. \A d : d \in B <=> \E y \in T \ {x} : d \in {y} \X (1 .. w[y])
    BY <1>1 DEF Area
  <2>3. B \cap C = {}
    <3> SUFFICES ASSUME NEW d \in B, d \in C PROVE FALSE
      OBVIOUS
    <3>1. PICK y \in T \ {x} : d \in {y} \X (1 .. w[y])
      BY <2>2
    <3>2. d[1] = y
      BY <3>1
    <3>3. d[1] = x
      BY <1>1
    <3> QED BY <3>2, <3>3
  <2>4. \A d : d \in A <=> d \in B \/ d \in C
    BY <1>1, <2>1, <2>2
  <2> QED BY <2>3, <2>4
<1>6. Cardinality(A) = Cardinality(B) + Cardinality(C) - Cardinality(B \cap C)
  BY <1>3, <1>4, <1>5, FS_Union
<1>7. Cardinality(B \cap C) = 0
  BY <1>5, FS_EmptySet
<1>8. Cardinality(B) \in Nat /\ w[x] \in Nat
  BY <1>3, FS_CardinalityType DEF Weights
<1> QED BY <1>1, <1>4, <1>6, <1>7, <1>8 DEF Total

\* MapThenSumSet chooses the elements in some order.
AddsUp(g, w, S) ==
    g = [T \in SUBSET S |-> IF T = {} THEN 0
                            ELSE w[CHOOSE x \in T : TRUE] + g[T \ {CHOOSE x \in T : TRUE}]]

LEMMA SumExists ==
  ASSUME NEW w, NEW S, Weights(w, S)
  PROVE  \E g : AddsUp(g, w, S)
<1>1. PICK g : g = [T \in SUBSET S |-> Total(w, T)]
  OBVIOUS
<1>2. ASSUME NEW T \in SUBSET S
      PROVE  g[T] = IF T = {} THEN 0 ELSE w[CHOOSE x \in T : TRUE] + g[T \ {CHOOSE x \in T : TRUE}]
  <2>1. CASE T = {}
    BY <1>1, <2>1, NothingToAdd
  <2>2. CASE T # {}
    <3>1. PICK x : x = CHOOSE y \in T : TRUE
      OBVIOUS
    <3>2. x \in T /\ T \ {x} \in SUBSET S
      BY <2>2, <3>1
    <3>3. Weights(w, T)
      BY FS_Subset DEF Weights
    <3>4. g[T] = w[x] + g[T \ {x}]
      BY <1>1, <3>2, <3>3, AddOne
    <3> QED BY <2>2, <3>1, <3>4
  <2> QED BY <2>1, <2>2
<1>3. g = [T \in SUBSET S |-> g[T]]
  BY <1>1
<1>4. g = [T \in SUBSET S |-> IF T = {} THEN 0
                             ELSE w[CHOOSE x \in T : TRUE] + g[T \ {CHOOSE x \in T : TRUE}]]
  BY <1>2, <1>3
<1> QED BY <1>4 DEF AddsUp

LEMMA SumIs ==
  ASSUME NEW w, NEW S, Weights(w, S), NEW g, AddsUp(g, w, S)
  PROVE  g[S] = Total(w, S)
<1> DEFINE Bad == {T \in SUBSET S : g[T] # Total(w, T)}
           Sizes == {Cardinality(T) : T \in Bad}
<1> SUFFICES ASSUME Bad # {} PROVE FALSE
  OBVIOUS
<1>1. \A T \in SUBSET S : Weights(w, T) /\ Cardinality(T) \in Nat
  BY FS_Subset, FS_CardinalityType DEF Weights
<1>2. PICK T \in Bad : \A U \in Bad : Cardinality(T) <= Cardinality(U)
  <2>1. Sizes \in SUBSET Nat /\ Sizes # {}
    BY <1>1
  <2>2. PICK n \in Sizes : \A m \in Sizes : n <= m
    <3> HIDE DEF Sizes
    <3> QED BY <2>1, Least
  <2> QED BY <2>2
<1>3. T \in SUBSET S /\ g[T] # Total(w, T)
  OBVIOUS
<1>4. T # {}
  BY <1>3, NothingToAdd DEF AddsUp
<1>5. PICK x : x = CHOOSE y \in T : TRUE
  OBVIOUS
<1>6. x \in T /\ T \ {x} \in SUBSET S
  BY <1>3, <1>4, <1>5
<1>7. g[T] = w[x] + g[T \ {x}]
  BY <1>3, <1>4, <1>5 DEF AddsUp
<1>8. g[T \ {x}] = Total(w, T \ {x})
  <2>1. Cardinality(T \ {x}) = Cardinality(T) - 1 /\ Cardinality(T) \in Nat
    BY <1>1, <1>3, <1>6, FS_RemoveElement DEF Weights
  <2>2. ~(Cardinality(T) <= Cardinality(T \ {x}))
    BY <2>1
  <2> QED BY <1>2, <1>6, <2>2
<1>9. Total(w, T) = w[x] + Total(w, T \ {x})
  BY <1>1, <1>3, <1>6, AddOne
<1> QED BY <1>3, <1>7, <1>8, <1>9

-----------------------------------------------------------------------------
(* The bytes of instructions.                                              *)

\* The bytes of an instruction.
LEMMA BytesAre ==
  ASSUME NEW x, Shaped(x), \A f \in Strings(Fields(x.type)) : x.arg[f] \in DOMAIN Length
  PROVE  Bytes(x, Fields(x.type)) \in Nat
<1>1. PICK F : F = Fields(x.type)
  OBVIOUS
<1>2. PICK w : w = [f \in F |-> CASE f = "op" -> 4 [] f = "procedure_slot" -> 1
                                  [] OTHER -> Length[x.arg[f]] + 1]
  OBVIOUS
<1>3. Weights(w, F)
  <2>1. IsFiniteSet(F)
    BY <1>1, FiniteFields DEF Shaped
  <2>2. \A f \in F : w[f] \in Nat
    <3> TAKE f \in F
    <3>1. CASE f \in {"op", "procedure_slot"}
      BY <1>2, <3>1
    <3>2. CASE f \notin {"op", "procedure_slot"}
      <4>1. x.arg[f] \in DOMAIN Length
        BY <1>1, <3>2 DEF Strings
      <4>2. Length[x.arg[f]] \in Nat
        BY <4>1, PackAssumption
      <4> QED BY <1>2, <3>2, <4>2
    <3> QED BY <3>1, <3>2
  <2> QED BY <2>1, <2>2 DEF Weights
<1>4. PICK g : AddsUp(g, w, F)
  BY <1>3, SumExists
<1>5. Bytes(x, F) = 3 + Total(w, F)
  <2> DEFINE Adds(h) ==
        h = [T \in SUBSET F |-> IF T = {} THEN 0
                ELSE (CASE (CHOOSE y \in T : TRUE) = "op" -> 4
                        [] (CHOOSE y \in T : TRUE) = "procedure_slot" -> 1
                        [] OTHER -> Length[x.arg[CHOOSE y \in T : TRUE]] + 1)
                     + h[T \ {CHOOSE y \in T : TRUE}]]
  <2>1. ASSUME NEW h PROVE Adds(h) <=> AddsUp(h, w, F)
    <3>1. \A T \in SUBSET F : T # {} =>
            w[CHOOSE y \in T : TRUE] =
                CASE (CHOOSE y \in T : TRUE) = "op" -> 4
                  [] (CHOOSE y \in T : TRUE) = "procedure_slot" -> 1
                  [] OTHER -> Length[x.arg[CHOOSE y \in T : TRUE]] + 1
      BY <1>2
    <3> QED BY <3>1 DEF AddsUp
  <2>2. Adds(CHOOSE h : Adds(h))
    <3> HIDE DEF Adds
    <3>1. Adds(g)
      BY <1>4, <2>1
    <3> QED BY <3>1
  <2>3. PICK h : h = CHOOSE q : Adds(q)
    OBVIOUS
  <2>4. h[F] = Total(w, F)
    BY <1>3, <2>1, <2>2, <2>3, SumIs
  <2>5. Bytes(x, F) = 3 + h[F]
    BY <2>3 DEF Bytes, MapThenSumSet, MapThenFoldSet
  <2> QED BY <2>4, <2>5
<1> QED BY <1>1, <1>3, <1>5, FiniteArea

\* The bytes of some instructions of a procedure, and of its first i.
BytesOf(p, S) == MapThenSumSet(LAMBDA k : Bytes(p[k], MeasuredFields(p[k].type)), S)
SizeUpTo(p, i) == 1 + BytesOf(p, 1 .. i)

LEMMA BytesOfAre ==
  ASSUME NEW p, NEW S, NEW w, w = [k \in S |-> Bytes(p[k], MeasuredFields(p[k].type))], Weights(w, S)
  PROVE  BytesOf(p, S) = Total(w, S)
<1> DEFINE Adds(h) ==
      h = [T \in SUBSET S |-> IF T = {} THEN 0
              ELSE Bytes(p[CHOOSE y \in T : TRUE], MeasuredFields(p[CHOOSE y \in T : TRUE].type))
                   + h[T \ {CHOOSE y \in T : TRUE}]]
<1>1. ASSUME NEW h PROVE Adds(h) <=> AddsUp(h, w, S)
  <2>1. \A T \in SUBSET S : T # {} =>
            w[CHOOSE y \in T : TRUE] =
                Bytes(p[CHOOSE y \in T : TRUE], MeasuredFields(p[CHOOSE y \in T : TRUE].type))
    OBVIOUS
  <2> QED BY <2>1 DEF AddsUp
<1>2. PICK g : AddsUp(g, w, S)
  BY SumExists
<1>3. Adds(CHOOSE h : Adds(h))
  <2> HIDE DEF Adds
  <2>1. Adds(g)
    BY <1>1, <1>2
  <2> QED BY <2>1
<1>4. PICK h : h = CHOOSE q : Adds(q)
  OBVIOUS
<1>5. h[S] = Total(w, S)
  <2> HIDE DEF Adds
  <2>1. AddsUp(h, w, S)
    BY <1>1, <1>3, <1>4
  <2> QED BY <2>1, SumIs
<1>6. BytesOf(p, S) = h[S]
  BY <1>4 DEF BytesOf, MapThenSumSet, MapThenFoldSet
<1> QED BY <1>5, <1>6

\* Sums over two sets whose elements have the same weights.
LEMMA SameTotal ==
  ASSUME NEW v, NEW w, NEW T, \A x \in T : v[x] = w[x]
  PROVE  Total(v, T) = Total(w, T)
BY DEF Total, Area

\* The size of a procedure grows by what is written of each instruction.
LEMMA SizeSteps ==
  ASSUME NEW p, IsText(p)
  PROVE  /\ calc_proc_size(p) = SizeUpTo(p, Len(p)) /\ SizeUpTo(p, 0) = 1
         /\ \A i \in 1 .. Len(p) : SizeUpTo(p, i) = SizeUpTo(p, i - 1) + WrittenBytes(p[i])
         /\ \A i \in 0 .. Len(p) : SizeUpTo(p, i) \in Nat /\ SizeUpTo(p, i) <= SizeUpTo(p, Len(p))
<1>1. Len(p) \in Nat /\ DOMAIN p = 1 .. Len(p) /\ \A k \in 1 .. Len(p) : Shaped(p[k])
  BY DEF IsText, IsProcedure
<1>2. PICK n, w : n = Len(p) /\ w = [k \in 1 .. Len(p) |-> Bytes(p[k], MeasuredFields(p[k].type))]
  OBVIOUS
<1>3. \A k \in 1 .. n : w[k] = WrittenBytes(p[k]) /\ w[k] \in Nat
  <2> TAKE k \in 1 .. n
  <2>1. Shaped(p[k]) /\ p[k].type \in Types /\ DOMAIN p[k].arg = Fields(p[k].type)
    BY <1>1, <1>2, ShapedFields
  <2>2. \A f \in Strings(Fields(p[k].type)) : p[k].arg[f] \in DOMAIN Length
    BY <1>1, <1>2, <2>1 DEF IsText
  <2>3. Bytes(p[k], Fields(p[k].type)) \in Nat
    BY <2>1, <2>2, BytesAre
  <2>4. MeasuredFields(p[k].type) = Fields(p[k].type)
    BY <2>1, FieldTables
  <2>5. w[k] = Bytes(p[k], Fields(p[k].type))
    BY <1>2, <2>4
  <2> QED BY <2>3, <2>5 DEF WrittenBytes, Fields
<1>4. ASSUME NEW i \in 0 .. n
      PROVE  Weights(w, 1 .. i) /\ SizeUpTo(p, i) = 1 + Total(w, 1 .. i)
  <2>1. PICK S : S = 1 .. i
    OBVIOUS
  <2>2. 1 \in Int /\ i \in Int /\ \A k \in S : k \in 1 .. n
    BY <1>1, <1>2, <2>1
  <2>3. Weights(w, S)
    BY <1>3, <2>1, <2>2, FS_Interval DEF Weights
  <2>4. PICK v : v = [k \in S |-> Bytes(p[k], MeasuredFields(p[k].type))]
    OBVIOUS
  <2>5. \A k \in S : v[k] = w[k]
    BY <1>2, <2>2, <2>4
  <2>6. Weights(v, S)
    BY <2>3, <2>5 DEF Weights
  <2>7. BytesOf(p, S) = Total(v, S)
    BY <2>4, <2>6, BytesOfAre
  <2>8. Total(v, S) = Total(w, S)
    BY <2>5, SameTotal
  <2> QED BY <2>1, <2>3, <2>7, <2>8 DEF SizeUpTo
<1>5. calc_proc_size(p) = SizeUpTo(p, n)
  <2>1. calc_proc_size(p) = 1 + BytesOf(p, DOMAIN p)
    BY DEF calc_proc_size, BytesOf
  <2> QED BY <1>1, <1>2, <2>1 DEF SizeUpTo
<1>6. SizeUpTo(p, 0) = 1
  <2>1. 1 .. 0 = {} /\ 0 \in 0 .. n
    BY <1>1, <1>2
  <2> QED BY <1>4, <2>1, NothingToAdd
<1>7. ASSUME NEW i \in 1 .. n PROVE SizeUpTo(p, i) = SizeUpTo(p, i - 1) + w[i]
  <2>1. i \in 0 .. n /\ i - 1 \in 0 .. n /\ i \in 1 .. i /\ (1 .. i) \ {i} = 1 .. (i - 1)
    BY <1>1, <1>2
  <2>2. Total(w, 1 .. i) = w[i] + Total(w, 1 .. (i - 1))
    <3>1. Total(w, 1 .. i) = w[i] + Total(w, (1 .. i) \ {i})
      BY <1>4, <2>1, AddOne
    <3> QED BY <2>1, <3>1
  <2>3. Total(w, 1 .. (i - 1)) \in Nat /\ w[i] \in Nat
    BY <1>3, <1>4, <2>1, FiniteArea
  <2> QED BY <1>4, <2>1, <2>2, <2>3
<1>8. ASSUME NEW i \in 0 .. n PROVE SizeUpTo(p, i) \in Nat
  <2>1. Total(w, 1 .. i) \in Nat
    BY <1>4, FiniteArea
  <2> QED BY <1>4, <2>1
<1>9. ASSUME NEW i \in 0 .. n PROVE SizeUpTo(p, i) <= SizeUpTo(p, n)
  <2> DEFINE Bad == {m \in 0 .. n : i <= m /\ ~(SizeUpTo(p, i) <= SizeUpTo(p, m))}
  <2> SUFFICES ASSUME Bad # {} PROVE FALSE
    BY <1>1, <1>2
  <2>1. PICK m \in Bad : \A l \in Bad : m <= l
    <3>1. Bad \in SUBSET Nat
      OBVIOUS
    <3> HIDE DEF Bad
    <3> QED BY <3>1, Least
  <2>2. m \in 0 .. n /\ i <= m /\ ~(SizeUpTo(p, i) <= SizeUpTo(p, m)) /\ m # i
    BY <1>8
  <2>3. m \in 1 .. n /\ m - 1 \in 0 .. n /\ i <= m - 1 /\ m - 1 \notin Bad
    <3>1. m \in 1 .. n /\ m - 1 \in 0 .. n /\ i <= m - 1 /\ ~(m <= m - 1)
      BY <1>1, <1>2, <2>2
    <3> QED BY <2>1, <3>1
  <2>4. SizeUpTo(p, i) <= SizeUpTo(p, m - 1)
    BY <2>3
  <2>5. SizeUpTo(p, m) = SizeUpTo(p, m - 1) + w[m]
    BY <1>7, <2>3
  <2>6. w[m] \in Nat /\ SizeUpTo(p, i) \in Nat /\ SizeUpTo(p, m - 1) \in Nat
    BY <1>3, <1>8, <2>3
  <2> QED BY <2>2, <2>4, <2>5, <2>6
<1> QED BY <1>2, <1>3, <1>5, <1>6, <1>7, <1>8, <1>9

-----------------------------------------------------------------------------
(* The inductive invariant.                                                *)

\* A job as the handlers leave it between two steps. Behind the instructions
\* done so far malloc's ones follow.
HalfDone(p, n, i) ==
    /\ p = [k \in 1 .. n |-> p[k]]
    /\ \A k \in 1 .. n : IF k < i THEN Shaped(p[k]) ELSE p[k] = GARBAGE
IsJob(j) ==
    j = [op |-> j.op, slot |-> j.slot, i |-> j.i, proc |-> j.proc, packet |-> j.packet, at |-> j.at,
         size |-> j.size, written |-> j.written, sent |-> j.sent]
Working(j) ==
    \/ /\ j.op \in {"push", "run"} /\ j.packet[1] \in Nat \ {0} /\ j.i \in 1 .. j.packet[1] + 1
       /\ HalfDone(j.proc, j.packet[1], j.i)
    \/ j.op = "pull" /\ j.proc = <<>> /\ j.i \in Nat \ {0}
JobOK(j) == IsJob(j) /\ (j = IDLE \/ (j.slot \in Slots /\ Working(j)))

Shapes ==
    /\ store = [slot \in Slots |-> store[slot]] /\ \A slot \in Slots : IsProcedure(store[slot])
    /\ copies = [t \in Threads |-> copies[t]] /\ \A t \in Threads : IsProcedure(copies[t])
    /\ job = [r \in Routers |-> job[r]] /\ \A r \in Routers : JobOK(job[r])
    /\ IsFiniteSet(DOMAIN heap) /\ \A a \in DOMAIN heap : heap[a] \in DOMAIN Length
    /\ disturbed \subseteq {r \in Routers : job[r].op \in {"run", "pull"}}
    /\ pushes \in 0 .. MaxPushes

\* The strings of a procedure with their places in it, and of all procedures.
StringsOf(p) ==
    UNION {{<<k, f, p[k].arg[f]>> : f \in Strings(DOMAIN p[k].arg)} : k \in DOMAIN p}
Owners == [x \in Slots \cup Routers \cup Threads |-> StringsOf(Held[x])]

\* Every address in D is held at one place, and no other address is.
Owned(O, D) ==
    /\ \A x, y \in DOMAIN O : \A d \in O[x], e \in O[y] : d[3] = e[3] => x = y /\ d = e
    /\ \A x \in DOMAIN O : \A e \in O[x] : e[3] \in D
    /\ \A a \in D : \E x \in DOMAIN O : \E e \in O[x] : e[3] = a

\* A procedure in memory means one that clients send.
Means(p, q) == Len(p) = Len(q) /\ \A k \in 1 .. Len(q) : Text(p[k]) = q[k]
Kept(slot) == store[slot] = <<>> \/ \E p \in Procedures : Fits(p) /\ Means(store[slot], p)

\* What a client sends arrives as it is, or is cut off.
Arriving(m, p, c, off) ==
    /\ p \in Procedures /\ IsText(p) /\ Len(p) \in Nat \ {0} /\ Fits(p)
    /\ c \in 0 .. Len(p) /\ Layout(m.packet, p, c, off)
    /\ m.sent # NOTHING => m.sent = p /\ c = Len(p)

\* What a router has pushed, copied or packed is what it was given.
Pushed(j, p, c, off) ==
    /\ Arriving(j, p, c, off)
    /\ j.i <= c + 1 /\ j.at = off[j.i]
    /\ \A k \in 1 .. c : k < j.i => Text(j.proc[k]) = p[k]
Pushing(r) == job[r].op = "push" => \E p, c, off : Pushed(job[r], p, c, off)
Copying(r) ==
    job[r].op = "run" /\ r \notin disturbed =>
        /\ job[r].packet[1] = Len(store[job[r].slot])
        /\ \A k \in 1 .. Len(store[job[r].slot]) :
                k < job[r].i => Text(job[r].proc[k]) = Text(store[job[r].slot][k])
Packing(r) ==
    job[r].op = "pull" /\ r \notin disturbed =>
        \E p \in Procedures :
            /\ Fits(p) /\ Means(store[job[r].slot], p)
            /\ job[r].size = SizeUpTo(p, Len(p))
            /\ job[r].i \in 1 .. Len(p) + 1 /\ job[r].written = SizeUpTo(p, job[r].i - 1)
Contents ==
    /\ \A slot \in Slots : Kept(slot)
    /\ \A r \in Routers : Pushing(r) /\ Copying(r) /\ Packing(r)

Inv == Shapes /\ Owned(Owners, DOMAIN heap) /\ Contents

-----------------------------------------------------------------------------
(* Ownership.                                                              *)

\* Some strings are allocated for x.
Gains(O, P, x, N) ==
    /\ x \in DOMAIN O /\ DOMAIN P = DOMAIN O
    /\ P[x] = O[x] \cup N /\ \A z \in DOMAIN O \ {x} : P[z] = O[z]
Fresh(D, E, N) ==
    /\ \A d \in N : d[3] \notin D
    /\ \A d, e \in N : d[3] = e[3] => d = e
    /\ E = D \cup {d[3] : d \in N}

LEMMA Gain ==
  ASSUME NEW O, NEW D, NEW P, NEW E, NEW x, NEW N, Owned(O, D), Gains(O, P, x, N), Fresh(D, E, N)
  PROVE  Owned(P, E)
<1> USE DEF Gains, Fresh
<1>1. ASSUME NEW y \in DOMAIN P, NEW z \in DOMAIN P, NEW d \in P[y], NEW e \in P[z], d[3] = e[3]
      PROVE  y = z /\ d = e
  BY <1>1 DEF Owned
<1>2. \A y \in DOMAIN P : \A e \in P[y] : e[3] \in E
  BY DEF Owned
<1>3. \A a \in E : \E y \in DOMAIN P : \E e \in P[y] : e[3] = a
  BY DEF Owned
<1> QED BY <1>1, <1>2, <1>3 DEF Owned

\* What x had goes to y, which had nothing.
LEMMA Move ==
  ASSUME NEW O, NEW D, NEW P, NEW x, NEW y, Owned(O, D), x \in DOMAIN O, y \in DOMAIN O, x # y, O[y] = {},
         DOMAIN P = DOMAIN O, P[y] = O[x], P[x] = {}, \A z \in DOMAIN O \ {x, y} : P[z] = O[z]
  PROVE  Owned(P, D)
<1>1. ASSUME NEW w \in DOMAIN P, NEW z \in DOMAIN P, NEW d \in P[w], NEW e \in P[z], d[3] = e[3]
      PROVE  w = z /\ d = e
  BY <1>1 DEF Owned
<1>2. \A z \in DOMAIN P : \A e \in P[z] : e[3] \in D
  BY DEF Owned
<1>3. \A a \in D : \E z \in DOMAIN P : \E e \in P[z] : e[3] = a
  <2> TAKE a \in D
  <2>1. PICK z \in DOMAIN O : \E e \in O[z] : e[3] = a
    BY DEF Owned
  <2> QED BY <2>1
<1> QED BY <1>1, <1>2, <1>3 DEF Owned

\* The strings of x are freed.
LEMMA Drop ==
  ASSUME NEW O, NEW D, NEW P, NEW E, NEW x, Owned(O, D), x \in DOMAIN O, DOMAIN P = DOMAIN O,
         P[x] = {}, \A z \in DOMAIN O \ {x} : P[z] = O[z], E = D \ {d[3] : d \in O[x]}
  PROVE  Owned(P, E)
<1>1. ASSUME NEW w \in DOMAIN P, NEW z \in DOMAIN P, NEW d \in P[w], NEW e \in P[z], d[3] = e[3]
      PROVE  w = z /\ d = e
  BY <1>1 DEF Owned
<1>2. \A z \in DOMAIN P : \A e \in P[z] : e[3] \in E
  <2> TAKE z \in DOMAIN P
  <2> TAKE e \in P[z]
  <2>1. z # x /\ e \in O[z]
    OBVIOUS
  <2>2. e[3] \in D /\ \A d \in O[x] : d[3] # e[3]
    BY <2>1 DEF Owned
  <2> QED BY <2>2
<1>3. \A a \in E : \E z \in DOMAIN P : \E e \in P[z] : e[3] = a
  <2> TAKE a \in E
  <2>1. PICK z \in DOMAIN O : \E e \in O[z] : e[3] = a
    BY DEF Owned
  <2>2. z # x
    BY <2>1
  <2> QED BY <2>1, <2>2
<1> QED BY <1>1, <1>2, <1>3 DEF Owned

\* Nothing changes.
LEMMA Same ==
  ASSUME NEW O, NEW D, NEW P, Owned(O, D), DOMAIN P = DOMAIN O, \A z \in DOMAIN O : P[z] = O[z]
  PROVE  Owned(P, D)
BY DEF Owned

\* Who has what.
LEMMA OwnersAre ==
  /\ DOMAIN Owners = Slots \cup Routers \cup Threads /\ DOMAIN Owners' = DOMAIN Owners
  /\ \A s \in Slots : Owners[s] = StringsOf(store[s]) /\ Owners'[s] = StringsOf(store'[s])
  /\ \A r \in Routers : Owners[r] = StringsOf(job[r].proc) /\ Owners'[r] = StringsOf(job'[r].proc)
  /\ \A t \in Threads : Owners[t] = StringsOf(copies[t]) /\ Owners'[t] = StringsOf(copies'[t])
BY MemoryAssumption DEF Owners, Held

LEMMA NoStrings ==
  /\ StringsOf(<<>>) = {}
  /\ \A n : StringsOf([k \in 1 .. n |-> GARBAGE]) = {}
BY DEF StringsOf, GARBAGE, Strings

\* An instruction is filled in.
FilledWith(p, n, i, new, q) ==
    n \in Nat /\ i \in 1 .. n /\ HalfDone(p, n, i) /\ Shaped(new) /\ q = [p EXCEPT ![i] = new]

LEMMA Filled ==
  ASSUME NEW p, NEW n, NEW i, NEW new, NEW q, FilledWith(p, n, i, new, q)
  PROVE  /\ HalfDone(q, n, i + 1) /\ q[i] = new /\ \A k \in 1 .. n : k # i => q[k] = p[k]
         /\ StringsOf(q) = StringsOf(p) \cup {<<i, f, new.arg[f]>> : f \in Strings(Fields(new.type))}
<1> USE DEF FilledWith
<1>1. DOMAIN p = 1 .. n /\ DOMAIN q = 1 .. n
  BY DEF HalfDone
<1>2. q[i] = new /\ \A k \in 1 .. n : k # i => q[k] = p[k]
  BY <1>1
<1>3. q = [k \in 1 .. n |-> q[k]]
  BY <1>1
<1>4. HalfDone(q, n, i + 1)
  <2>1. \A k \in 1 .. n : (k < i + 1) <=> (k < i \/ k = i)
    OBVIOUS
  <2> QED BY <1>2, <1>3, <2>1 DEF HalfDone
<1>5. DOMAIN new.arg = Fields(new.type)
  BY ShapedFields
<1>6. p[i] = GARBAGE
  BY DEF HalfDone
<1>7. Strings(DOMAIN p[i].arg) = {}
  BY <1>6 DEF GARBAGE, Strings
<1>8. \A d : d \in StringsOf(q) <=> d \in StringsOf(p) \/ \E f \in Strings(Fields(new.type)) : d = <<i, f, new.arg[f]>>
  <2> TAKE d
  <2>1. d \in StringsOf(q) <=> \E k \in 1 .. n : \E f \in Strings(DOMAIN q[k].arg) : d = <<k, f, q[k].arg[f]>>
    BY <1>1 DEF StringsOf
  <2>2. d \in StringsOf(p) <=> \E k \in 1 .. n : \E f \in Strings(DOMAIN p[k].arg) : d = <<k, f, p[k].arg[f]>>
    BY <1>1 DEF StringsOf
  <2> QED BY <1>2, <1>5, <1>7, <2>1, <2>2
<1> QED BY <1>2, <1>4, <1>8

\* Freeing a procedure gives back its strings.
LEMMA FreedStrings ==
  ASSUME NEW p, NEW n \in Nat, p = [k \in 1 .. n |-> p[k]],
         \A k \in 1 .. n : Shaped(p[k]) \/ p[k] = GARBAGE
  PROVE  Freed(p) = {d[3] : d \in StringsOf(p)}
<1>1. DOMAIN p = 1 .. n /\ Len(p) = n
  OBVIOUS
<1>2. \A k \in DOMAIN p : Shaped(p[k]) \/ p[k].type = UNKNOWN
  BY <1>1 DEF GARBAGE
<1>3. \A a : a \in Freed(p) <=>
            \E k \in DOMAIN p : p[k].type # UNKNOWN /\ \E f \in Strings(Fields(p[k].type)) : a = p[k].arg[f]
  BY <1>1, <1>2, FreedAddresses
<1>4. ASSUME NEW k \in DOMAIN p
      PROVE  IF p[k].type = UNKNOWN THEN Strings(DOMAIN p[k].arg) = {}
             ELSE Strings(DOMAIN p[k].arg) = Strings(Fields(p[k].type))
  <2>1. CASE Shaped(p[k])
    BY <2>1, ShapedFields, UnknownFields
  <2>2. CASE p[k] = GARBAGE
    BY <2>2 DEF GARBAGE, Strings
  <2> QED BY <1>1, <2>1, <2>2
<1>5. ASSUME NEW a
      PROVE  a \in Freed(p) <=> \E k \in DOMAIN p : \E f \in Strings(DOMAIN p[k].arg) : a = p[k].arg[f]
  <2>1. \A k \in DOMAIN p : (p[k].type # UNKNOWN /\ \E f \in Strings(Fields(p[k].type)) : a = p[k].arg[f])
                            <=> \E f \in Strings(DOMAIN p[k].arg) : a = p[k].arg[f]
    BY <1>4
  <2> QED BY <1>3, <2>1
<1>6. ASSUME NEW a
      PROVE  a \in {d[3] : d \in StringsOf(p)} <=>
                \E k \in DOMAIN p : \E f \in Strings(DOMAIN p[k].arg) : a = p[k].arg[f]
  <2>1. ASSUME NEW k \in DOMAIN p, NEW f \in Strings(DOMAIN p[k].arg), a = p[k].arg[f]
        PROVE  a \in {d[3] : d \in StringsOf(p)}
    <3>1. PICK d : d = <<k, f, p[k].arg[f]>>
      OBVIOUS
    <3>2. d \in StringsOf(p)
      BY <3>1 DEF StringsOf
    <3>3. d[3] = a
      BY <2>1, <3>1
    <3> QED BY <3>2, <3>3
  <2>2. ASSUME NEW d \in StringsOf(p), a = d[3]
        PROVE  \E k \in DOMAIN p : \E f \in Strings(DOMAIN p[k].arg) : a = p[k].arg[f]
    <3>1. \E k \in DOMAIN p : \E f \in Strings(DOMAIN p[k].arg) : d = <<k, f, p[k].arg[f]>>
      BY DEF StringsOf
    <3> QED BY <2>2, <3>1
  <2> QED BY <2>1, <2>2
<1> QED BY <1>5, <1>6

-----------------------------------------------------------------------------
(* Texts.                                                                  *)

\* The addresses of what is held are those of strings.
LEMMA Addressed ==
  ASSUME NEW O, NEW D, NEW x, NEW p, NEW k, Owned(O, D), x \in DOMAIN O, O[x] = StringsOf(p),
         k \in DOMAIN p, Shaped(p[k])
  PROVE  \A f \in Strings(Fields(p[k].type)) : p[k].arg[f] \in D
<1> TAKE f \in Strings(Fields(p[k].type))
<1>1. DOMAIN p[k].arg = Fields(p[k].type)
  BY ShapedFields
<1>2. PICK d : d = <<k, f, p[k].arg[f]>>
  OBVIOUS
<1>3. d \in O[x] /\ d[3] = p[k].arg[f]
  BY <1>1, <1>2 DEF StringsOf
<1> QED BY <1>3 DEF Owned

LEMMA TextKept ==
  ASSUME NEW O, NEW P, NEW g, NEW h, NEW x, NEW y, NEW p, NEW q, NEW k,
         Owned(O, DOMAIN g), Owned(P, DOMAIN h), Agree(g, h),
         x \in DOMAIN O, y \in DOMAIN P, O[x] = StringsOf(p), P[y] = StringsOf(q),
         k \in DOMAIN p, k \in DOMAIN q, q[k] = p[k], Shaped(p[k])
  PROVE  TextIn(h, q[k]) = TextIn(g, p[k])
<1>1. \A f \in Strings(Fields(p[k].type)) : p[k].arg[f] \in DOMAIN g
  BY Addressed
<1>2. \A f \in Strings(Fields(p[k].type)) : p[k].arg[f] \in DOMAIN h
  BY Addressed
<1>3. \A f \in Strings(Fields(p[k].type)) : h[p[k].arg[f]] = g[p[k].arg[f]]
  BY <1>1, <1>2 DEF Agree
<1> QED BY <1>3, TextStays

\* proc_strdup of the strings of one instruction.
LEMMA OneDuplicated ==
  ASSUME IsFiniteSet(DOMAIN heap), \A a \in DOMAIN heap : heap[a] \in DOMAIN Length,
         NEW i, Shaped(i), \A f \in Strings(Fields(i.type)) : i.arg[f] \in DOMAIN Length,
         NEW new, new = Duplicate(<<i>>), heap' = With(heap, new.strings)
  PROVE  \E n : /\ DuplicatedAs(new.procedure[1], n, 1, i)
                /\ DOMAIN heap' = DOMAIN heap \cup {<<n, 1, f>> : f \in Strings(Fields(i.type))}
                /\ IsFiniteSet(DOMAIN heap') /\ \A a \in DOMAIN heap' : heap'[a] \in DOMAIN Length
                /\ \A f : <<n, 1, f>> \notin DOMAIN heap
                /\ Agree(heap, heap')
                /\ TextIn(heap', new.procedure[1]) = i
<1>1. PICK n : /\ DuplicatedAs(new.procedure[1], n, 1, i)
               /\ DOMAIN heap' = DOMAIN heap \cup {<<n, 1, f>> : f \in Strings(Fields(i.type))}
               /\ IsFiniteSet(DOMAIN heap')
               /\ \A f \in Strings(Fields(i.type)) : heap'[<<n, 1, f>>] = i.arg[f]
               /\ \A f : <<n, 1, f>> \notin DOMAIN heap
               /\ Agree(heap, heap')
               /\ TextIn(heap', new.procedure[1]) = i
  BY InstructionDuplicated
<1>2. \A a \in DOMAIN heap' : heap'[a] \in DOMAIN Length
  BY <1>1 DEF Agree
<1> QED BY <1>1, <1>2

\* free_proc of a procedure.
LEMMA FreeEffect ==
  ASSUME IsFiniteSet(DOMAIN heap), \A a \in DOMAIN heap : heap[a] \in DOMAIN Length, NEW p, Free(p)
  PROVE  /\ DOMAIN heap' = DOMAIN heap \ Freed(p)
         /\ IsFiniteSet(DOMAIN heap') /\ \A a \in DOMAIN heap' : heap'[a] \in DOMAIN Length
         /\ Agree(heap, heap')
BY FreedHeap DEF Agree

LEMMA TextsStay ==
  ASSUME Shapes, Shapes', Owned(Owners, DOMAIN heap), Owned(Owners, DOMAIN heap)', Agree(heap, heap')
  PROVE  /\ \A s \in Slots : store'[s] = store[s] =>
                \A k \in 1 .. Len(store[s]) : TextIn(heap', store'[s][k]) = TextIn(heap, store[s][k])
         /\ \A r \in Routers : job'[r] = job[r] /\ job[r].op \in {"push", "run"} =>
                \A k \in 1 .. job[r].packet[1] : k < job[r].i =>
                    TextIn(heap', job'[r].proc[k]) = TextIn(heap, job[r].proc[k])
<1>1. Owned(Owners', DOMAIN heap')
  OBVIOUS
<1>2. ASSUME NEW s \in Slots, store'[s] = store[s], NEW k \in 1 .. Len(store[s])
      PROVE  TextIn(heap', store'[s][k]) = TextIn(heap, store[s][k])
  <2>1. PICK p : p = store[s]
    OBVIOUS
  <2>2. k \in DOMAIN p /\ Shaped(p[k])
    BY <2>1 DEF Shapes, IsProcedure
  <2>3. s \in DOMAIN Owners /\ s \in DOMAIN Owners' /\ Owners[s] = StringsOf(p) /\ Owners'[s] = StringsOf(p)
    BY <1>2, <2>1, OwnersAre
  <2>4. TextIn(heap', p[k]) = TextIn(heap, p[k])
    BY <1>1, <2>2, <2>3, TextKept
  <2> QED BY <1>2, <2>1, <2>4
<1>3. ASSUME NEW r \in Routers, job'[r] = job[r], job[r].op \in {"push", "run"},
             NEW k \in 1 .. job[r].packet[1], k < job[r].i
      PROVE  TextIn(heap', job'[r].proc[k]) = TextIn(heap, job[r].proc[k])
  <2>1. PICK p : p = job[r].proc
    OBVIOUS
  <2>2. HalfDone(p, job[r].packet[1], job[r].i)
    BY <1>3, <2>1 DEF Shapes, JobOK, Working, IDLE
  <2>3. k \in DOMAIN p /\ Shaped(p[k])
    BY <1>3, <2>2 DEF HalfDone
  <2>4. r \in DOMAIN Owners /\ r \in DOMAIN Owners' /\ Owners[r] = StringsOf(p) /\ Owners'[r] = StringsOf(p)
    BY <1>3, <2>1, OwnersAre
  <2>5. TextIn(heap', p[k]) = TextIn(heap, p[k])
    BY <1>1, <2>3, <2>4, TextKept
  <2> QED BY <1>3, <2>1, <2>5
<1> QED BY <1>2, <1>3

\* Where nothing is written the contents stay.
LEMMA ContentsStay ==
  ASSUME Inv, Shapes', Owned(Owners, DOMAIN heap)', Agree(heap, heap'),
         \A s \in Slots : store'[s] = store[s] \/ Kept(s)',
         \A r \in Routers : job'[r] = job[r] \/ (Pushing(r)' /\ Copying(r)' /\ Packing(r)'),
         \A r \in Routers : job'[r] = job[r] /\ job[r].op \in {"run", "pull"} /\ r \notin disturbed' =>
                                r \notin disturbed /\ store'[job[r].slot] = store[job[r].slot]
  PROVE  Contents'
<1>1. /\ \A s \in Slots : store'[s] = store[s] =>
                \A k \in 1 .. Len(store[s]) : TextIn(heap', store'[s][k]) = TextIn(heap, store[s][k])
      /\ \A r \in Routers : job'[r] = job[r] /\ job[r].op \in {"push", "run"} =>
                \A k \in 1 .. job[r].packet[1] : k < job[r].i =>
                    TextIn(heap', job'[r].proc[k]) = TextIn(heap, job[r].proc[k])
  BY TextsStay DEF Inv
<1>2. ASSUME NEW s \in Slots, store'[s] = store[s] PROVE Kept(s)'
  <2>1. Kept(s)
    BY DEF Inv, Contents
  <2>2. CASE store[s] = <<>>
    BY <1>2, <2>2 DEF Kept
  <2>3. ASSUME NEW p \in Procedures, Fits(p), Means(store[s], p)
        PROVE  Kept(s)'
    <3>1. Len(store'[s]) = Len(p) /\ \A k \in 1 .. Len(p) : TextIn(heap', store'[s][k]) = p[k]
      BY <1>1, <1>2, <2>3 DEF Means, Text
    <3> QED BY <2>3, <3>1 DEF Kept, Means, Text
  <2> QED BY <2>1, <2>2, <2>3 DEF Kept
<1>3. ASSUME NEW r \in Routers, job'[r] = job[r] PROVE Pushing(r)'
  <2> SUFFICES ASSUME job[r].op = "push" PROVE \E p, c, off : Pushed(job[r], p, c, off)'
    BY <1>3 DEF Pushing
  <2>1. PICK p, c, off : Pushed(job[r], p, c, off)
    BY DEF Inv, Contents, Pushing
  <2>2. c \in 0 .. Len(p) /\ Len(p) \in Nat /\ job[r].packet[1] = Len(p)
    BY <2>1 DEF Pushed, Arriving, Layout
  <2>3. \A k \in 1 .. c : k < job[r].i => TextIn(heap', job'[r].proc[k]) = p[k]
    <3>1. \A k \in 1 .. c : k \in 1 .. job[r].packet[1]
      BY <2>2
    <3>2. \A k \in 1 .. c : k < job[r].i => TextIn(heap, job[r].proc[k]) = p[k]
      BY <2>1 DEF Pushed, Text
    <3> QED BY <1>1, <1>3, <3>1, <3>2
  <2>4. Arriving(job[r], p, c, off)'
    BY <1>3, <2>1 DEF Pushed, Arriving
  <2>5. Pushed(job[r], p, c, off)'
    BY <1>3, <2>1, <2>3, <2>4 DEF Pushed, Text
  <2> QED BY <2>5
<1>4. ASSUME NEW r \in Routers, job'[r] = job[r] PROVE Copying(r)'
  <2> SUFFICES ASSUME job[r].op = "run", r \notin disturbed'
               PROVE  /\ job'[r].packet[1] = Len(store'[job'[r].slot])
                      /\ \A k \in 1 .. Len(store'[job'[r].slot]) : k < job'[r].i =>
                            TextIn(heap', job'[r].proc[k]) = TextIn(heap', store'[job'[r].slot][k])
    BY <1>4 DEF Copying, Text
  <2>1. r \notin disturbed /\ store'[job[r].slot] = store[job[r].slot] /\ job[r].slot \in Slots
    <3>1. job[r].slot \in Slots
      BY DEF Inv, Shapes, JobOK, IDLE
    <3> QED BY <1>4, <3>1
  <2>2. /\ job[r].packet[1] = Len(store[job[r].slot])
        /\ \A k \in 1 .. Len(store[job[r].slot]) :
                k < job[r].i => TextIn(heap, job[r].proc[k]) = TextIn(heap, store[job[r].slot][k])
    BY <2>1 DEF Inv, Contents, Copying, Text
  <2>3. \A k \in 1 .. Len(store[job[r].slot]) : k < job[r].i =>
            TextIn(heap', job'[r].proc[k]) = TextIn(heap, job[r].proc[k])
    BY <1>1, <1>4, <2>2
  <2>4. \A k \in 1 .. Len(store[job[r].slot]) :
            TextIn(heap', store'[job[r].slot][k]) = TextIn(heap, store[job[r].slot][k])
    BY <1>1, <2>1
  <2> QED BY <1>4, <2>1, <2>2, <2>3, <2>4
<1>5. ASSUME NEW r \in Routers, job'[r] = job[r] PROVE Packing(r)'
  <2> SUFFICES ASSUME job[r].op = "pull", r \notin disturbed' PROVE Packing(r)'
    BY <1>5 DEF Packing
  <2>1. r \notin disturbed /\ store'[job[r].slot] = store[job[r].slot] /\ job[r].slot \in Slots
    <3>1. job[r].slot \in Slots
      BY DEF Inv, Shapes, JobOK, IDLE
    <3> QED BY <1>5, <3>1
  <2>2. PICK p \in Procedures :
            /\ Fits(p) /\ Means(store[job[r].slot], p)
            /\ job[r].size = SizeUpTo(p, Len(p))
            /\ job[r].i \in 1 .. Len(p) + 1 /\ job[r].written = SizeUpTo(p, job[r].i - 1)
    BY <2>1 DEF Inv, Contents, Packing
  <2>3. Means(store[job[r].slot], p)'
    <3>1. \A k \in 1 .. Len(p) : TextIn(heap', store'[job[r].slot][k]) = p[k]
      BY <1>1, <2>1, <2>2 DEF Means, Text
    <3> QED BY <1>5, <2>1, <2>2, <3>1 DEF Means, Text
  <2> QED BY <1>5, <2>2, <2>3 DEF Packing
<1> QED BY <1>2, <1>3, <1>4, <1>5 DEF Contents

-----------------------------------------------------------------------------
(* Steps.                                                                  *)

\* Whatever a router receives was laid out by pack_proc_into_csp_packet.
LEMMA ReceivedLayout ==
  ASSUME NEW m \in Received
  PROVE  \E p, c, off : Arriving(m, p, c, off)
<1>1. \A p \in Procedures : IsText(p) /\ IsProcedure(p) /\ Len(p) \in Nat \ {0} /\ DOMAIN p = 1 .. Len(p)
  <2> TAKE p \in Procedures
  <2>1. p # <<>> /\ IsText(p) /\ IsProcedure(p)
    BY MemoryAssumption DEF IsText
  <2>2. Len(p) \in Nat /\ p = [k \in 1 .. Len(p) |-> p[k]]
    BY <2>1 DEF IsProcedure
  <2> QED BY <2>1, <2>2
<1>2. ASSUME NEW p \in Procedures, Fits(p), m.packet = Packed(p), m.sent \in {p, NOTHING}
      PROVE  \E c, off : Arriving(m, p, c, off)
  <2>1. Message(p, Len(p), <<>>) = Packed(p)
    <3>1. PICK s : s = FlattenSeq([k \in DOMAIN p |-> PackedInstruction(p[k])])
      OBVIOUS
    <3>2. \E V : s \in Seq(V)
      <4>1. Len(p) \in Nat \ {0} /\ \A k \in 1 .. Len(p) : Shaped(p[k])
        BY <1>1 DEF IsProcedure
      <4>2. PICK V : V = UNION {Values(p[k]) : k \in 1 .. Len(p)}
        OBVIOUS
      <4>3. \A k \in 1 .. Len(p) : Values(p[k]) \subseteq V
        BY <4>2
      <4>4. \A k \in 1 .. Len(p) : PackedInstruction(p[k]) \in Seq(V)
        BY <4>1, <4>3, PackedParts
      <4>5. PICK q : q = [k \in 1 .. Len(p) |-> PackedInstruction(p[k])]
        OBVIOUS
      <4>6. q \in [1 .. Len(p) -> Seq(V)]
        BY <4>4, <4>5
      <4>7. \E g : Ends(g, V, Len(p), q)
        BY <4>1, <4>6, Flattened
      <4>8. FlattenSeq(q) \in Seq(V)
        BY <4>7 DEF Ends
      <4> QED BY <1>1, <3>1, <4>5, <4>8
    <3>3. PICK V : s \in Seq(V)
      BY <3>2
    <3>4. <<Len(p)>> \o s \in Seq(V \cup {Len(p)})
      BY <3>3, SeqMonotonic
    <3>5. <<Len(p)>> \o s \o <<>> = <<Len(p)>> \o s
      BY <3>4
    <3> QED BY <1>1, <3>1, <3>5 DEF Message, Packed
  <2>2. EndsIn(p, Len(p), <<>>) /\ <<>> \in Seq({})
    BY DEF EndsIn
  <2>3. \E off : Layout(m.packet, p, Len(p), off)
    <3>1. IsProcedure(p) /\ Len(p) \in 0 .. Len(p)
      BY <1>1
    <3>2. \E off : Layout(Message(p, Len(p), <<>>), p, Len(p), off)
      BY <2>2, <3>1, MessageLayout
    <3> QED BY <1>2, <2>1, <3>2
  <2> QED BY <1>1, <1>2, <2>3 DEF Arriving
<1>3. ASSUME NEW p \in Procedures, Fits(p), NEW k \in DOMAIN p, m.packet = Mangled(p, k), m.sent = NOTHING
      PROVE  \E c, off : Arriving(m, p, c, off)
  <2>1. k \in 1 .. Len(p) /\ k - 1 \in 0 .. Len(p)
    BY <1>1, <1>3
  <2>2. PICK tail : tail = <<p[k].node, UNKNOWN>>
    OBVIOUS
  <2>3. Mangled(p, k) = Message(p, k - 1, tail)
    BY <2>2 DEF Mangled, Message
  <2>4. EndsIn(p, k - 1, tail) /\ tail \in Seq({p[k].node, UNKNOWN})
    BY <2>2, UnknownFields DEF EndsIn
  <2>5. \E off : Layout(m.packet, p, k - 1, off)
    BY <1>1, <1>3, <2>1, <2>3, <2>4, MessageLayout
  <2> QED BY <1>1, <1>3, <2>1, <2>5 DEF Arriving
<1>4. \E p \in Procedures : Fits(p) /\
        \/ m.packet = Packed(p) /\ m.sent \in {p, NOTHING}
        \/ \E k \in DOMAIN p : m.packet = Mangled(p, k) /\ m.sent = NOTHING
  BY DEF Received
<1> QED BY <1>2, <1>3, <1>4

\* A field of a job is set.
LEMMA JobWith ==
  ASSUME NEW j, IsJob(j), NEW x
  PROVE  /\ [j EXCEPT !.op = x] =
            [op |-> x, slot |-> j.slot, i |-> j.i, proc |-> j.proc, packet |-> j.packet,
             at |-> j.at, size |-> j.size, written |-> j.written, sent |-> j.sent]
         /\ [j EXCEPT !.slot = x] =
            [op |-> j.op, slot |-> x, i |-> j.i, proc |-> j.proc, packet |-> j.packet,
             at |-> j.at, size |-> j.size, written |-> j.written, sent |-> j.sent]
         /\ [j EXCEPT !.i = x] =
            [op |-> j.op, slot |-> j.slot, i |-> x, proc |-> j.proc, packet |-> j.packet,
             at |-> j.at, size |-> j.size, written |-> j.written, sent |-> j.sent]
         /\ [j EXCEPT !.proc = x] =
            [op |-> j.op, slot |-> j.slot, i |-> j.i, proc |-> x, packet |-> j.packet,
             at |-> j.at, size |-> j.size, written |-> j.written, sent |-> j.sent]
         /\ [j EXCEPT !.packet = x] =
            [op |-> j.op, slot |-> j.slot, i |-> j.i, proc |-> j.proc, packet |-> x,
             at |-> j.at, size |-> j.size, written |-> j.written, sent |-> j.sent]
         /\ [j EXCEPT !.at = x] =
            [op |-> j.op, slot |-> j.slot, i |-> j.i, proc |-> j.proc, packet |-> j.packet,
             at |-> x, size |-> j.size, written |-> j.written, sent |-> j.sent]
         /\ [j EXCEPT !.size = x] =
            [op |-> j.op, slot |-> j.slot, i |-> j.i, proc |-> j.proc, packet |-> j.packet,
             at |-> j.at, size |-> x, written |-> j.written, sent |-> j.sent]
         /\ [j EXCEPT !.written = x] =
            [op |-> j.op, slot |-> j.slot, i |-> j.i, proc |-> j.proc, packet |-> j.packet,
             at |-> j.at, size |-> j.size, written |-> x, sent |-> j.sent]
         /\ [j EXCEPT !.sent = x] =
            [op |-> j.op, slot |-> j.slot, i |-> j.i, proc |-> j.proc, packet |-> j.packet,
             at |-> j.at, size |-> j.size, written |-> j.written, sent |-> x]
BY DEF IsJob

LEMMA LoopFields ==
  ASSUME NEW op, NEW slot, NEW packet
  PROVE  Loop(op, slot, packet) =
            [op |-> op, slot |-> slot, i |-> 1,
             proc |-> IF op = "pull" THEN <<>> ELSE [k \in 1 .. packet[1] |-> GARBAGE],
             packet |-> packet, at |-> 2, size |-> 0, written |-> 0, sent |-> NOTHING]
<1>1. PICK P : P = IF op = "pull" THEN <<>> ELSE [k \in 1 .. packet[1] |-> GARBAGE]
  OBVIOUS
<1>2. PICK a : a = [IDLE EXCEPT !.op = op]
  OBVIOUS
<1>3. PICK b : b = [a EXCEPT !.slot = slot]
  OBVIOUS
<1>4. PICK c : c = [b EXCEPT !.packet = packet]
  OBVIOUS
<1>5. PICK d : d = [c EXCEPT !.at = 2]
  OBVIOUS
<1>6. Loop(op, slot, packet) = [d EXCEPT !.proc = P]
  BY <1>1, <1>2, <1>3, <1>4, <1>5 DEF Loop
<1>7. a = [op |-> op, slot |-> NOTHING, i |-> 1, proc |-> <<>>, packet |-> <<>>, at |-> 0,
           size |-> 0, written |-> 0, sent |-> NOTHING]
  BY <1>2 DEF IDLE
<1>8. b = [op |-> op, slot |-> slot, i |-> 1, proc |-> <<>>, packet |-> <<>>, at |-> 0,
           size |-> 0, written |-> 0, sent |-> NOTHING]
  BY <1>3, <1>7
<1>9. c = [op |-> op, slot |-> slot, i |-> 1, proc |-> <<>>, packet |-> packet, at |-> 0,
           size |-> 0, written |-> 0, sent |-> NOTHING]
  BY <1>4, <1>8
<1>10. d = [op |-> op, slot |-> slot, i |-> 1, proc |-> <<>>, packet |-> packet, at |-> 2,
            size |-> 0, written |-> 0, sent |-> NOTHING]
  BY <1>5, <1>9
<1>11. [d EXCEPT !.proc = P] = [op |-> op, slot |-> slot, i |-> 1, proc |-> P, packet |-> packet, at |-> 2,
            size |-> 0, written |-> 0, sent |-> NOTHING]
  BY <1>10
<1> QED BY <1>1, <1>6, <1>11

LEMMA IdleOK == IsJob(IDLE) /\ JobOK(IDLE) /\ IDLE.op = "idle" /\ IDLE.proc = <<>>
BY DEF IsJob, JobOK, IDLE

\* A router's job changes.
LEMMA JobSet ==
  ASSUME Shapes, NEW r \in Routers, NEW j, JobOK(j), job' = [job EXCEPT ![r] = j]
  PROVE  /\ job' = [q \in Routers |-> job'[q]] /\ \A q \in Routers : JobOK(job'[q])
         /\ job'[r] = j /\ \A q \in Routers : q # r => job'[q] = job[q]
<1>1. job = [q \in Routers |-> job[q]] /\ \A q \in Routers : JobOK(job[q])
  BY DEF Shapes
<1>2. job' = [q \in Routers |-> IF q = r THEN j ELSE job[q]]
  BY <1>1
<1> QED BY <1>1, <1>2

LEMMA Unchanged ==
  ASSUME Inv, UNCHANGED <<heap, store, copies, job, disturbed, pushes>>
  PROVE  Inv'
<1>1. Shapes'
  BY DEF Inv, Shapes
<1>2. Owners' = Owners
  BY DEF Owners, Held
<1>3. Contents'
  BY DEF Inv, Contents, Kept, Means, Pushing, Pushed, Copying, Packing, Text
<1> QED BY <1>1, <1>2, <1>3 DEF Inv

\* A request begins: nothing is allocated yet.
LEMMA Begun ==
  ASSUME Inv, NEW r \in Routers, NEW j, job[r] = IDLE, JobOK(j), job' = [job EXCEPT ![r] = j],
         StringsOf(j.proc) = {}, UNCHANGED <<heap, store, copies, disturbed>>, pushes' \in 0 .. MaxPushes,
         Pushing(r)', Copying(r)', Packing(r)'
  PROVE  Inv'
<1>1. /\ job' = [q \in Routers |-> job'[q]] /\ \A q \in Routers : JobOK(job'[q])
      /\ job'[r] = j /\ \A q \in Routers : q # r => job'[q] = job[q]
  BY JobSet DEF Inv
<1>2. Shapes'
  <2>1. \A q \in disturbed : q \in Routers /\ q # r /\ job[q].op \in {"run", "pull"}
    BY IdleOK DEF Inv, Shapes
  <2>2. disturbed' \subseteq {q \in Routers : job'[q].op \in {"run", "pull"}}
    BY <1>1, <2>1
  <2> QED BY <1>1, <2>2 DEF Inv, Shapes
<1>3. \A x \in DOMAIN Owners : Owners'[x] = Owners[x]
  <2>1. Owners[r] = {} /\ Owners'[r] = {}
    BY <1>1, OwnersAre, NoStrings, IdleOK
  <2>2. \A q \in Routers : Owners'[q] = Owners[q]
    BY <1>1, <2>1, OwnersAre
  <2>3. \A x \in Slots \cup Threads : Owners'[x] = Owners[x]
    BY OwnersAre
  <2> QED BY <2>2, <2>3, OwnersAre
<1>4. Owned(Owners, DOMAIN heap)'
  <2>1. Owned(Owners', DOMAIN heap)
    BY <1>3, OwnersAre, Same DEF Inv
  <2> QED BY <2>1
<1>5. Contents'
  <2>1. Agree(heap, heap')
    BY DEF Agree
  <2>2. \A q \in Routers : job'[q] = job[q] \/ (Pushing(q)' /\ Copying(q)' /\ Packing(q)')
    <3> TAKE q \in Routers
    <3>1. CASE q = r
      BY <3>1
    <3>2. CASE q # r
      BY <1>1, <3>2
    <3> QED BY <3>1, <3>2
  <2> QED BY <1>2, <1>4, <2>1, <2>2, ContentsStay
<1> QED BY <1>2, <1>4, <1>5 DEF Inv

LEMMA PushStep ==
  ASSUME Inv, NEW r \in Routers, Push(r)
  PROVE  Inv'
<1>1. PICK slot \in Slots, m \in Received :
            Begin(r, [Loop("push", slot, m.packet) EXCEPT !.sent = m.sent])
  BY DEF Push
<1>2. PICK j : j = [Loop("push", slot, m.packet) EXCEPT !.sent = m.sent]
  OBVIOUS
<1>3. j = [op |-> "push", slot |-> slot, i |-> 1, proc |-> [k \in 1 .. m.packet[1] |-> GARBAGE],
           packet |-> m.packet, at |-> 2, size |-> 0, written |-> 0, sent |-> m.sent]
  BY <1>2, LoopFields
<1>4. PICK p, c, off : Arriving(m, p, c, off)
  BY ReceivedLayout
<1>5. m.packet[1] \in Nat \ {0} /\ off[1] = 2 /\ c \in Nat
  BY <1>4 DEF Arriving, Layout
<1>6. JobOK(j)
  <2>1. IsJob(j) /\ j.slot \in Slots
    BY <1>3 DEF IsJob
  <2>2. HalfDone(j.proc, j.packet[1], 1)
    BY <1>3, <1>5 DEF HalfDone
  <2> QED BY <1>3, <1>5, <2>1, <2>2 DEF JobOK, Working
<1>7. StringsOf(j.proc) = {}
  BY <1>3, NoStrings
<1>8. job'[r] = j
  BY <1>1, <1>2, <1>6, JobSet DEF Inv, Begin
<1>9. Pushing(r)' /\ Copying(r)' /\ Packing(r)'
  <2>1. Arriving(j, p, c, off)
    BY <1>3, <1>4 DEF Arriving
  <2>2. Pushed(job[r], p, c, off)'
    BY <1>3, <1>5, <1>8, <2>1 DEF Pushed
  <2> QED BY <1>3, <1>8, <2>2 DEF Pushing, Copying, Packing
<1>10. pushes' \in 0 .. MaxPushes
  BY MemoryAssumption DEF Push, Inv, Shapes
<1> QED BY <1>1, <1>2, <1>6, <1>7, <1>9, <1>10, Begun DEF Push, Begin

LEMMA RunStep ==
  ASSUME Inv, NEW r \in Routers, Run(r)
  PROVE  Inv'
<1>1. PICK slot \in Slots : store[slot] # <<>> /\ Begin(r, Loop("run", slot, <<Len(store[slot])>>))
  BY DEF Run
<1>2. PICK j : j = Loop("run", slot, <<Len(store[slot])>>)
  OBVIOUS
<1>3. PICK n : n = Len(store[slot])
  OBVIOUS
<1>4. j = [op |-> "run", slot |-> slot, i |-> 1, proc |-> [k \in 1 .. n |-> GARBAGE],
           packet |-> <<n>>, at |-> 2, size |-> 0, written |-> 0, sent |-> NOTHING]
  BY <1>2, <1>3, LoopFields
<1>5. n \in Nat \ {0}
  BY <1>1, <1>3 DEF Inv, Shapes, IsProcedure
<1>6. JobOK(j)
  <2>1. IsJob(j) /\ j.slot \in Slots
    BY <1>4 DEF IsJob
  <2>2. HalfDone(j.proc, j.packet[1], 1)
    BY <1>4, <1>5 DEF HalfDone
  <2> QED BY <1>4, <1>5, <2>1, <2>2 DEF JobOK, Working
<1>7. StringsOf(j.proc) = {}
  BY <1>4, NoStrings
<1>8. job'[r] = j
  BY <1>1, <1>2, <1>6, JobSet DEF Inv, Begin
<1>9. Pushing(r)' /\ Copying(r)' /\ Packing(r)'
  <2>1. store' = store
    BY DEF Run
  <2> QED BY <1>3, <1>4, <1>5, <1>8, <2>1 DEF Pushing, Copying, Packing
<1>10. pushes' \in 0 .. MaxPushes
  BY DEF Run, Inv, Shapes
<1> QED BY <1>1, <1>2, <1>6, <1>7, <1>9, <1>10, Begun DEF Run, Begin

\* What is stored is the text it stands for.
LEMMA StoredText ==
  ASSUME NEW q, IsProcedure(q), NEW p, IsProcedure(p), Means(q, p)
  PROVE  TextOf(q) = p
<1>1. q = [k \in 1 .. Len(q) |-> q[k]] /\ p = [k \in 1 .. Len(p) |-> p[k]]
  BY DEF IsProcedure
<1>2. TextOf(q) = [k \in 1 .. Len(q) |-> Text(q[k])]
  BY <1>1 DEF TextOf
<1>3. Len(q) = Len(p) /\ \A k \in 1 .. Len(p) : Text(q[k]) = p[k]
  BY DEF Means
<1> QED BY <1>1, <1>2, <1>3

LEMMA PullStep ==
  ASSUME Inv, NEW r \in Routers, Pull(r)
  PROVE  Inv'
<1>1. PICK slot \in Slots :
        /\ TextOf(store[slot]) # <<>> /\ Fits(TextOf(store[slot]))
        /\ Begin(r, [Loop("pull", slot, <<Len(TextOf(store[slot]))>>)
                        EXCEPT !.size = calc_proc_size(TextOf(store[slot])), !.written = 1])
  BY DEF Pull
<1>2. PICK p \in Procedures : Fits(p) /\ Means(store[slot], p)
  <2>1. store[slot] # <<>>
    BY <1>1 DEF TextOf
  <2> QED BY <2>1 DEF Inv, Contents, Kept
<1>3. IsText(p) /\ IsProcedure(p) /\ Len(p) \in Nat
  BY MemoryAssumption DEF IsText, IsProcedure
<1>4. TextOf(store[slot]) = p
  BY <1>2, <1>3, StoredText DEF Inv, Shapes
<1>5. PICK a, b : a = Loop("pull", slot, <<Len(p)>>) /\ b = [a EXCEPT !.size = calc_proc_size(p)]
  OBVIOUS
<1>6. PICK j : j = [b EXCEPT !.written = 1]
  OBVIOUS
<1>7. a = [op |-> "pull", slot |-> slot, i |-> 1, proc |-> <<>>,
           packet |-> <<Len(p)>>, at |-> 2, size |-> 0, written |-> 0, sent |-> NOTHING]
  BY <1>5, LoopFields
<1>8. j = [op |-> "pull", slot |-> slot, i |-> 1, proc |-> <<>>, packet |-> <<Len(p)>>, at |-> 2,
           size |-> calc_proc_size(p), written |-> 1, sent |-> NOTHING]
  <2>1. b = [op |-> "pull", slot |-> slot, i |-> 1, proc |-> <<>>, packet |-> <<Len(p)>>, at |-> 2,
             size |-> calc_proc_size(p), written |-> 0, sent |-> NOTHING]
    BY <1>5, <1>7
  <2> QED BY <1>6, <2>1
<1>9. Begin(r, j)
  BY <1>1, <1>4, <1>5, <1>6
<1>10. JobOK(j)
  <2>1. IsJob(j) /\ j.slot \in Slots
    BY <1>8 DEF IsJob
  <2> QED BY <1>8, <2>1 DEF JobOK, Working
<1>11. StringsOf(j.proc) = {}
  BY <1>8, NoStrings
<1>12. job'[r] = j
  BY <1>9, <1>10, JobSet DEF Inv, Begin
<1>13. Pushing(r)' /\ Copying(r)' /\ Packing(r)'
  <2>1. Means(store[slot], p)'
    BY <1>2 DEF Pull, Means, Text
  <2>2. calc_proc_size(p) = SizeUpTo(p, Len(p)) /\ SizeUpTo(p, 0) = 1
    BY <1>3, SizeSteps
  <2>3. 1 \in 1 .. Len(p) + 1 /\ 1 - 1 = 0
    BY <1>3
  <2>4. Packing(r)'
    BY <1>2, <1>8, <1>12, <2>1, <2>2, <2>3 DEF Packing
  <2> QED BY <1>8, <1>12, <2>4 DEF Pushing, Copying
<1>14. pushes' \in 0 .. MaxPushes
  BY DEF Pull, Inv, Shapes
<1> QED BY <1>9, <1>10, <1>11, <1>13, <1>14, Begun DEF Pull, Begin

LEMMA PackInstructionStep ==
  ASSUME Inv, NEW r \in Routers, PackInstruction(r)
  PROVE  Inv'
<1>1. job[r].op = "pull" /\ job[r].i <= Len(store[job[r].slot])
  BY DEF PackInstruction, Reading
<1>2. IsJob(job[r]) /\ job[r].slot \in Slots /\ job[r].proc = <<>> /\ job[r].i \in Nat \ {0}
  BY <1>1, IdleOK DEF Inv, Shapes, JobOK, Working
<1>3. PICK w : w = job[r].written + WrittenBytes(Read(r))
  OBVIOUS
<1>4. PICK a : a = [job[r] EXCEPT !.written = w]
  OBVIOUS
<1>5. PICK j : j = [a EXCEPT !.i = job[r].i + 1]
  OBVIOUS
<1>6. a = [op |-> job[r].op, slot |-> job[r].slot, i |-> job[r].i, proc |-> job[r].proc, packet |-> job[r].packet,
           at |-> job[r].at, size |-> job[r].size, written |-> w, sent |-> job[r].sent]
  BY <1>2, <1>4, JobWith
<1>7. j = [op |-> job[r].op, slot |-> job[r].slot, i |-> job[r].i + 1, proc |-> job[r].proc, packet |-> job[r].packet,
           at |-> job[r].at, size |-> job[r].size, written |-> w, sent |-> job[r].sent]
  BY <1>5, <1>6
<1>8. job' = [job EXCEPT ![r] = j]
  <2>1. job = [q \in Routers |-> job[q]]
    BY DEF Inv, Shapes
  <2>2. job' = [job EXCEPT ![r].written = w, ![r].i = job[r].i + 1]
    BY <1>3, <2>1 DEF PackInstruction
  <2> QED BY <1>4, <1>5, <2>1, <2>2
<1>9. JobOK(j)
  <2>1. IsJob(j) /\ j.slot \in Slots
    BY <1>2, <1>7 DEF IsJob
  <2> QED BY <1>1, <1>2, <1>7, <2>1 DEF JobOK, Working
<1>10. /\ job' = [q \in Routers |-> job'[q]] /\ \A q \in Routers : JobOK(job'[q])
       /\ job'[r] = j /\ \A q \in Routers : q # r => job'[q] = job[q]
  BY <1>8, <1>9, JobSet DEF Inv
<1>11. Shapes'
  <2>1. \A q \in Routers : job'[q].op = job[q].op
    BY <1>7, <1>10
  <2> QED BY <1>10, <2>1 DEF Inv, Shapes, PackInstruction
<1>12. Owned(Owners, DOMAIN heap)'
  <2>1. \A q \in Routers : job'[q].proc = job[q].proc
    BY <1>7, <1>10
  <2>2. \A x \in DOMAIN Owners : Owners'[x] = Owners[x]
    <3>1. store' = store /\ copies' = copies
      BY DEF PackInstruction
    <3> QED BY <2>1, <3>1, OwnersAre
  <2>3. Owned(Owners', DOMAIN heap)
    BY <2>2, OwnersAre, Same DEF Inv
  <2> QED BY <2>3 DEF PackInstruction
<1>13. Packing(r)'
  <2> SUFFICES ASSUME r \notin disturbed PROVE Packing(r)'
    BY DEF Packing, PackInstruction
  <2>1. PICK p \in Procedures :
            /\ Fits(p) /\ Means(store[job[r].slot], p)
            /\ job[r].size = SizeUpTo(p, Len(p))
            /\ job[r].i \in 1 .. Len(p) + 1 /\ job[r].written = SizeUpTo(p, job[r].i - 1)
    BY <1>1 DEF Inv, Contents, Packing
  <2>2. IsText(p) /\ Len(p) \in Nat
    BY MemoryAssumption DEF IsText, IsProcedure
  <2>3. job[r].i \in 1 .. Len(p) /\ Read(r) = p[job[r].i]
    <3>1. job[r].i \in 1 .. Len(p)
      BY <1>1, <1>2, <2>1, <2>2 DEF Means
    <3> QED BY <2>1, <3>1 DEF Means, Read
  <2>4. w = SizeUpTo(p, job[r].i)
    BY <1>3, <2>1, <2>2, <2>3, SizeSteps
  <2>5. job[r].i + 1 \in 1 .. Len(p) + 1 /\ (job[r].i + 1) - 1 = job[r].i
    BY <2>2, <2>3
  <2>6. Means(store[job[r].slot], p)'
    <3>1. job'[r].slot = job[r].slot
      BY <1>7, <1>10
    <3>2. store' = store /\ heap' = heap
      BY DEF PackInstruction
    <3> QED BY <2>1, <3>1, <3>2 DEF Means, Text
  <2> QED BY <1>7, <1>10, <2>1, <2>4, <2>5, <2>6 DEF Packing
<1>14. Contents'
  <2>1. Agree(heap, heap')
    BY DEF Agree, PackInstruction
  <2>2. Pushing(r)' /\ Copying(r)'
    BY <1>1, <1>7, <1>10 DEF Pushing, Copying
  <2>3. \A q \in Routers : job'[q] = job[q] \/ (Pushing(q)' /\ Copying(q)' /\ Packing(q)')
    <3> TAKE q \in Routers
    <3>1. CASE q = r
      BY <1>13, <2>2, <3>1
    <3>2. CASE q # r
      BY <1>10, <3>2
    <3> QED BY <3>1, <3>2
  <2>4. store' = store /\ disturbed' = disturbed
    BY DEF PackInstruction
  <2> QED BY <1>11, <1>12, <2>1, <2>3, <2>4, ContentsStay
<1> QED BY <1>11, <1>12, <1>14 DEF Inv

\* What a heap is.
HeapOK(h) == IsFiniteSet(DOMAIN h) /\ \A a \in DOMAIN h : h[a] \in DOMAIN Length

\* A request ends.
LEMMA Ended ==
  ASSUME Inv, NEW r \in Routers, End(r), UNCHANGED <<store, pushes>>, HeapOK(heap)', Agree(heap, heap'),
         copies' = [t \in Threads |-> copies'[t]], \A t \in Threads : IsProcedure(copies'[t]),
         Owned(Owners', DOMAIN heap')
  PROVE  Inv'
<1>1. /\ job' = [q \in Routers |-> job'[q]] /\ \A q \in Routers : JobOK(job'[q])
      /\ job'[r] = IDLE /\ \A q \in Routers : q # r => job'[q] = job[q]
  BY JobSet, IdleOK DEF Inv, End
<1>2. disturbed' = disturbed \ {r}
  BY DEF End
<1>3. Shapes'
  <2>1. \A q \in disturbed' : q \in Routers /\ q # r /\ job[q].op \in {"run", "pull"}
    BY <1>2 DEF Inv, Shapes
  <2>2. disturbed' \subseteq {q \in Routers : job'[q].op \in {"run", "pull"}}
    BY <1>1, <2>1
  <2> QED BY <1>1, <2>2 DEF Inv, Shapes, HeapOK
<1>4. Contents'
  <2>1. Pushing(r)' /\ Copying(r)' /\ Packing(r)'
    BY <1>1, IdleOK DEF Pushing, Copying, Packing
  <2>2. \A q \in Routers : job'[q] = job[q] \/ (Pushing(q)' /\ Copying(q)' /\ Packing(q)')
    <3> TAKE q \in Routers
    <3>1. CASE q = r
      BY <2>1, <3>1
    <3>2. CASE q # r
      BY <1>1, <3>2
    <3> QED BY <3>1, <3>2
  <2>3. \A q \in Routers : job'[q] = job[q] /\ job[q].op \in {"run", "pull"} /\ q \notin disturbed' =>
                                q \notin disturbed /\ store'[job[q].slot] = store[job[q].slot]
    BY <1>1, <1>2, IdleOK
  <2> QED BY <1>3, <2>2, <2>3, ContentsStay
<1> QED BY <1>3, <1>4 DEF Inv

\* A request ends that writes a slot.
LEMMA Written ==
  ASSUME Inv, NEW r \in Routers, NEW slot \in Slots, NEW p, Write(r, slot, p), IsProcedure(p),
         job' = [job EXCEPT ![r] = IDLE], UNCHANGED <<copies, pushes>>,
         HeapOK(heap)', Agree(heap, heap'), Owned(Owners', DOMAIN heap'), store'[slot] = p => Kept(slot)'
  PROVE  Inv'
<1>1. /\ job' = [q \in Routers |-> job'[q]] /\ \A q \in Routers : JobOK(job'[q])
      /\ job'[r] = IDLE /\ \A q \in Routers : q # r => job'[q] = job[q]
  BY JobSet, IdleOK DEF Inv
<1>2. disturbed' = (disturbed \cup {q \in Routers : job[q].op \in {"run", "pull"} /\ job[q].slot = slot}) \ {r}
  BY DEF Write
<1>3. /\ store' = [s \in Slots |-> store'[s]] /\ store'[slot] = p
      /\ \A s \in Slots : s # slot => store'[s] = store[s]
  <2>1. store = [s \in Slots |-> store[s]] /\ store' = [store EXCEPT ![slot] = p]
    BY DEF Inv, Shapes, Write
  <2>2. store' = [s \in Slots |-> IF s = slot THEN p ELSE store[s]]
    BY <2>1
  <2> QED BY <2>2
<1>4. Shapes'
  <2>1. \A q \in disturbed' : q \in Routers /\ q # r /\ job[q].op \in {"run", "pull"}
    BY <1>2 DEF Inv, Shapes
  <2>2. disturbed' \subseteq {q \in Routers : job'[q].op \in {"run", "pull"}}
    BY <1>1, <2>1
  <2>3. \A s \in Slots : IsProcedure(store'[s])
    BY <1>3 DEF Inv, Shapes
  <2> QED BY <1>1, <1>3, <2>2, <2>3 DEF Inv, Shapes, HeapOK
<1>5. Contents'
  <2>1. Pushing(r)' /\ Copying(r)' /\ Packing(r)'
    BY <1>1, IdleOK DEF Pushing, Copying, Packing
  <2>2. \A q \in Routers : job'[q] = job[q] \/ (Pushing(q)' /\ Copying(q)' /\ Packing(q)')
    <3> TAKE q \in Routers
    <3>1. CASE q = r
      BY <2>1, <3>1
    <3>2. CASE q # r
      BY <1>1, <3>2
    <3> QED BY <3>1, <3>2
  <2>3. ASSUME NEW q \in Routers, job'[q] = job[q], job[q].op \in {"run", "pull"}, q \notin disturbed'
        PROVE  q \notin disturbed /\ store'[job[q].slot] = store[job[q].slot]
    <3>1. q # r
      BY <1>1, <2>3, IdleOK
    <3>2. q \notin disturbed /\ job[q].slot # slot
      BY <1>2, <2>3, <3>1
    <3>3. job[q].slot \in Slots
      BY <2>3, IdleOK DEF Inv, Shapes, JobOK
    <3> QED BY <1>3, <3>2, <3>3
  <2>4. \A s \in Slots : store'[s] = store[s] \/ Kept(s)'
    <3> TAKE s \in Slots
    <3>1. CASE s = slot
      BY <1>3, <3>1
    <3>2. CASE s # slot
      BY <1>3, <3>2
    <3> QED BY <3>1, <3>2
  <2> QED BY <1>4, <2>2, <2>3, <2>4, ContentsStay
<1> QED BY <1>4, <1>5 DEF Inv

LEMMA PackEndsStep ==
  ASSUME Inv, NEW r \in Routers, PackEnds(r)
  PROVE  Inv'
<1>1. End(r) /\ UNCHANGED <<heap, store, copies, pushes>>
  BY DEF PackEnds
<1>2. job[r].proc = <<>> /\ job'[r].proc = <<>> /\ \A q \in Routers : q # r => job'[q] = job[q]
  BY <1>1, JobSet, IdleOK DEF PackEnds, ReadAll, Inv, Shapes, JobOK, Working, End
<1>3. \A x \in DOMAIN Owners : Owners'[x] = Owners[x]
  <2>1. \A q \in Routers : job'[q].proc = job[q].proc
    BY <1>2
  <2>2. store' = store /\ copies' = copies
    BY <1>1
  <2> QED BY <2>1, <2>2, OwnersAre
<1>4. Owned(Owners', DOMAIN heap')
  <2>1. Owned(Owners', DOMAIN heap)
    BY <1>3, OwnersAre, Same DEF Inv
  <2> QED BY <1>1, <2>1
<1>5. HeapOK(heap)' /\ Agree(heap, heap')
  BY <1>1 DEF HeapOK, Agree, Inv, Shapes
<1>6. copies' = [t \in Threads |-> copies'[t]] /\ \A t \in Threads : IsProcedure(copies'[t])
  BY <1>1 DEF Inv, Shapes
<1> QED BY <1>1, <1>4, <1>5, <1>6, Ended

\* The instructions of a job are all done, or malloc's.
LEMMA JobStrings ==
  ASSUME Inv, NEW r \in Routers, job[r].op \in {"push", "run"}
  PROVE  /\ job[r].packet[1] \in Nat \ {0} /\ job[r].i \in 1 .. job[r].packet[1] + 1
         /\ job[r].slot \in Slots /\ IsJob(job[r]) /\ HalfDone(job[r].proc, job[r].packet[1], job[r].i)
         /\ Freed(job[r].proc) = {d[3] : d \in StringsOf(job[r].proc)}
         /\ (\A k \in 1 .. job[r].packet[1] : Shaped(job[r].proc[k])) =>
                IsProcedure(job[r].proc) /\ Len(job[r].proc) = job[r].packet[1]
<1>1. IsJob(job[r]) /\ job[r].slot \in Slots /\ Working(job[r])
  BY IdleOK DEF Inv, Shapes, JobOK
<1>2. PICK n, p : n = job[r].packet[1] /\ p = job[r].proc
  OBVIOUS
<1>3. n \in Nat \ {0} /\ job[r].i \in 1 .. n + 1 /\ HalfDone(p, n, job[r].i)
  BY <1>1, <1>2 DEF Working
<1>4. p = [k \in 1 .. n |-> p[k]] /\ \A k \in 1 .. n : Shaped(p[k]) \/ p[k] = GARBAGE
  BY <1>3 DEF HalfDone
<1>5. Freed(p) = {d[3] : d \in StringsOf(p)}
  BY <1>3, <1>4, FreedStrings
<1>6. (\A k \in 1 .. n : Shaped(p[k])) => IsProcedure(p) /\ Len(p) = n
  <2>1. Len(p) = n
    BY <1>3, <1>4
  <2> QED BY <1>3, <1>4, <2>1 DEF IsProcedure
<1> QED BY <1>1, <1>2, <1>3, <1>5, <1>6

LEMMA ProcedureStrings ==
  ASSUME NEW p, IsProcedure(p)
  PROVE  Freed(p) = {d[3] : d \in StringsOf(p)}
BY FreedStrings DEF IsProcedure

\* A router frees the procedure of its job.
LEMMA JobFreed ==
  ASSUME Inv, NEW r \in Routers, job[r].op \in {"push", "run"}, Free(job[r].proc), End(r),
         UNCHANGED <<store, copies, pushes>>
  PROVE  Inv'
<1>1. DOMAIN heap' = DOMAIN heap \ {d[3] : d \in StringsOf(job[r].proc)} /\ HeapOK(heap)' /\ Agree(heap, heap')
  BY JobStrings, FreeEffect DEF Inv, Shapes, HeapOK
<1>2. job'[r].proc = <<>> /\ \A q \in Routers : q # r => job'[q] = job[q]
  BY JobSet, IdleOK DEF Inv, End
<1>3. Owned(Owners', DOMAIN heap')
  <2>1. r \in DOMAIN Owners /\ Owners[r] = StringsOf(job[r].proc) /\ Owners'[r] = {}
    BY <1>2, OwnersAre, NoStrings
  <2>2. \A x \in DOMAIN Owners \ {r} : Owners'[x] = Owners[x]
    BY <1>2, OwnersAre
  <2> QED BY <1>1, <2>1, <2>2, OwnersAre, Drop DEF Inv
<1>4. copies' = [t \in Threads |-> copies'[t]] /\ \A t \in Threads : IsProcedure(copies'[t])
  BY DEF Inv, Shapes
<1> QED BY <1>1, <1>3, <1>4, Ended

LEMMA UnpackFailsStep ==
  ASSUME Inv, NEW r \in Routers, UnpackFails(r)
  PROVE  Inv'
<1>1. CASE job[r].i = Count(r)
  BY <1>1, JobFreed DEF UnpackFails, Unpacking
<1>2. CASE job[r].i # Count(r)
  BY <1>2, Unchanged DEF UnpackFails
<1> QED BY <1>1, <1>2

LEMMA DeleteStep ==
  ASSUME Inv, NEW r \in Routers, Delete(r)
  PROVE  Inv'
<1>1. PICK slot \in Slots : Free(store[slot]) /\ Write(r, slot, <<>>)
  BY DEF Delete
<1>2. IsProcedure(store[slot]) /\ IsProcedure(<<>>)
  BY DEF Inv, Shapes, IsProcedure
<1>3. DOMAIN heap' = DOMAIN heap \ {d[3] : d \in StringsOf(store[slot])} /\ HeapOK(heap)' /\ Agree(heap, heap')
  BY <1>1, <1>2, ProcedureStrings, FreeEffect DEF Inv, Shapes, HeapOK
<1>4. store'[slot] = <<>> /\ \A s \in Slots : s # slot => store'[s] = store[s]
  <2>1. store = [s \in Slots |-> store[s]] /\ store' = [store EXCEPT ![slot] = <<>>]
    BY <1>1 DEF Inv, Shapes, Write
  <2> QED BY <2>1
<1>5. Owned(Owners', DOMAIN heap')
  <2>1. slot \in DOMAIN Owners /\ Owners[slot] = StringsOf(store[slot]) /\ Owners'[slot] = {}
    BY <1>4, OwnersAre, NoStrings
  <2>2. \A x \in DOMAIN Owners \ {slot} : Owners'[x] = Owners[x]
    <3>1. job' = job /\ copies' = copies
      BY DEF Delete
    <3> QED BY <1>4, <3>1, OwnersAre
  <2> QED BY <1>3, <2>1, <2>2, OwnersAre, Drop DEF Inv
<1>6. job' = [job EXCEPT ![r] = IDLE]
  BY DEF Delete, Inv, Shapes
<1>7. Kept(slot)'
  BY <1>4 DEF Kept
<1> QED BY <1>1, <1>2, <1>3, <1>5, <1>6, <1>7, Written DEF Delete

LEMMA SetProcStep ==
  ASSUME Inv, NEW r \in Routers, SetProc(r)
  PROVE  Inv'
<1>1. job[r].op = "push" /\ job[r].i > Count(r) /\ job' = [job EXCEPT ![r] = IDLE]
      /\ UNCHANGED <<copies, pushes>>
  BY DEF SetProc
<1>2. PICK slot, q : slot = job[r].slot /\ q = job[r].proc
  OBVIOUS
<1>3. slot \in Slots /\ IsProcedure(q) /\ Len(q) = Count(r) /\ Count(r) \in Nat \ {0}
  <2>1. PICK n : n = Count(r)
    OBVIOUS
  <2>2. n \in Nat \ {0} /\ job[r].i \in 1 .. n + 1 /\ slot \in Slots /\ HalfDone(q, n, job[r].i)
    BY <1>1, <1>2, <2>1, JobStrings DEF Count
  <2>3. \A k \in 1 .. n : k < job[r].i
    BY <1>1, <2>1, <2>2
  <2>4. \A k \in 1 .. n : Shaped(q[k])
    BY <2>2, <2>3 DEF HalfDone
  <2> QED BY <1>1, <1>2, <2>1, <2>2, <2>4, JobStrings DEF Count
<1>4. CASE store[slot] = <<>>
  <2>1. Write(r, slot, q) /\ heap' = heap
    BY <1>2, <1>4 DEF SetProc
  <2>2. store'[slot] = q /\ \A s \in Slots : s # slot => store'[s] = store[s]
    <3>1. store = [s \in Slots |-> store[s]] /\ store' = [store EXCEPT ![slot] = q]
      BY <2>1 DEF Inv, Shapes, Write
    <3> QED BY <1>3, <3>1
  <2>3. job'[r].proc = <<>> /\ \A x \in Routers : x # r => job'[x] = job[x]
    BY <1>1, JobSet, IdleOK DEF Inv
  <2>4. Owned(Owners', DOMAIN heap')
    <3>1. r \in DOMAIN Owners /\ slot \in DOMAIN Owners /\ r # slot
      BY <1>3, OwnersAre, MemoryAssumption
    <3>2. Owners[slot] = {} /\ Owners'[slot] = Owners[r] /\ Owners'[r] = {}
      BY <1>2, <1>3, <1>4, <2>2, <2>3, OwnersAre, NoStrings
    <3>3. \A x \in DOMAIN Owners \ {r, slot} : Owners'[x] = Owners[x]
      <4>1. copies' = copies
        BY <1>1
      <4> QED BY <2>2, <2>3, <4>1, OwnersAre
    <3>4. Owned(Owners', DOMAIN heap)
      BY <3>1, <3>2, <3>3, OwnersAre, Move DEF Inv
    <3> QED BY <2>1, <3>4
  <2>5. Kept(slot)'
    <3>1. PICK p, c, off : Pushed(job[r], p, c, off)
      BY <1>1 DEF Inv, Contents, Pushing
    <3>2. p \in Procedures /\ Fits(p) /\ Len(p) = Count(r) /\ c \in 0 .. Len(p) /\ job[r].i <= c + 1
          /\ \A k \in 1 .. c : k < job[r].i => Text(q[k]) = p[k]
      BY <1>2, <3>1 DEF Pushed, Arriving, Layout, Count
    <3>3. c = Len(p) /\ \A k \in 1 .. Len(p) : k < job[r].i
      <4>1. job[r].i \in Nat
        BY <1>1, JobStrings
      <4> QED BY <1>1, <1>3, <3>2, <4>1
    <3>4. Means(q, p)
      BY <1>3, <3>2, <3>3 DEF Means
    <3>5. Means(store[slot], p)'
      BY <2>1, <2>2, <3>4 DEF Means, Text
    <3> QED BY <3>2, <3>5 DEF Kept
  <2>6. HeapOK(heap)' /\ Agree(heap, heap')
    BY <2>1 DEF HeapOK, Agree, Inv, Shapes
  <2> QED BY <1>1, <1>3, <2>1, <2>4, <2>5, <2>6, Written
<1>5. CASE store[slot] # <<>>
  <2>1. Free(job[r].proc) /\ UNCHANGED <<store, disturbed>>
    BY <1>2, <1>5 DEF SetProc
  <2>2. r \notin disturbed
    BY <1>1 DEF Inv, Shapes
  <2>3. End(r)
    BY <1>1, <2>1, <2>2 DEF End
  <2> QED BY <1>1, <2>1, <2>3, JobFreed
<1> QED BY <1>4, <1>5

LEMMA ThreadEndsStep ==
  ASSUME Inv, NEW t \in Threads, ThreadEnds(t)
  PROVE  Inv'
<1>1. Free(copies[t]) /\ copies' = [copies EXCEPT ![t] = <<>>] /\ UNCHANGED <<store, job, disturbed, pushes>>
  BY DEF ThreadEnds
<1>2. IsProcedure(copies[t]) /\ IsProcedure(<<>>)
  BY DEF Inv, Shapes, IsProcedure
<1>3. DOMAIN heap' = DOMAIN heap \ {d[3] : d \in StringsOf(copies[t])} /\ HeapOK(heap)' /\ Agree(heap, heap')
  BY <1>1, <1>2, ProcedureStrings, FreeEffect DEF Inv, Shapes, HeapOK
<1>4. /\ copies' = [u \in Threads |-> copies'[u]] /\ copies'[t] = <<>>
      /\ \A u \in Threads : u # t => copies'[u] = copies[u]
  <2>1. copies = [u \in Threads |-> copies[u]]
    BY DEF Inv, Shapes
  <2> QED BY <1>1, <2>1
<1>5. Owned(Owners', DOMAIN heap')
  <2>1. t \in DOMAIN Owners /\ Owners[t] = StringsOf(copies[t]) /\ Owners'[t] = {}
    BY <1>4, OwnersAre, NoStrings
  <2>2. \A x \in DOMAIN Owners \ {t} : Owners'[x] = Owners[x]
    <3>1. job' = job /\ store' = store
      BY <1>1
    <3> QED BY <1>4, <3>1, OwnersAre
  <2> QED BY <1>3, <2>1, <2>2, OwnersAre, Drop DEF Inv
<1>6. Shapes'
  <2>1. \A u \in Threads : IsProcedure(copies'[u])
    BY <1>2, <1>4 DEF Inv, Shapes
  <2> QED BY <1>1, <1>3, <1>4, <2>1 DEF Inv, Shapes, HeapOK
<1>7. Contents'
  BY <1>1, <1>3, <1>5, <1>6, ContentsStay
<1> QED BY <1>5, <1>6, <1>7 DEF Inv

\* An instruction that stands for t is duplicated into the procedure of a job.
Grows(r, t, new, j) ==
    /\ job[r].op \in {"push", "run"} /\ job[r].i <= job[r].packet[1]
    /\ Shaped(t) /\ \A f \in Strings(Fields(t.type)) : t.arg[f] \in DOMAIN Length
    /\ new = Duplicate(<<t>>) /\ heap' = With(heap, new.strings)
    /\ IsJob(j) /\ j.op = job[r].op /\ j.slot = job[r].slot /\ j.i = job[r].i + 1
    /\ j.proc = [job[r].proc EXCEPT ![job[r].i] = new.procedure[1]] /\ j.packet = job[r].packet
    /\ job' = [job EXCEPT ![r] = j] /\ UNCHANGED <<store, copies, disturbed, pushes>>

LEMMA Grown ==
  ASSUME Inv, NEW r \in Routers, NEW t, NEW new, NEW j, Grows(r, t, new, j)
  PROVE  /\ Shapes' /\ Owned(Owners', DOMAIN heap') /\ Agree(heap, heap')
         /\ job'[r] = j /\ (\A z \in Routers : z # r => job'[z] = job[z])
         /\ TextIn(heap', j.proc[job[r].i]) = t
         /\ \A k \in 1 .. job[r].packet[1] : k < job[r].i =>
                TextIn(heap', j.proc[k]) = TextIn(heap, job[r].proc[k])
<1>1. PICK n, i, p : n = job[r].packet[1] /\ i = job[r].i /\ p = job[r].proc
  OBVIOUS
<1>2. n \in Nat \ {0} /\ i \in 1 .. n /\ HalfDone(p, n, i) /\ job[r].slot \in Slots
  <2>1. n \in Nat \ {0} /\ i \in 1 .. n + 1 /\ HalfDone(p, n, i) /\ job[r].slot \in Slots
    BY <1>1, JobStrings DEF Grows
  <2> QED BY <1>1, <2>1 DEF Grows
<1>3. PICK m : /\ DuplicatedAs(new.procedure[1], m, 1, t)
               /\ DOMAIN heap' = DOMAIN heap \cup {<<m, 1, f>> : f \in Strings(Fields(t.type))}
               /\ IsFiniteSet(DOMAIN heap') /\ \A a \in DOMAIN heap' : heap'[a] \in DOMAIN Length
               /\ \A f : <<m, 1, f>> \notin DOMAIN heap
               /\ Agree(heap, heap')
               /\ TextIn(heap', new.procedure[1]) = t
  <2>1. IsFiniteSet(DOMAIN heap) /\ \A a \in DOMAIN heap : heap[a] \in DOMAIN Length
    BY DEF Inv, Shapes
  <2>2. Shaped(t) /\ (\A f \in Strings(Fields(t.type)) : t.arg[f] \in DOMAIN Length)
        /\ new = Duplicate(<<t>>) /\ heap' = With(heap, new.strings)
    BY DEF Grows
  <2> QED BY <2>1, <2>2, OneDuplicated
<1>4. PICK x, q : x = new.procedure[1] /\ q = [p EXCEPT ![i] = x]
  OBVIOUS
<1>5. Shaped(x) /\ x.type = t.type /\ \A f \in Strings(Fields(t.type)) : x.arg[f] = <<m, 1, f>>
  BY <1>3, <1>4 DEF DuplicatedAs, Strings
<1>6. /\ HalfDone(q, n, i + 1) /\ q[i] = x /\ \A k \in 1 .. n : k # i => q[k] = p[k]
      /\ StringsOf(q) = StringsOf(p) \cup {<<i, f, x.arg[f]>> : f \in Strings(Fields(x.type))}
  <2>1. FilledWith(p, n, i, x, q)
    BY <1>2, <1>4, <1>5 DEF FilledWith
  <2> QED BY <2>1, Filled
<1>7. j.proc = q /\ j.i = i + 1 /\ j.packet[1] = n /\ j.op = job[r].op
  BY <1>1, <1>4 DEF Grows
<1>8. JobOK(j)
  <2>1. IsJob(j) /\ j.slot \in Slots
    BY <1>2 DEF Grows
  <2>2. j.i \in 1 .. n + 1
    BY <1>2, <1>7
  <2>3. HalfDone(j.proc, n, j.i)
    BY <1>6, <1>7
  <2>4. j.op \in {"push", "run"}
    BY <1>7 DEF Grows
  <2> QED BY <1>2, <1>7, <2>1, <2>2, <2>3, <2>4 DEF JobOK, Working
<1>9. /\ job' = [z \in Routers |-> job'[z]] /\ \A z \in Routers : JobOK(job'[z])
      /\ job'[r] = j /\ \A z \in Routers : z # r => job'[z] = job[z]
  BY <1>8, JobSet DEF Inv, Grows
<1>10. Shapes'
  <2>1. \A z \in Routers : job'[z].op = job[z].op
    BY <1>7, <1>9
  <2>2. store' = store /\ copies' = copies /\ disturbed' = disturbed /\ pushes' = pushes
    BY DEF Grows
  <2> QED BY <1>3, <1>9, <2>1, <2>2 DEF Inv, Shapes
<1>11. Owned(Owners', DOMAIN heap')
  <2>1. PICK N : N = {<<i, f, x.arg[f]>> : f \in Strings(Fields(x.type))}
    OBVIOUS
  <2>2. r \in DOMAIN Owners /\ Owners[r] = StringsOf(p) /\ Owners'[r] = StringsOf(p) \cup N
    BY <1>1, <1>6, <1>7, <1>9, <2>1, OwnersAre
  <2>3. Gains(Owners, Owners', r, N)
    <3>1. store' = store /\ copies' = copies
      BY DEF Grows
    <3>2. \A z \in DOMAIN Owners \ {r} : Owners'[z] = Owners[z]
      BY <1>9, <3>1, OwnersAre
    <3> QED BY <2>2, <3>2, OwnersAre DEF Gains
  <2>4. \A d \in N : \E f \in Strings(Fields(t.type)) : d = <<i, f, <<m, 1, f>>>> /\ d[3] = <<m, 1, f>>
    BY <1>5, <2>1
  <2>5. \A d \in N : d[3] \notin DOMAIN heap
    BY <1>3, <2>4
  <2>6. \A d, e \in N : d[3] = e[3] => d = e
    BY <2>4
  <2>7. {d[3] : d \in N} = {<<m, 1, f>> : f \in Strings(Fields(t.type))}
    <3>1. \A f \in Strings(Fields(t.type)) : \E d \in N : d[3] = <<m, 1, f>>
      <4> TAKE f \in Strings(Fields(t.type))
      <4>1. PICK d : d = <<i, f, <<m, 1, f>>>>
        OBVIOUS
      <4>2. d \in N /\ d[3] = <<m, 1, f>>
        BY <1>5, <2>1, <4>1
      <4> QED BY <4>2
    <3> QED BY <2>4, <3>1
  <2>8. DOMAIN heap' = DOMAIN heap \cup {d[3] : d \in N}
    BY <1>3, <2>7
  <2>9. Fresh(DOMAIN heap, DOMAIN heap', N)
    BY <2>5, <2>6, <2>8 DEF Fresh
  <2>10. Owned(Owners, DOMAIN heap)
    BY DEF Inv
  <2> QED BY <2>3, <2>9, <2>10, Gain
<1>12. \A k \in 1 .. n : k < i => TextIn(heap', q[k]) = TextIn(heap, p[k])
  <2> SUFFICES ASSUME NEW k \in 1 .. n, k < i PROVE TextIn(heap', q[k]) = TextIn(heap, p[k])
    OBVIOUS
  <2>1. q[k] = p[k] /\ Shaped(p[k]) /\ k \in DOMAIN p /\ k \in DOMAIN q
    BY <1>2, <1>6 DEF HalfDone
  <2>2. r \in DOMAIN Owners /\ r \in DOMAIN Owners' /\ Owners[r] = StringsOf(p) /\ Owners'[r] = StringsOf(q)
    BY <1>1, <1>7, <1>9, OwnersAre
  <2>3. Owned(Owners, DOMAIN heap)
    BY DEF Inv
  <2> QED BY <1>3, <1>11, <2>1, <2>2, <2>3, TextKept
<1>13. TextIn(heap', j.proc[i]) = t
  BY <1>3, <1>4, <1>6, <1>7
<1> QED BY <1>1, <1>3, <1>7, <1>9, <1>10, <1>11, <1>12, <1>13

\* Then the other routers' contents stay.
LEMMA OthersStay ==
  ASSUME Inv, NEW r \in Routers, Shapes', Owned(Owners', DOMAIN heap'), Agree(heap, heap'),
         \A z \in Routers : z # r => job'[z] = job[z], UNCHANGED <<store, disturbed>>,
         Pushing(r)' /\ Copying(r)' /\ Packing(r)'
  PROVE  Inv'
<1>1. \A z \in Routers : job'[z] = job[z] \/ (Pushing(z)' /\ Copying(z)' /\ Packing(z)')
  <2> TAKE z \in Routers
  <2>1. CASE z = r
    BY <2>1
  <2>2. CASE z # r
    BY <2>2
  <2> QED BY <2>1, <2>2
<1>2. Contents'
  BY <1>1, ContentsStay
<1> QED BY <1>2 DEF Inv

\* What is unpacked is what was packed.
Unpacks(r, p, c, off, k) ==
    /\ Layout(job[r].packet, p, c, off) /\ k \in 1 .. c /\ Shaped(p[k]) /\ job[r].at = off[k]
LEMMA UnpackedIs ==
  ASSUME NEW r, NEW p, NEW c, NEW off, NEW k, Unpacks(r, p, c, off, k)
  PROVE  InstructionRead(r) = p[k] /\ off[k + 1] = job[r].at + 2 + Len(UnpackedFields(TypeRead(r)))
<1>1. PICK packet, at, fields : packet = job[r].packet /\ at = job[r].at /\ fields = UnpackedFields(TypeRead(r))
  OBVIOUS
<1>2. Shaped(p[k]) /\ at = off[k] /\ TypeRead(r) = packet[at + 1]
  BY <1>1 DEF Unpacks, TypeRead
<1>3. /\ off[k] \in Nat /\ off[k + 1] = off[k] + 2 + Len(PackedFields(p[k].type))
      /\ packet[off[k]] = p[k].node /\ packet[off[k] + 1] = p[k].type
      /\ \A l \in DOMAIN PackedFields(p[k].type) :
            packet[off[k] + 1 + l] = p[k].arg[PackedFields(p[k].type)[l]]
  <2>1. Layout(packet, p, c, off) /\ k \in 1 .. c
    BY <1>1 DEF Unpacks
  <2> QED BY <2>1 DEF Layout
<1>4. TypeRead(r) = p[k].type /\ fields = PackedFields(p[k].type) /\ ToSet(fields) = Fields(p[k].type)
  <2>1. p[k].type \in Types /\ TypeRead(r) = p[k].type
    BY <1>2, <1>3, ShapedFields
  <2>2. fields = PackedFields(p[k].type)
    BY <1>1, <2>1, FieldTables
  <2> QED BY <2>1, <2>2 DEF Fields
<1>5. ASSUME NEW f \in ToSet(fields), NEW n, n = CHOOSE l \in DOMAIN fields : fields[l] = f
      PROVE  packet[at + 1 + n] = p[k].arg[f]
  <2>1. n \in DOMAIN fields /\ fields[n] = f
    BY <1>5 DEF ToSet
  <2> QED BY <1>2, <1>3, <1>4, <2>1
<1>6. PICK read : read = [f \in ToSet(fields) |->
                            packet[at + 1 + CHOOSE l \in DOMAIN fields : fields[l] = f]]
  OBVIOUS
<1>7. read = p[k].arg
  <2>1. read = [f \in ToSet(fields) |-> p[k].arg[f]]
    BY <1>5, <1>6
  <2> QED BY <1>2, <1>4, <2>1, ShapedFields
<1>8. InstructionRead(r) = [node |-> packet[at], type |-> TypeRead(r), arg |-> read]
  BY <1>1, <1>6 DEF InstructionRead
<1>9. p[k] = [node |-> p[k].node, type |-> p[k].type, arg |-> p[k].arg]
  BY <1>2, ShapedFields
<1> QED BY <1>1, <1>2, <1>3, <1>4, <1>7, <1>8, <1>9

LEMMA UnpackInstructionStep ==
  ASSUME Inv, NEW r \in Routers, UnpackInstruction(r)
  PROVE  Inv'
<1>1. PICK J, i, packet, at : J = job[r] /\ i = J.i /\ packet = J.packet /\ at = J.at
  OBVIOUS
<1>2. J.op = "push" /\ i <= packet[1] /\ packet[at + 1] \in Types
  BY <1>1 DEF UnpackInstruction, Unpacking, Count, TypeRead
<1>3. PICK p, c, off : Pushed(J, p, c, off)
  BY <1>1, <1>2 DEF Inv, Contents, Pushing
<1>4. /\ IsText(p) /\ Len(p) \in Nat /\ c \in 0 .. Len(p) /\ Layout(packet, p, c, off) /\ packet[1] = Len(p)
      /\ i <= c + 1 /\ at = off[i]
  BY <1>1, <1>3 DEF Pushed, Arriving, Layout
<1>5. i \in 1 .. c
  <2>1. i \in Nat \ {0}
    BY <1>1, <1>2, JobStrings
  <2>2. i # c + 1
    <3> SUFFICES ASSUME i = c + 1 PROVE FALSE
      OBVIOUS
    <3>1. c # Len(p)
      BY <1>2, <1>4
    <3> QED BY <1>2, <1>4, <3>1 DEF Layout
  <2> QED BY <1>4, <2>1, <2>2
<1>6. Shaped(p[i]) /\ \A f \in Strings(Fields(p[i].type)) : p[i].arg[f] \in DOMAIN Length
  <2>1. i \in 1 .. Len(p) /\ DOMAIN p = 1 .. Len(p) /\ Shaped(p[i])
    BY <1>4, <1>5 DEF IsText, IsProcedure
  <2>2. DOMAIN p[i].arg = Fields(p[i].type)
    BY <2>1, ShapedFields
  <2> QED BY <1>4, <2>1, <2>2 DEF IsText
<1>7. InstructionRead(r) = p[i] /\ off[i + 1] = at + 2 + Len(UnpackedFields(TypeRead(r)))
  <2>1. Unpacks(r, p, c, off, i)
    BY <1>1, <1>4, <1>5, <1>6 DEF Unpacks
  <2> QED BY <1>1, <2>1, UnpackedIs
<1>8. PICK n : n = Len(UnpackedFields(TypeRead(r)))
  OBVIOUS
<1>9. at + 2 + n = off[i + 1]
  BY <1>7, <1>8
<1>10. PICK new : new = Duplicate(<<p[i]>>)
  OBVIOUS
<1>11. /\ job' = [job EXCEPT ![r].proc[i] = new.procedure[1], ![r].i = @ + 1, ![r].at = @ + 2 + n]
       /\ heap' = With(heap, new.strings) /\ UNCHANGED <<store, copies, disturbed, pushes>>
  BY <1>1, <1>7, <1>8, <1>10 DEF UnpackInstruction
<1>12. PICK a : a = [J EXCEPT !.proc = [J.proc EXCEPT ![i] = new.procedure[1]]]
  OBVIOUS
<1>21. PICK b : b = [a EXCEPT !.i = J.i + 1]
  OBVIOUS
<1>13. PICK j : j = [b EXCEPT !.at = off[i + 1]]
  OBVIOUS
<1>14. IsJob(J) /\ J.slot \in Slots /\ packet[1] \in Nat \ {0}
  BY <1>1, <1>2, JobStrings
<1>15. j = [op |-> J.op, slot |-> J.slot, i |-> J.i + 1,
            proc |-> [J.proc EXCEPT ![i] = new.procedure[1]], packet |-> J.packet,
            at |-> off[i + 1], size |-> J.size, written |-> J.written, sent |-> J.sent]
  <2>1. PICK P : P = [J.proc EXCEPT ![i] = new.procedure[1]]
    OBVIOUS
  <2>2. a = [op |-> J.op, slot |-> J.slot, i |-> J.i, proc |-> P, packet |-> J.packet,
             at |-> J.at, size |-> J.size, written |-> J.written, sent |-> J.sent]
    BY <1>12, <1>14, <2>1, JobWith
  <2>3. b = [op |-> J.op, slot |-> J.slot, i |-> J.i + 1, proc |-> P, packet |-> J.packet,
             at |-> J.at, size |-> J.size, written |-> J.written, sent |-> J.sent]
    BY <1>21, <2>2
  <2>4. j = [op |-> J.op, slot |-> J.slot, i |-> J.i + 1, proc |-> P, packet |-> J.packet,
             at |-> off[i + 1], size |-> J.size, written |-> J.written, sent |-> J.sent]
    BY <1>13, <2>3
  <2> QED BY <2>1, <2>4
<1>16. job' = [job EXCEPT ![r] = j]
  <2>1. job = [q \in Routers |-> job[q]]
    BY DEF Inv, Shapes
  <2>2. J.at + 2 + n = off[i + 1]
    BY <1>1, <1>9
  <2> QED BY <1>1, <1>11, <1>12, <1>13, <1>21, <2>1, <2>2
<1>17. Grows(r, p[i], new, j)
  <2>1. IsJob(j)
    BY <1>15 DEF IsJob
  <2> QED BY <1>1, <1>2, <1>6, <1>10, <1>11, <1>15, <1>16, <2>1 DEF Grows
<1>18. /\ Shapes' /\ Owned(Owners', DOMAIN heap') /\ Agree(heap, heap')
       /\ job'[r] = j /\ (\A z \in Routers : z # r => job'[z] = job[z])
       /\ TextIn(heap', j.proc[i]) = p[i]
       /\ \A k \in 1 .. packet[1] : k < i => TextIn(heap', j.proc[k]) = TextIn(heap, J.proc[k])
  BY <1>1, <1>17, Grown
<1>19. Pushed(j, p, c, off)'
  <2>1. j.packet = J.packet /\ j.sent = J.sent /\ j.i = i + 1 /\ j.at = off[j.i]
    BY <1>1, <1>15
  <2>2. Arriving(j, p, c, off)
    BY <1>3, <2>1 DEF Pushed, Arriving
  <2>3. ASSUME NEW k \in 1 .. c, k < j.i PROVE TextIn(heap', j.proc[k]) = p[k]
    <3>1. CASE k = i
      BY <1>18, <3>1
    <3>2. CASE k # i
      <4>1. k < i /\ k \in 1 .. packet[1]
        BY <1>4, <1>5, <2>1, <2>3, <3>2
      <4>2. TextIn(heap, J.proc[k]) = p[k]
        BY <1>1, <1>3, <4>1 DEF Pushed, Text
      <4> QED BY <1>18, <4>1, <4>2
    <3> QED BY <3>1, <3>2
  <2>4. j.i <= c + 1
    BY <1>4, <1>5, <2>1
  <2> QED BY <2>1, <2>2, <2>3, <2>4 DEF Pushed, Text
<1>20. Pushing(r)' /\ Copying(r)' /\ Packing(r)'
  <2>1. job'[r].op = "push"
    BY <1>2, <1>15, <1>18
  <2>2. Pushed(job[r], p, c, off)'
    BY <1>18, <1>19
  <2> QED BY <2>1, <2>2 DEF Pushing, Copying, Packing
<1> QED BY <1>11, <1>18, <1>20, OthersStay

LEMMA CopyInstructionStep ==
  ASSUME Inv, NEW r \in Routers, CopyInstruction(r)
  PROVE  Inv'
<1>1. PICK J, i, slot : J = job[r] /\ i = J.i /\ slot = J.slot
  OBVIOUS
<1>2. J.op = "run" /\ i <= Len(store[slot]) /\ i <= J.packet[1]
  BY <1>1 DEF CopyInstruction, Reading, Count
<1>3. IsJob(J) /\ slot \in Slots /\ J.packet[1] \in Nat \ {0} /\ i \in Nat \ {0}
  BY <1>1, <1>2, JobStrings
<1>4. PICK x : x = store[slot][i]
  OBVIOUS
<1>5. IsProcedure(store[slot]) /\ i \in 1 .. Len(store[slot]) /\ i \in DOMAIN store[slot] /\ Shaped(x)
  <2>1. IsProcedure(store[slot])
    BY <1>3 DEF Inv, Shapes
  <2>2. Len(store[slot]) \in Nat /\ DOMAIN store[slot] = 1 .. Len(store[slot])
    BY <2>1 DEF IsProcedure
  <2>3. i \in 1 .. Len(store[slot])
    BY <1>2, <1>3, <2>2
  <2> QED BY <1>4, <2>1, <2>2, <2>3 DEF IsProcedure
<1>6. PICK t, new : t = Text(x) /\ new = Duplicate(<<t>>)
  OBVIOUS
<1>7. Copied(x) = new
  BY <1>5, <1>6, CopiedIsText
<1>8. Shaped(t) /\ \A f \in Strings(Fields(t.type)) : t.arg[f] \in DOMAIN Length
  <2>1. Shaped(t) /\ t.type = x.type
    BY <1>5, <1>6, TextShaped DEF Text
  <2>2. ASSUME NEW f \in Strings(Fields(x.type)) PROVE t.arg[f] = heap[x.arg[f]]
    <3>1. f \in Fields(x.type) /\ f \in Strings({f})
      BY DEF Strings
    <3> QED BY <1>5, <1>6, <3>1, TextShaped DEF Text
  <2>3. \A f \in Strings(Fields(x.type)) : x.arg[f] \in DOMAIN heap
    <3>1. slot \in DOMAIN Owners /\ Owners[slot] = StringsOf(store[slot]) /\ Owned(Owners, DOMAIN heap)
      BY <1>3, OwnersAre DEF Inv
    <3> QED BY <1>4, <1>5, <3>1, Addressed
  <2>4. \A a \in DOMAIN heap : heap[a] \in DOMAIN Length
    BY DEF Inv, Shapes
  <2> QED BY <2>1, <2>2, <2>3, <2>4
<1>9. /\ job' = [job EXCEPT ![r].proc[i] = new.procedure[1], ![r].i = @ + 1]
      /\ heap' = With(heap, new.strings) /\ UNCHANGED <<store, copies, disturbed, pushes>>
  BY <1>1, <1>4, <1>7 DEF CopyInstruction
<1>10. PICK a : a = [J EXCEPT !.proc = [J.proc EXCEPT ![i] = new.procedure[1]]]
  OBVIOUS
<1>11. PICK j : j = [a EXCEPT !.i = J.i + 1]
  OBVIOUS
<1>12. j = [op |-> J.op, slot |-> J.slot, i |-> J.i + 1,
            proc |-> [J.proc EXCEPT ![i] = new.procedure[1]], packet |-> J.packet,
            at |-> J.at, size |-> J.size, written |-> J.written, sent |-> J.sent]
  <2>1. PICK P : P = [J.proc EXCEPT ![i] = new.procedure[1]]
    OBVIOUS
  <2>2. a = [op |-> J.op, slot |-> J.slot, i |-> J.i, proc |-> P, packet |-> J.packet,
             at |-> J.at, size |-> J.size, written |-> J.written, sent |-> J.sent]
    BY <1>3, <1>10, <2>1, JobWith
  <2>3. j = [op |-> J.op, slot |-> J.slot, i |-> J.i + 1, proc |-> P, packet |-> J.packet,
             at |-> J.at, size |-> J.size, written |-> J.written, sent |-> J.sent]
    BY <1>11, <2>2
  <2> QED BY <2>1, <2>3
<1>13. job' = [job EXCEPT ![r] = j]
  <2>1. job = [q \in Routers |-> job[q]]
    BY DEF Inv, Shapes
  <2> QED BY <1>1, <1>9, <1>10, <1>11, <2>1
<1>14. Grows(r, t, new, j)
  <2>1. IsJob(j)
    BY <1>12 DEF IsJob
  <2> QED BY <1>1, <1>2, <1>6, <1>8, <1>9, <1>12, <1>13, <2>1 DEF Grows
<1>15. /\ Shapes' /\ Owned(Owners', DOMAIN heap') /\ Agree(heap, heap')
       /\ job'[r] = j /\ (\A z \in Routers : z # r => job'[z] = job[z])
       /\ TextIn(heap', j.proc[i]) = t
       /\ \A k \in 1 .. J.packet[1] : k < i => TextIn(heap', j.proc[k]) = TextIn(heap, J.proc[k])
  BY <1>1, <1>14, Grown
<1>16. Copying(r)'
  <2> SUFFICES ASSUME r \notin disturbed
               PROVE  /\ J.packet[1] = Len(store[slot])
                      /\ \A k \in 1 .. Len(store[slot]) :
                            k < i + 1 => TextIn(heap', j.proc[k]) = TextIn(heap', store[slot][k])
    <3>1. job'[r] = j /\ j.packet = J.packet /\ j.slot = slot /\ j.i = i + 1
      BY <1>1, <1>12, <1>15
    <3>2. store' = store /\ disturbed' = disturbed
      BY <1>9
    <3> QED BY <3>1, <3>2 DEF Copying, Text
  <2>1. /\ J.packet[1] = Len(store[slot])
        /\ \A k \in 1 .. Len(store[slot]) : k < i => TextIn(heap, J.proc[k]) = TextIn(heap, store[slot][k])
    BY <1>1, <1>2 DEF Inv, Contents, Copying, Text
  <2>2. \A k \in 1 .. Len(store[slot]) : TextIn(heap', store[slot][k]) = TextIn(heap, store[slot][k])
    <3>1. store' = store
      BY <1>9
    <3> QED BY <1>3, <1>15, <3>1, TextsStay DEF Inv
  <2>3. ASSUME NEW k \in 1 .. Len(store[slot]), k < i + 1
        PROVE  TextIn(heap', j.proc[k]) = TextIn(heap', store[slot][k])
    <3>1. CASE k = i
      BY <1>4, <1>6, <1>15, <2>2, <3>1 DEF Text
    <3>2. CASE k # i
      <4>1. k < i /\ k \in 1 .. J.packet[1]
        BY <1>3, <2>1, <2>3, <3>2
      <4> QED BY <1>15, <2>1, <2>2, <4>1
    <3> QED BY <3>1, <3>2
  <2> QED BY <2>1, <2>3
<1>17. Pushing(r)' /\ Packing(r)'
  BY <1>2, <1>12, <1>15 DEF Pushing, Packing
<1> QED BY <1>9, <1>15, <1>16, <1>17, OthersStay

LEMMA CopyEndsStep ==
  ASSUME Inv, NEW r \in Routers, CopyEnds(r)
  PROVE  Inv'
<1>1. job[r].op = "run" /\ UNCHANGED <<store, pushes>>
  BY DEF CopyEnds, ReadAll
<1>2. CASE GARBAGE \in ToSet(job[r].proc)
  BY <1>2, Unchanged DEF CopyEnds
<1>3. CASE GARBAGE \notin ToSet(job[r].proc)
  <2>1. End(r)
    BY <1>3 DEF CopyEnds
  <2>2. CASE Free(job[r].proc) /\ UNCHANGED copies
    BY <1>1, <2>1, <2>2, JobFreed
  <2>3. ASSUME NEW t \in Threads, copies[t] = <<>>, copies' = [copies EXCEPT ![t] = job[r].proc], UNCHANGED heap
        PROVE  Inv'
    <3>1. PICK p, n : p = job[r].proc /\ n = job[r].packet[1]
      OBVIOUS
    <3>2. n \in Nat \ {0} /\ HalfDone(p, n, job[r].i)
      BY <1>1, <3>1, JobStrings
    <3>3. \A k \in 1 .. n : Shaped(p[k])
      <4>1. DOMAIN p = 1 .. n
        BY <3>2 DEF HalfDone
      <4>2. \A k \in 1 .. n : p[k] # GARBAGE
        BY <1>3, <3>1, <4>1 DEF ToSet
      <4> QED BY <3>2, <4>2 DEF HalfDone
    <3>4. IsProcedure(p)
      BY <1>1, <3>1, <3>3, JobStrings
    <3>5. /\ copies' = [u \in Threads |-> copies'[u]] /\ copies'[t] = p
          /\ \A u \in Threads : u # t => copies'[u] = copies[u]
      <4>1. copies = [u \in Threads |-> copies[u]]
        BY DEF Inv, Shapes
      <4> QED BY <2>3, <3>1, <4>1
    <3>6. job'[r].proc = <<>> /\ \A q \in Routers : q # r => job'[q] = job[q]
      BY <2>1, JobSet, IdleOK DEF Inv, End
    <3>7. Owned(Owners', DOMAIN heap')
      <4>1. r \in DOMAIN Owners /\ t \in DOMAIN Owners /\ r # t
        BY OwnersAre, MemoryAssumption
      <4>2. Owners[t] = {} /\ Owners'[t] = Owners[r] /\ Owners'[r] = {}
        BY <2>3, <3>1, <3>5, <3>6, OwnersAre, NoStrings
      <4>3. \A x \in DOMAIN Owners \ {r, t} : Owners'[x] = Owners[x]
        BY <1>1, <3>5, <3>6, OwnersAre
      <4>4. Owned(Owners', DOMAIN heap)
        BY <4>1, <4>2, <4>3, OwnersAre, Move DEF Inv
      <4> QED BY <2>3, <4>4
    <3>8. HeapOK(heap)' /\ Agree(heap, heap')
      BY <2>3 DEF HeapOK, Agree, Inv, Shapes
    <3>9. \A u \in Threads : IsProcedure(copies'[u])
      BY <3>4, <3>5 DEF Inv, Shapes
    <3> QED BY <1>1, <2>1, <3>5, <3>7, <3>8, <3>9, Ended
  <2> QED BY <1>3, <2>2, <2>3 DEF CopyEnds
<1> QED BY <1>2, <1>3

-----------------------------------------------------------------------------
(* Theorems.                                                               *)

LEMMA InitInv == Init => Inv
<1> SUFFICES ASSUME Init PROVE Inv
  OBVIOUS
<1>1. Shapes
  <2>1. IsProcedure(<<>>)
    BY DEF IsProcedure
  <2>2. DOMAIN heap = {} /\ IsFiniteSet({})
    BY FS_EmptySet DEF Init
  <2>3. store = [s \in Slots |-> store[s]] /\ \A s \in Slots : IsProcedure(store[s])
    BY <2>1 DEF Init
  <2>4. copies = [t \in Threads |-> copies[t]] /\ \A t \in Threads : IsProcedure(copies[t])
    BY <2>1 DEF Init
  <2>5. job = [r \in Routers |-> job[r]] /\ \A r \in Routers : JobOK(job[r])
    BY IdleOK DEF Init
  <2>6. disturbed = {} /\ pushes \in 0 .. MaxPushes
    BY MemoryAssumption DEF Init
  <2> QED BY <2>2, <2>3, <2>4, <2>5, <2>6 DEF Shapes
<1>2. Owned(Owners, DOMAIN heap)
  <2>1. \A x \in DOMAIN Owners : Owners[x] = {}
    BY OwnersAre, NoStrings, IdleOK DEF Init
  <2>2. DOMAIN heap = {}
    BY DEF Init
  <2> QED BY <2>1, <2>2 DEF Owned
<1>3. Contents
  BY IdleOK DEF Init, Contents, Kept, Pushing, Copying, Packing
<1> QED BY <1>1, <1>2, <1>3 DEF Inv

LEMMA NextInv == Inv /\ [Next]_vars => Inv'
<1> SUFFICES ASSUME Inv, [Next]_vars PROVE Inv'
  OBVIOUS
<1>1. ASSUME NEW r \in Routers, Push(r) PROVE Inv'
  BY <1>1, PushStep
<1>2. ASSUME NEW r \in Routers, UnpackInstruction(r) PROVE Inv'
  BY <1>2, UnpackInstructionStep
<1>3. ASSUME NEW r \in Routers, UnpackFails(r) PROVE Inv'
  BY <1>3, UnpackFailsStep
<1>4. ASSUME NEW r \in Routers, SetProc(r) PROVE Inv'
  BY <1>4, SetProcStep
<1>5. ASSUME NEW r \in Routers, Delete(r) PROVE Inv'
  BY <1>5, DeleteStep
<1>6. ASSUME NEW r \in Routers, Run(r) PROVE Inv'
  BY <1>6, RunStep
<1>7. ASSUME NEW r \in Routers, CopyInstruction(r) PROVE Inv'
  BY <1>7, CopyInstructionStep
<1>8. ASSUME NEW r \in Routers, CopyEnds(r) PROVE Inv'
  BY <1>8, CopyEndsStep
<1>9. ASSUME NEW r \in Routers, Pull(r) PROVE Inv'
  BY <1>9, PullStep
<1>10. ASSUME NEW r \in Routers, PackInstruction(r) PROVE Inv'
  BY <1>10, PackInstructionStep
<1>11. ASSUME NEW r \in Routers, PackEnds(r) PROVE Inv'
  BY <1>11, PackEndsStep
<1>12. ASSUME NEW r \in Routers, Torn(r) PROVE Inv'
  BY <1>12, Unchanged DEF Torn
<1>13. ASSUME NEW t \in Threads, ThreadEnds(t) PROVE Inv'
  BY <1>13, ThreadEndsStep
<1>14. CASE UNCHANGED vars
  BY <1>14, Unchanged DEF vars
<1> QED BY <1>1, <1>2, <1>3, <1>4, <1>5, <1>6, <1>7, <1>8, <1>9, <1>10, <1>11, <1>12, <1>13, <1>14 DEF Next

\* Whatever routers and threads do at the same time, the invariant holds.
THEOREM Invariant == Spec => []Inv
BY InitInv, NextInv, PTL DEF Spec

\* A place is a string of a procedure.
LEMMA PlacesAre ==
  /\ \A p \in Places : /\ p = <<p[1], p[2], p[3]>> /\ p[1] \in DOMAIN Owners
                        /\ <<p[2], p[3], Address(p)>> \in Owners[p[1]]
  /\ \A x \in DOMAIN Owners : \A d \in Owners[x] :
        <<x, d[1], d[2]>> \in Places /\ Address(<<x, d[1], d[2]>>) = d[3]
<1>1. DOMAIN Held = DOMAIN Owners /\ \A x \in DOMAIN Held : Owners[x] = StringsOf(Held[x])
  BY DEF Held, Owners
<1>2. ASSUME NEW p \in Places
      PROVE  /\ p = <<p[1], p[2], p[3]>> /\ p[1] \in DOMAIN Owners
             /\ <<p[2], p[3], Address(p)>> \in Owners[p[1]]
  <2>1. PICK x \in DOMAIN Held : \E k \in DOMAIN Held[x] : \E f \in Strings(DOMAIN Held[x][k].arg) : p = <<x, k, f>>
    BY DEF Places
  <2>2. PICK k \in DOMAIN Held[x] : \E f \in Strings(DOMAIN Held[x][k].arg) : p = <<x, k, f>>
    BY <2>1
  <2>3. PICK f \in Strings(DOMAIN Held[x][k].arg) : p = <<x, k, f>>
    BY <2>2
  <2>4. Address(p) = Held[x][k].arg[f]
    BY <2>3 DEF Address
  <2>5. <<k, f, Held[x][k].arg[f]>> \in StringsOf(Held[x])
    BY DEF StringsOf
  <2> QED BY <1>1, <2>3, <2>4, <2>5
<1>3. ASSUME NEW x \in DOMAIN Owners, NEW d \in Owners[x]
      PROVE  <<x, d[1], d[2]>> \in Places /\ Address(<<x, d[1], d[2]>>) = d[3]
  <2>1. d \in StringsOf(Held[x]) /\ x \in DOMAIN Held
    BY <1>1
  <2>2. PICK k \in DOMAIN Held[x] : \E f \in Strings(DOMAIN Held[x][k].arg) : d = <<k, f, Held[x][k].arg[f]>>
    BY <2>1 DEF StringsOf
  <2>3. PICK f \in Strings(DOMAIN Held[x][k].arg) : d = <<k, f, Held[x][k].arg[f]>>
    BY <2>2
  <2>4. <<x, k, f>> \in Places
    BY <2>1 DEF Places
  <2> QED BY <2>3, <2>4 DEF Address
<1> QED BY <1>2, <1>3

LEMMA InvTypeOK == Inv => TypeOK
<1> SUFFICES ASSUME Inv PROVE TypeOK
  OBVIOUS
<1>1. ASSUME NEW x \in DOMAIN Held, NEW k \in DOMAIN Held[x] PROVE Held[x][k].type \in Types \cup {UNKNOWN}
  <2>1. \A p : IsProcedure(p) => \A l \in DOMAIN p : p[l].type \in Types
    BY DEF IsProcedure, Shaped
  <2>2. CASE x \in Slots
    BY <1>1, <2>1, <2>2, MemoryAssumption DEF Held, Inv, Shapes
  <2>3. CASE x \in Threads
    BY <1>1, <2>1, <2>3, MemoryAssumption DEF Held, Inv, Shapes
  <2>4. CASE x \in Routers
    <3>1. Held[x] = job[x].proc /\ JobOK(job[x])
      BY <2>4, MemoryAssumption DEF Held, Inv, Shapes
    <3>2. HalfDone(job[x].proc, job[x].packet[1], job[x].i)
      BY <1>1, <3>1, IdleOK DEF JobOK, Working
    <3>3. Shaped(Held[x][k]) \/ Held[x][k] = GARBAGE
      BY <1>1, <3>1, <3>2 DEF HalfDone
    <3> QED BY <3>3 DEF Shaped, GARBAGE
  <2> QED BY <2>2, <2>3, <2>4 DEF Held
<1>2. ASSUME NEW r \in Routers
      PROVE  /\ job[r].op \in {"idle", "push", "run", "pull"}
             /\ job[r].op \in {"push", "run"} => job[r].slot \in Slots /\ job[r].i \in 1 .. Count(r) + 1
  <2>1. JobOK(job[r])
    BY DEF Inv, Shapes
  <2>2. CASE job[r] = IDLE
    BY <2>2, IdleOK
  <2>3. CASE job[r].slot \in Slots /\ Working(job[r])
    BY <2>3 DEF Working, Count
  <2> QED BY <2>1, <2>2, <2>3 DEF JobOK
<1> QED BY <1>1, <1>2 DEF TypeOK, Inv, Shapes

LEMMA InvOwners == Inv => SoleOwner /\ NoStringLost
<1> SUFFICES ASSUME Inv PROVE SoleOwner /\ NoStringLost
  OBVIOUS
<1>1. Owned(Owners, DOMAIN heap)
  BY DEF Inv
<1>2. ASSUME NEW p \in Places, NEW q \in Places, Address(p) = Address(q) PROVE p = q
  <2>1. PICK d, e : d = <<p[2], p[3], Address(p)>> /\ e = <<q[2], q[3], Address(q)>>
    OBVIOUS
  <2>2. /\ p[1] \in DOMAIN Owners /\ d \in Owners[p[1]] /\ q[1] \in DOMAIN Owners /\ e \in Owners[q[1]]
        /\ p = <<p[1], p[2], p[3]>> /\ q = <<q[1], q[2], q[3]>>
    BY <2>1, PlacesAre
  <2>3. p[1] = q[1] /\ d = e
    BY <1>1, <1>2, <2>1, <2>2 DEF Owned
  <2>4. p[2] = q[2] /\ p[3] = q[3]
    BY <2>1, <2>3
  <2> QED BY <2>2, <2>3, <2>4
<1>3. ASSUME NEW p \in Places PROVE Address(p) \in DOMAIN heap
  <2>1. PICK d : d = <<p[2], p[3], Address(p)>>
    OBVIOUS
  <2>2. p[1] \in DOMAIN Owners /\ d \in Owners[p[1]]
    BY <2>1, PlacesAre
  <2> QED BY <1>1, <2>1, <2>2 DEF Owned
<1>4. ASSUME NEW a \in DOMAIN heap PROVE a \in {Address(p) : p \in Places}
  <2>1. PICK x \in DOMAIN Owners : \E d \in Owners[x] : d[3] = a
    BY <1>1 DEF Owned
  <2>2. PICK d \in Owners[x] : d[3] = a
    BY <2>1
  <2> QED BY <2>2, PlacesAre
<1> QED BY <1>2, <1>3, <1>4 DEF SoleOwner, NoStringLost

LEMMA InvArrives == Inv => ArrivesAsSent
<1> SUFFICES ASSUME Inv, NEW r \in Routers
             PROVE  /\ job[r].op = "push" /\ job[r].i > Count(r) /\ job[r].sent # NOTHING =>
                            TextOf(job[r].proc) = job[r].sent
                    /\ ReadAll(r, "run") /\ r \notin disturbed =>
                            TextOf(job[r].proc) = TextOf(store[job[r].slot])
  BY DEF ArrivesAsSent
<1>1. PICK J, n, q : J = job[r] /\ n = job[r].packet[1] /\ q = job[r].proc
  OBVIOUS
<1>2. ASSUME J.op = "push", J.i > n, J.sent # NOTHING PROVE TextOf(q) = J.sent
  <2>1. PICK p, c, off : Pushed(J, p, c, off)
    BY <1>1, <1>2 DEF Inv, Contents, Pushing
  <2>2. /\ p = J.sent /\ c = Len(p) /\ IsProcedure(p) /\ Len(p) \in Nat /\ n = Len(p)
        /\ \A k \in 1 .. c : k < J.i => Text(q[k]) = p[k]
    BY <1>1, <1>2, <2>1 DEF Pushed, Arriving, Layout, IsText
  <2>3. n \in Nat /\ J.i \in Nat /\ HalfDone(q, n, J.i)
    BY <1>1, <1>2, JobStrings
  <2>4. \A k \in 1 .. n : k < J.i
    BY <1>2, <2>3
  <2>5. IsProcedure(q) /\ Len(q) = n
    <3>1. \A k \in 1 .. n : Shaped(q[k])
      BY <2>3, <2>4 DEF HalfDone
    <3> QED BY <1>1, <1>2, <3>1, JobStrings
  <2>6. Means(q, p)
    BY <2>2, <2>4, <2>5 DEF Means
  <2> QED BY <2>2, <2>5, <2>6, StoredText
<1>3. ASSUME J.op = "run", J.i > Len(store[J.slot]), r \notin disturbed
      PROVE  TextOf(q) = TextOf(store[J.slot])
  <2>1. PICK s : s = store[J.slot]
    OBVIOUS
  <2>2. n = Len(s) /\ \A k \in 1 .. n : k < J.i => Text(q[k]) = Text(s[k])
    BY <1>1, <1>3, <2>1 DEF Inv, Contents, Copying
  <2>3. n \in Nat /\ J.i \in Nat /\ q = [k \in 1 .. n |-> q[k]] /\ J.slot \in Slots
    BY <1>1, <1>3, JobStrings DEF HalfDone
  <2>4. \A k \in 1 .. n : Text(q[k]) = Text(s[k])
    <3>1. J.i > n
      BY <1>3, <2>1, <2>2
    <3>2. \A k \in 1 .. n : k < J.i
      BY <2>3, <3>1
    <3> QED BY <2>2, <3>2
  <2>5. s = [k \in 1 .. n |-> s[k]]
    BY <2>1, <2>2, <2>3 DEF Inv, Shapes, IsProcedure
  <2>6. TextOf(q) = [k \in 1 .. n |-> Text(q[k])] /\ TextOf(s) = [k \in 1 .. n |-> Text(s[k])]
    BY <2>3, <2>5 DEF TextOf
  <2> QED BY <2>1, <2>4, <2>6
<1> QED BY <1>1, <1>2, <1>3 DEF Count, ReadAll

LEMMA InvSize == Inv => SizeIsExact
<1> SUFFICES ASSUME Inv PROVE SizeIsExact
  OBVIOUS
<1>1. ASSUME NEW r \in Routers, job[r].op = "pull", r \notin disturbed
      PROVE  /\ job[r].written <= job[r].size
             /\ job[r].i > Len(store[job[r].slot]) => job[r].written = job[r].size
  <2>1. PICK p \in Procedures :
            /\ Means(store[job[r].slot], p) /\ job[r].size = SizeUpTo(p, Len(p))
            /\ job[r].i \in 1 .. Len(p) + 1 /\ job[r].written = SizeUpTo(p, job[r].i - 1)
    BY <1>1 DEF Inv, Contents, Packing
  <2>2. IsText(p) /\ Len(p) \in Nat /\ Len(store[job[r].slot]) = Len(p)
    BY <2>1, MemoryAssumption DEF IsText, IsProcedure, Means
  <2>3. PICK i : i = job[r].i - 1
    OBVIOUS
  <2>4. i \in 0 .. Len(p) /\ (job[r].i > Len(p) => i = Len(p))
    BY <2>1, <2>2, <2>3
  <2>5. SizeUpTo(p, i) <= SizeUpTo(p, Len(p))
    BY <2>2, <2>4, SizeSteps
  <2> QED BY <2>1, <2>2, <2>3, <2>4, <2>5
<1>2. ASSUME NEW slot \in Slots PROVE Fits(TextOf(store[slot]))
  <2>1. IsProcedure(store[slot]) /\ Kept(slot)
    BY DEF Inv, Shapes, Contents
  <2>2. CASE store[slot] = <<>>
    <3>1. TextOf(<<>>) = <<>>
      BY DEF TextOf
    <3>2. IsText(<<>>)
      BY DEF IsText, IsProcedure
    <3>3. calc_proc_size(<<>>) = 1
      BY <3>2, SizeSteps
    <3> QED BY <2>2, <3>1, <3>3, PackAssumption DEF Fits
  <2>3. CASE \E p \in Procedures : Fits(p) /\ Means(store[slot], p)
    <3>1. PICK p \in Procedures : Fits(p) /\ Means(store[slot], p)
      BY <2>3
    <3>2. IsProcedure(p)
      BY MemoryAssumption DEF IsText
    <3> QED BY <2>1, <3>1, <3>2, StoredText
  <2> QED BY <2>1, <2>2, <2>3 DEF Kept
<1> QED BY <1>1, <1>2 DEF SizeIsExact, ReadAll

\* The handlers leave every router where they say it is: the instructions of a
\* procedure have known types, but for those malloc left, and no router is
\* disturbed that does not read.
THEOREM TypesStay == Spec => []TypeOK
BY Invariant, InvTypeOK, PTL

\* However many routers push, run, pull and delete at the same time, no string of
\* proc_strdup belongs to two procedures, and none that a procedure still has
\* was freed.
THEOREM StringsHaveOneOwner == Spec => []SoleOwner
BY Invariant, InvOwners, PTL

\* Every string is freed when its procedure ends: free_proc forgets none.
THEOREM NoStringIsLost == Spec => []NoStringLost
BY Invariant, InvOwners, PTL

\* unpack_proc_from_csp_packet and deepcopy_proc give what pack_proc_into_csp_packet
\* and the store were given, for procedures of any length and any strings.
THEOREM ProceduresArrive == Spec => []ArrivesAsSent
BY Invariant, InvArrives, PTL

\* calc_proc_size is what pack_proc_into_csp_packet writes, and what fits into the
\* packet of a push fits into that of a pull.
THEOREM SizesAreExact == Spec => []SizeIsExact
BY Invariant, InvSize, PTL
=============================================================================

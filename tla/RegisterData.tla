---------------------------- MODULE RegisterData ----------------------------
(***************************************************************************)
(* register/data.go and headers.go: a P4Data value is checked against a    *)
(* type of the P4Info and its numbers are brought into canonical form.     *)
(*                                                                         *)
(* A type specification is known by its pointer, and a named type refers   *)
(* to others by name, so the types form a graph that may have cycles.      *)
(* normalize marks the specifications it is inside of. Values are trees.   *)
(* A value's "kind" is the branch of its oneof; a nil pointer and an empty *)
(* oneof are "missing". A declaration that is nil, or has no name, is none.*)
(* Unknown protobuf fields, which are copied along, are left out. The      *)
(* variables of the Codec module play no part.                             *)
(***************************************************************************)
EXTENDS RegisterNumeric

CONSTANTS
  Specs,      \* pointer -> type specification [type, ...]
  Structs,    \* name -> member pointers
  NewTypes,   \* name -> [rep, ...]
  Headers,    \* name -> list of bitstring types
  Unions,     \* name -> list of [name, header]
  Enums,      \* name -> members
  Errors,     \* members of the error type
  SerEnums,   \* name -> bit width
  Values,     \* what callers give
  MaxDepth    \* nesting of values

-----------------------------------------------------------------------------
(* Values: those without members, and structs and tuples of others *)

Strings == Seq(Byte)
HeaderSet == [kind : {"header"}, valid : BOOLEAN, fields : Seq(Strings)]
MissingSet == [kind : {"missing"}]
UnionSet == [kind : {"headerUnion"}, name : STRING, header : HeaderSet \cup MissingSet]
LeafSet ==
  MissingSet \cup HeaderSet \cup UnionSet
    \cup [kind : {"bool"}]
    \cup [kind : {"bitstring", "enumValue"}, bytes : Strings]
    \cup [kind : {"varbit"}, width : Int, bytes : Strings]
    \cup [kind : {"enum", "error"}, member : STRING]
    \cup [kind : {"headerStack"}, entries : Seq(HeaderSet \cup MissingSet)]
    \cup [kind : {"headerUnionStack"}, entries : Seq(UnionSet \cup MissingSet)]

Trees[n \in Nat] ==
  IF n = 0 THEN LeafSet
  ELSE Trees[n - 1] \cup [kind : {"struct", "tuple"}, members : Seq(Trees[n - 1])]

BitTypes == [type : STRING, width : Int]

SpecOK(t) ==
  /\ t.type \in {"bit", "int", "varbit"} => t \in BitTypes
  /\ t.type = "tuple" => t.members \in Seq(DOMAIN Specs)
  /\ t.type \in {"headerStack", "headerUnionStack"} => t.size \in Int
NewTypeOK(t) ==
  \/ t.rep = "original" /\ t.spec \in DOMAIN Specs
  \/ t.rep = "sdnString"
  \/ t.rep = "sdnBitwidth" /\ t.width \in Int

\* Pointers and names lead to declarations of the P4Info.
ASSUME RegisterAssumption ==
  /\ IsFiniteSet(DOMAIN Specs) /\ \A p \in DOMAIN Specs : SpecOK(Specs[p])
  /\ \A n \in DOMAIN Structs : Structs[n] \in Seq(DOMAIN Specs)
  /\ \A n \in DOMAIN NewTypes : NewTypeOK(NewTypes[n])
  /\ \A n \in DOMAIN Headers : Headers[n] \in Seq(BitTypes)
  /\ \A n \in DOMAIN Unions : Unions[n] \in Seq([name : STRING, header : STRING])
  /\ \A n \in DOMAIN SerEnums : SerEnums[n] \in Int
  /\ MaxDepth \in Nat /\ Values \subseteq Trees[MaxDepth]

VARIABLES
  root,        \* the register's type
  data,        \* the value given
  integerOnly, \* Write, not WriteData
  calls,       \* the active calls of normalize, with the results of those they made
  active,      \* the specifications they are inside of
  result       \* what the first of them returned

rvars == <<root, data, integerOnly, calls, active, result>>

Pending == [kind |-> "no result yet"]
\* No value: an error. Every record here has a kind.
Bad == [kind |-> "error result"]
Checked(ok, v) == IF ok THEN v ELSE Bad
WithBytes(v, b) == Checked(b # Error, [v EXCEPT !.bytes = b])

-----------------------------------------------------------------------------
(* The bitstring types; t is bit, int or varbit with its width *)

Varbit(t, v) ==
  Checked(/\ v.kind = "varbit" /\ v.width \in 0..t.width
          /\ Len(v.bytes) = ByteLen(v.width)
          /\ UnsignedBytes(v.bytes, v.width) # Error, v)

Bitstring(t, v, intOnly) ==
  IF t.type = "varbit" THEN IF intOnly THEN Bad ELSE Varbit(t, v)
  ELSE IF v.kind # "bitstring" THEN Bad
  ELSE CASE t.type = "bit" -> WithBytes(v, UnsignedBytes(v.bytes, t.width))
         [] t.type = "int" -> WithBytes(v, SignedBytes(v.bytes, t.width))
         [] OTHER -> Bad

Bits(bytes) == [kind |-> "bitstring", bytes |-> bytes]

\* An error if one of the elements is.
NoneBad(out) == \A i \in DOMAIN out : out[i] # Bad
WithFields(v, out) ==
  Checked(NoneBad(out), [v EXCEPT !.fields = [i \in DOMAIN out |-> out[i].bytes]])
WithEntries(v, out) == Checked(NoneBad(out), [v EXCEPT !.entries = out])
WithHeader(v, h) == Checked(h # Bad, [v EXCEPT !.header = h])

-----------------------------------------------------------------------------
(* Headers *)

\* Only a valid header has fields; a varbit field has no place for its width.
Header(name, v) ==
  IF name \notin DOMAIN Headers \/ v.kind # "header" THEN Bad
  ELSE IF ~v.valid THEN Checked(v.fields = <<>>, v)
  ELSE IF Len(v.fields) # Len(Headers[name]) THEN Bad
  ELSE WithFields(v, [i \in DOMAIN v.fields |->
                        Bitstring(Headers[name][i], Bits(v.fields[i]), TRUE)])

\* The first member of a union with the name of the valid header.
HeaderUnion(name, v) ==
  IF name \notin DOMAIN Unions \/ v.kind # "headerUnion" THEN Bad
  ELSE IF v.name = "" THEN Checked(v.header.kind = "missing", v)
  ELSE LET hits == {i \in DOMAIN Unions[name] : Unions[name][i].name = v.name}
           first == CHOOSE i \in hits : \A j \in hits : i <= j
       IN  IF hits = {} \/ v.header.kind # "header" \/ ~v.header.valid THEN Bad
           ELSE WithHeader(v, Header(Unions[name][first].header, v.header))

\* As many entries as the declared size of a known type.
StackShape(kind, declared, t, v) ==
  v.kind = kind /\ t.size >= 0 /\ Len(v.entries) = t.size /\ t.name \in declared

HeaderStack(t, v) ==
  IF ~StackShape("headerStack", DOMAIN Headers, t, v) THEN Bad
  ELSE WithEntries(v, [i \in DOMAIN v.entries |-> Header(t.name, v.entries[i])])

HeaderUnionStack(t, v) ==
  IF ~StackShape("headerUnionStack", DOMAIN Unions, t, v) THEN Bad
  ELSE WithEntries(v, [i \in DOMAIN v.entries |-> HeaderUnion(t.name, v.entries[i])])

-----------------------------------------------------------------------------
(* Types without members *)

\* A type the controller sees in translated form: a string, or a number.
Translated(t, v, intOnly) ==
  IF v.kind # "bitstring" THEN Bad
  ELSE IF t.rep = "sdnString" THEN Checked(~intOnly, v)
  ELSE IF t.width <= 0 THEN Bad ELSE WithBytes(v, UnsignedBytes(v.bytes, t.width))

Scalar(t, v, intOnly) ==
  CASE t.type \in {"bit", "int", "varbit"} -> Bitstring(t, v, intOnly)
    [] t.type = "bool" -> Checked(v.kind = "bool", v)
    [] t.type = "header" -> Header(t.name, v)
    [] t.type = "headerUnion" -> HeaderUnion(t.name, v)
    [] t.type = "headerStack" -> HeaderStack(t, v)
    [] t.type = "headerUnionStack" -> HeaderUnionStack(t, v)
    [] t.type = "enum" ->
         Checked(t.name \in DOMAIN Enums /\ v.kind = "enum" /\ v.member \in Enums[t.name] \ {""}, v)
    [] t.type = "error" -> Checked(v.kind = "error" /\ v.member \in Errors \ {""}, v)
    [] t.type = "serializableEnum" ->
         IF t.name \notin DOMAIN SerEnums \/ v.kind # "enumValue" THEN Bad
         ELSE WithBytes(v, UnsignedBytes(v.bytes, SerEnums[t.name]))
    [] OTHER -> Bad

-----------------------------------------------------------------------------
(* normalize. Its calls are on a stack: a call of a new type makes one for  *)
(* the original type, one of a struct or tuple makes one per member.        *)

Arg(p, v, intOnly) == [spec |-> p, value |-> v, intOnly |-> intOnly]

Renames(t) ==
  t.type = "newType" /\ t.name \in DOMAIN NewTypes /\ NewTypes[t.name].rep = "original"
HasMembers(t) == t.type = "tuple" \/ (t.type = "struct" /\ t.name \in DOMAIN Structs)
MembersOf(t) == IF t.type = "tuple" THEN t.members ELSE Structs[t.name]
StructLike(t, v) == HasMembers(t) /\ v.kind = t.type /\ Len(v.members) = Len(MembersOf(t))

\* The calls that a call makes, in their order.
Nested(a) ==
  LET t == Specs[a.spec]
  IN  IF Renames(t) THEN <<Arg(NewTypes[t.name].spec, a.value, a.intOnly)>>
      ELSE IF StructLike(t, a.value) /\ ~a.intOnly
      THEN [i \in 1..Len(MembersOf(t)) |-> Arg(MembersOf(t)[i], a.value.members[i], FALSE)]
      ELSE <<>>

\* What it returns, given what they returned.
Returned(a, outs) ==
  LET t == Specs[a.spec]
  IN  CASE Renames(t) -> outs[1]
        [] t.type = "newType" /\ ~Renames(t) ->
             IF t.name \in DOMAIN NewTypes THEN Translated(NewTypes[t.name], a.value, a.intOnly) ELSE Bad
        [] t.type \in {"tuple", "struct"} ->
             Checked(StructLike(t, a.value) /\ ~a.intOnly, [a.value EXCEPT !.members = outs])
        [] OTHER ->
             IF a.intOnly /\ t.type \notin {"bit", "int", "varbit"} THEN Bad
             ELSE Scalar(t, a.value, a.intOnly)

\* An error ends every call, and their deferred deletions take off every mark.
Fail == result' = Bad /\ calls' = <<>> /\ active' = {}

Normalize(a) ==
  /\ IF Specs[a.spec].type = "missing" \/ a.value.kind = "missing" \/ a.spec \in active THEN Fail
     ELSE /\ calls' = Append(calls, [arg |-> a, outs |-> <<>>])
          /\ active' = active \cup {a.spec} /\ UNCHANGED result
  /\ UNCHANGED <<root, data, integerOnly>>

Begin == result = Pending /\ calls = <<>> /\ Normalize(Arg(root, data, integerOnly))

Top == calls[Len(calls)]

Descend ==
  /\ calls # <<>> /\ Len(Top.outs) < Len(Nested(Top.arg))
  /\ Normalize(Nested(Top.arg)[Len(Top.outs) + 1])

\* The deferred deletion.
MutLeave(p) == active
Leave(p) == active \ {p}

\* The caller of the innermost call gets its result.
Answer(out) ==
  LET callers == SubSeq(calls, 1, Len(calls) - 1)
  IN  IF callers = <<>> THEN calls' = <<>> /\ result' = out
      ELSE /\ calls' = [callers EXCEPT ![Len(callers)].outs = Append(@, out)]
           /\ UNCHANGED result

Return ==
  /\ calls # <<>> /\ Len(Top.outs) = Len(Nested(Top.arg))
  /\ LET out == Returned(Top.arg, Top.outs)
     IN  IF out = Bad THEN Fail ELSE Answer(out) /\ active' = Leave(Top.arg.spec)
  /\ UNCHANGED <<root, data, integerOnly>>

\* Write makes a bitstring of its bytes.
DataInit ==
  /\ root \in DOMAIN Specs /\ data \in Values
  /\ integerOnly \in BOOLEAN /\ (integerOnly => data.kind = "bitstring")
  /\ calls = <<>> /\ active = {} /\ result = Pending

DataNext == Begin \/ Descend \/ Return

DataSpec == DataInit /\ [][DataNext]_rvars

-----------------------------------------------------------------------------
(* Properties. The types of values are given by rules, with no marks; with  *)
(* a value that has its type goes the value of the same numbers in their    *)
(* shortest form.                                                           *)

IsUnsigned(bytes, w) == w >= 0 /\ ValueOf(bytes) < Pow2[w]
IsSigned(bytes, w) ==
  w > 0 /\ -Pow2[w - 1] <= SignedOf(bytes) /\ SignedOf(bytes) < Pow2[w - 1]

IsBits(t, b) ==
  \/ t.type = "bit" /\ IsUnsigned(b, t.width)
  \/ t.type = "int" /\ IsSigned(b, t.width)
BitsForm(t, b, c) ==
  IF t.type = "int"
  THEN /\ c # <<>> /\ SignedOf(c) = SignedOf(b)
       /\ \A i \in 2..Len(c) : SignedOf(SubSeq(c, i, Len(c))) # SignedOf(b)
  ELSE CanonicalOf(c, ValueOf(b))

IsHeader(name, v) ==
  /\ name \in DOMAIN Headers /\ v.kind = "header"
  /\ IF v.valid
     THEN /\ Len(v.fields) = Len(Headers[name])
          /\ \A i \in 1..Len(v.fields) : IsBits(Headers[name][i], v.fields[i])
     ELSE v.fields = <<>>
HeaderForm(name, v, w) ==
  /\ w.kind = "header" /\ w.valid = v.valid /\ Len(w.fields) = Len(v.fields)
  /\ \A i \in 1..Len(v.fields) : BitsForm(Headers[name][i], v.fields[i], w.fields[i])

\* The member of a union that has the name of the valid header; the first of them.
Member(name, v, i) ==
  /\ Unions[name][i].name = v.name
  /\ \A j \in 1..i - 1 : Unions[name][j].name # v.name

IsUnion(name, v) ==
  /\ name \in DOMAIN Unions /\ v.kind = "headerUnion"
  /\ IF v.name = "" THEN v.header.kind = "missing"
     ELSE /\ v.header.kind = "header" /\ v.header.valid
          /\ \E i \in 1..Len(Unions[name]) :
               Member(name, v, i) /\ IsHeader(Unions[name][i].header, v.header)
UnionForm(name, v, w) ==
  /\ w.kind = "headerUnion" /\ w.name = v.name
  /\ IF v.name = "" THEN w.header = v.header
     ELSE \A i \in 1..Len(Unions[name]) :
            Member(name, v, i) => HeaderForm(Unions[name][i].header, v.header, w.header)

IsScalar(t, v, intOnly) ==
  CASE t.type \in {"bit", "int"} -> v.kind = "bitstring" /\ IsBits(t, v.bytes)
    [] t.type = "varbit" -> /\ v.kind = "varbit" /\ v.width \in 0..t.width /\ ~intOnly
                            /\ IsUnsigned(v.bytes, v.width) /\ Len(v.bytes) = ByteLen(v.width)
    [] t.type = "bool" -> v.kind = "bool"
    [] t.type = "header" -> IsHeader(t.name, v)
    [] t.type = "headerUnion" -> IsUnion(t.name, v)
    [] t.type = "headerStack" ->
         /\ t.name \in DOMAIN Headers /\ v.kind = "headerStack" /\ Len(v.entries) = t.size
         /\ \A i \in 1..Len(v.entries) : IsHeader(t.name, v.entries[i])
    [] t.type = "headerUnionStack" ->
         /\ t.name \in DOMAIN Unions /\ v.kind = "headerUnionStack" /\ Len(v.entries) = t.size
         /\ \A i \in 1..Len(v.entries) : IsUnion(t.name, v.entries[i])
    [] t.type = "enum" -> t.name \in DOMAIN Enums /\ v.kind = "enum" /\ v.member \in Enums[t.name] \ {""}
    [] t.type = "error" -> v.kind = "error" /\ v.member \in Errors \ {""}
    [] t.type = "serializableEnum" ->
         t.name \in DOMAIN SerEnums /\ v.kind = "enumValue" /\ IsUnsigned(v.bytes, SerEnums[t.name])
    [] OTHER -> FALSE
ScalarForm(t, v, w) ==
  CASE t.type \in {"bit", "int"} -> w.kind = "bitstring" /\ BitsForm(t, v.bytes, w.bytes)
    [] t.type = "header" -> HeaderForm(t.name, v, w)
    [] t.type = "headerUnion" -> UnionForm(t.name, v, w)
    [] t.type = "headerStack" ->
         /\ w.kind = "headerStack" /\ Len(w.entries) = Len(v.entries)
         /\ \A i \in 1..Len(v.entries) : HeaderForm(t.name, v.entries[i], w.entries[i])
    [] t.type = "headerUnionStack" ->
         /\ w.kind = "headerUnionStack" /\ Len(w.entries) = Len(v.entries)
         /\ \A i \in 1..Len(v.entries) : UnionForm(t.name, v.entries[i], w.entries[i])
    [] t.type = "serializableEnum" -> w.kind = "enumValue" /\ CanonicalOf(w.bytes, ValueOf(v.bytes))
    [] OTHER -> w = v

IsTranslated(t, v, intOnly) ==
  /\ v.kind = "bitstring"
  /\ \/ t.rep = "sdnString" /\ ~intOnly
     \/ t.rep = "sdnBitwidth" /\ t.width > 0 /\ IsUnsigned(v.bytes, t.width)
TranslatedForm(t, v, w) ==
  IF t.rep = "sdnString" THEN w = v
  ELSE w.kind = "bitstring" /\ CanonicalOf(w.bytes, ValueOf(v.bytes))

\* In place of a form when only the type is asked for.
AnyForm == [kind |-> "any"]

\* The argument's value has its type and the form w, if T says so of the values
\* that are its members, and if they are numbers where only those are allowed.
Rule(a, w, T) ==
  LET t == Specs[a.spec]
      v == a.value
  IN  \/ Renames(t) /\ <<Arg(NewTypes[t.name].spec, v, a.intOnly), w>> \in T
      \/ /\ t.type = "newType" /\ t.name \in DOMAIN NewTypes
         /\ IsTranslated(NewTypes[t.name], v, a.intOnly)
         /\ w = AnyForm \/ TranslatedForm(NewTypes[t.name], v, w)
      \/ /\ StructLike(t, v) /\ ~a.intOnly
         /\ w = AnyForm \/ (w.kind = v.kind /\ Len(w.members) = Len(v.members))
         /\ \A i \in 1..Len(v.members) :
              <<Arg(MembersOf(t)[i], v.members[i], FALSE), IF w = AnyForm THEN AnyForm ELSE w.members[i]>> \in T
      \/ /\ IsScalar(t, v, a.intOnly) /\ (a.intOnly => t.type \in {"bit", "int"})
         /\ w = AnyForm \/ ScalarForm(t, v, w)

\* What n applications of the rule show. A value is nested MaxDepth times, and
\* between two levels there are no more new types than pointers.
Args == [spec : DOMAIN Specs, value : Trees[MaxDepth], intOnly : BOOLEAN]
Forms[n \in Nat] ==
  IF n = 0 THEN {}
  ELSE {x \in Args \X (Trees[MaxDepth] \cup {AnyForm}) : Rule(x[1], x[2], Forms[n - 1])}
HasForm(a, w) == <<a, w>> \in Forms[(MaxDepth + 1) * Cardinality(DOMAIN Specs)]

\* WriteData accepts a value exactly when it is one of the register's type, and
\* Write when that type is also an integer's: the marks against recursive types
\* refuse no value that has its type, however often a type is shared, and bound
\* the depth of the calls. What is sent has the numbers that were given, in their
\* shortest form, and normalizing it again changes nothing.
NormalizeExact ==
  LET asked == Arg(root, data, integerOnly)
  IN  /\ Len(calls) <= Cardinality(DOMAIN Specs)
      /\ result = Bad => ~HasForm(asked, AnyForm)
      /\ result \notin {Pending, Bad} =>
           HasForm(asked, result) /\ HasForm(Arg(root, result, integerOnly), result)
=============================================================================

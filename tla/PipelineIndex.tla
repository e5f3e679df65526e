--------------------------- MODULE PipelineIndex ---------------------------
(***************************************************************************)
(* pipeline/pipeline.go and copy.go: a P4Info is indexed by name, alias    *)
(* and ID, and lookups give callers definitions they may change.           *)
(*                                                                         *)
(* Definitions and their members are objects behind pointers, so what is   *)
(* shared is explicit: the heap maps an address to an object. An address   *)
(* names who allocated the object (the Pipeline or a caller's lookup) and  *)
(* which declaration of the P4Info it was made from. A caller that looks   *)
(* something up again drops what it had. The scalar fields of a definition *)
(* or member that are no keys (Bitwidth, Size, Unit, Scope...) are "data". *)
(***************************************************************************)
EXTENDS Naturals, Sequences, FiniteSetsExt, Functions

CONSTANTS
  Callers,    \* goroutines that use the Pipeline
  Pipe,       \* allocated by New
  Infos,      \* the P4Info messages New may be given
  Names, IDs, \* keys of declarations, and those that lookups try
  NoAlias,    \* the empty string
  Edited      \* what a caller writes over data

Kinds == {"action", "table", "counter", "directCounter", "meter", "directMeter",
          "register", "digest", "packetMetadata"}
Aliased == Kinds \ {"directCounter", "directMeter", "packetMetadata"}
Direct == {"directCounter", "directMeter"}

\* Kinds with a lookup by ID.
ByIDKinds == {"table", "action", "counter", "digest", "packetMetadata"}

\* A member is a match field, an action parameter or a metadata field; a ref is
\* an action reference of a table.
Parts == {"def", "member", "ref"}

IsList(s) == Len(s) \in Nat /\ s = [i \in 1..Len(s) |-> s[i]]

ASSUME PipelineAssumption ==
  /\ Pipe \notin Callers
  /\ \A m \in Infos : \A k \in Kinds :
       /\ IsList(m.decls[k])
       /\ \A i \in DOMAIN m.decls[k] :
            LET d == m.decls[k][i]
            IN  /\ d.id \in IDs /\ d.name \in Names \cup {NoAlias} /\ d.alias \in Names \cup {NoAlias}
                /\ IsList(d.members) /\ IsList(d.refs)

\* A message with nothing in it.
Cleared == [sound |-> TRUE, decls |-> [k \in Kinds |-> <<>>]]

VARIABLES
  message,   \* the loader's P4Info, which New is given
  info,      \* the Pipeline's own copy of it
  result,    \* of New
  heap,      \* address -> object
  index,     \* the maps: <<kind, "name" or "id", key>> -> address
  held       \* the addresses of the definitions a caller was given

vars == <<message, info, result, heap, index, held>>

Addr(owner, nth, k, i, part, j) ==
  [owner |-> owner, nth |-> nth, kind |-> k, decl |-> i, part |-> part, pos |-> j]

\* A map filled from a list: a later entry replaces an earlier one of its key.
Keyed(keys, addrs) ==
  [x \in Range(keys) |-> addrs[Max({j \in DOMAIN keys : keys[j] = x})]]

Fields(seq, field) == [j \in DOMAIN seq |-> seq[j][field]]

-----------------------------------------------------------------------------
(* New and index *)

\* The declarations of kind k that write the entry of a name or of an ID.
MutWrites(decls, k, by, x) ==
  {i \in DOMAIN decls[k] :
     IF by = "id" THEN decls[k][i].id = x
     ELSE decls[k][i].name = x \/ (k \in Aliased /\ decls[k][i].alias = x)}
Writes(decls, k, by, x) ==
  {i \in DOMAIN decls[k] :
     IF by = "id" THEN decls[k][i].id = x
     ELSE \/ decls[k][i].name = x
          \/ k \in Aliased /\ decls[k][i].alias = x /\ x # NoAlias}

KeySet == Kinds \X {"name"} \X (Names \cup {NoAlias}) \cup Kinds \X {"id"} \X IDs

IndexOf(decls) ==
  [key \in {q \in KeySet : Writes(decls, q[1], q[2], q[3]) # {}} |->
     Addr(Pipe, 0, key[1], Max(Writes(decls, key[1], key[2], key[3])), "def", 0)]

\* The name of the table a direct resource belongs to, if there is one.
DirectTableName(decls, d) ==
  LET tables == Writes(decls, "table", "id", d.direct)
  IN  IF tables = {} THEN NoAlias ELSE decls["table"][Max(tables)].name

PartAddrs(k, i, part, seq) == [j \in DOMAIN seq |-> Addr(Pipe, 0, k, i, part, j)]

DefOf(decls, k, i) ==
  LET d == decls[k][i]
      members == PartAddrs(k, i, "member", d.members)
  IN  [id |-> d.id, name |-> d.name, data |-> d.data,
       table |-> IF k \in Direct THEN DirectTableName(decls, d) ELSE NoAlias,
       members |-> members, refs |-> PartAddrs(k, i, "ref", d.refs),
       byName |-> Keyed(Fields(d.members, "name"), members),
       byID |-> Keyed(Fields(d.members, "id"), members)]

\* The objects index() allocates: the definitions and their parts.
PipeAddrs(decls) ==
  UNION {UNION {{Addr(Pipe, 0, k, i, "def", 0)}
                  \cup Range(PartAddrs(k, i, "member", decls[k][i].members))
                  \cup Range(PartAddrs(k, i, "ref", decls[k][i].refs))
                : i \in DOMAIN decls[k]} : k \in Kinds}

ObjectOf(decls, a) ==
  LET d == decls[a.kind][a.decl]
  IN  CASE a.part = "def" -> DefOf(decls, a.kind, a.decl)
        [] a.part = "member" -> d.members[a.pos]
        [] a.part = "ref" -> d.refs[a.pos]

IndexInit ==
  /\ info = Cleared /\ result = "none" /\ heap = <<>> /\ index = <<>>
  /\ held = [c \in Callers |-> <<>>]

Init == IndexInit /\ message \in Infos

\* New refuses a message whose graph is unsound, copies the others and indexes
\* its own copy.
New ==
  /\ result = "none" /\ message.sound
  /\ info' = message /\ result' = "ok"
  /\ heap' = [a \in PipeAddrs(message.decls) |-> ObjectOf(message.decls, a)]
  /\ index' = IndexOf(message.decls)
  /\ UNCHANGED <<message, held>>

NewFails ==
  /\ result = "none" /\ ~message.sound
  /\ result' = "error" /\ UNCHANGED <<message, info, heap, index, held>>

\* The loader goes on using its message.
EditMessage ==
  /\ result # "none" /\ message' = Cleared
  /\ UNCHANGED <<info, result, heap, index, held>>

-----------------------------------------------------------------------------
(* Lookups *)

\* The address of the copy of x in the n-th definition given to c.
CopyAddr(c, n, x) == [x EXCEPT !.owner = c, !.nth = n]
CopyAddrs(c, n, seq) == [j \in DOMAIN seq |-> CopyAddr(c, n, seq[j])]

Values(seq) == [j \in DOMAIN seq |-> heap[seq[j]]]

\* clone: new parts, and maps filled from the new parts.
MutClone(c, n, d) ==
  [d EXCEPT !.members = CopyAddrs(c, n, d.members), !.refs = CopyAddrs(c, n, d.refs)]
Clone(c, n, d) ==
  LET members == CopyAddrs(c, n, d.members)
  IN  [d EXCEPT !.members = members, !.refs = CopyAddrs(c, n, d.refs),
                !.byName = Keyed(Fields(Values(d.members), "name"), members),
                !.byID = Keyed(Fields(Values(d.members), "id"), members)]

\* A definition and its parts.
Cells(a) == {a} \cup Range(heap[a].members) \cup Range(heap[a].refs)

\* The copies of the Pipeline's definitions at the addresses defs are given to
\* c, which drops what it had.
GiveCopies(c, defs) ==
  LET copied == UNION {{CopyAddr(c, n, x) : x \in Cells(defs[n])} : n \in DOMAIN defs}
      kept == {x \in DOMAIN heap : x.owner # c}
      origin(x) == heap[CopyAddr(Pipe, 0, x)]
  IN  /\ heap' = [x \in kept \cup copied |->
                    IF x.owner # c THEN heap[x]
                    ELSE IF x.part = "def" THEN Clone(c, x.nth, origin(x)) ELSE origin(x)]
      /\ held' = [held EXCEPT ![c] = [n \in DOMAIN defs |-> CopyAddr(c, n, defs[n])]]
      /\ UNCHANGED <<message, info, result, index>>

Lookups == {key \in KeySet : key[2] = "id" => key[1] \in ByIDKinds}

Lookup(c, key) ==
  /\ result = "ok"
  /\ GiveCopies(c, IF key \in DOMAIN index THEN <<index[key]>> ELSE <<>>)

\* Tables: in the order of the P4Info, each found by its ID. The loop skips an
\* ID that is not in the index; the ID of a declared table always is.
TableAddrs ==
  [i \in DOMAIN info.decls["table"] |-> index[<<"table", "id", info.decls["table"][i].id>>]]

Tables(c) == result = "ok" /\ GiveCopies(c, TableAddrs)

\* A caller writes to a definition it holds or to a part of one, reached
\* through the lists or through the accessors by name and ID.
Reached(a) == Cells(a) \cup Range(heap[a].byName) \cup Range(heap[a].byID)

Edit(c) ==
  /\ \E n \in DOMAIN held[c] : \E x \in Reached(held[c][n]) :
       heap' = [heap EXCEPT ![x].data = Edited]
  /\ UNCHANGED <<message, info, result, index, held>>

Next ==
  \/ New \/ NewFails \/ EditMessage
  \/ \E c \in Callers : Tables(c) \/ Edit(c) \/ \E key \in Lookups : Lookup(c, key)

Spec == Init /\ [][Next]_vars

-----------------------------------------------------------------------------
(* Properties *)

\* What a definition shows to whoever holds its address; an accessor's result
\* that is no member of the list has position 0.
Position(addrs, x) ==
  IF x \in Range(addrs) THEN CHOOSE j \in DOMAIN addrs : addrs[j] = x ELSE 0

Shown(a) ==
  LET d == heap[a]
  IN  [id |-> d.id, name |-> d.name, data |-> d.data, table |-> d.table,
       members |-> Values(d.members), refs |-> Values(d.refs),
       byName |-> [x \in DOMAIN d.byName |-> Position(d.members, d.byName[x])],
       byID |-> [x \in DOMAIN d.byID |-> Position(d.members, d.byID[x])]]

ShownCatalog ==
  [find |-> [key \in DOMAIN index |-> Shown(index[key])],
   tables |-> IF result = "ok" THEN [i \in DOMAIN TableAddrs |-> Shown(TableAddrs[i])]
              ELSE <<>>]

Copies ==
  INSTANCE Catalog WITH
    published <- (result = "ok"),
    catalog <- ShownCatalog,
    copies <- [c \in Callers |-> [n \in DOMAIN held[c] |-> Shown(held[c][n])]]

\* A Pipeline behaves like an immutable value and hands out values: whatever
\* callers write through the lists and accessors of their definitions, and the
\* loader to its message, changes nothing but their own, and in every copy the
\* accessors by name and by ID reach the entries of its own lists.
ValueSemantics == Copies!Spec

\* The names and IDs of a kind are distinct, as P4Info asks.
Distinct(decls, k) ==
  \A i, j \in DOMAIN decls[k] :
    LET names(d) == {d.name} \cup (IF d.alias = NoAlias THEN {} ELSE {d.alias})
    IN  i # j => /\ decls[k][i].id # decls[k][j].id
                 /\ names(decls[k][i]) \cap names(decls[k][j]) = {}

\* The object at a is the declaration d, with its accessors reaching each member
\* under its name and ID.
Declares(a, d) ==
  LET s == Shown(a)
  IN  /\ s.id = d.id /\ s.name = d.name /\ s.data = d.data
      /\ s.members = d.members /\ s.refs = d.refs
      /\ \A j \in DOMAIN d.members :
           LET m == d.members[j]
           IN  /\ s.members[s.byName[m.name]].name = m.name
               /\ s.members[s.byID[m.id]].id = m.id

\* The keys of a declaration of kind k.
KeysOf(k, d) ==
  {<<k, "name", d.name>>, <<k, "id", d.id>>}
    \cup (IF k \in Aliased /\ d.alias # NoAlias THEN {<<k, "name", d.alias>>} ELSE {})

\* The keys that are found are those of the declarations, the empty name being
\* one only where it is declared. Whatever keys collide, a key finds a
\* declaration of its kind that has this key; where the keys of a kind are
\* distinct it finds the one that has it, and a direct resource names the table
\* it belongs to.
IndexFaithful ==
  result = "ok" =>
    /\ \A k \in Kinds :
         {key \in DOMAIN index : key[1] = k} = UNION {KeysOf(k, d) : d \in Range(info.decls[k])}
    /\ \A key \in DOMAIN index : \E d \in Range(info.decls[key[1]]) :
         key \in KeysOf(key[1], d) /\ Declares(index[key], d)
    /\ \A k \in {x \in Kinds : Distinct(info.decls, x)} :
         \A d \in Range(info.decls[k]) : \A key \in KeysOf(k, d) :
           /\ Declares(index[key], d)
           /\ k \in Direct => \A table \in Range(info.decls["table"]) :
                d.direct = table.id /\ Distinct(info.decls, "table")
                  => heap[index[key]].table = table.name
=============================================================================

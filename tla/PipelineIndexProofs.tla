------------------------ MODULE PipelineIndexProofs ------------------------
(***************************************************************************)
(* Proofs about the index of a Pipeline, for any P4Info messages, any      *)
(* number of callers and whatever they write: lookups find what is         *)
(* declared, and the Pipeline with its pointers implements the Catalog,    *)
(* which has none. And about the search that New makes of a P4Info before  *)
(* it clones it, for any finite graph of messages: it accepts exactly the  *)
(* sound ones.                                                             *)
(***************************************************************************)
EXTENDS PipelineIndex, MessageGraph, FiniteSetTheorems, WellFoundedInduction, TLAPS

DefFields == {"id", "name", "data", "table", "members", "refs", "byName", "byID"}

\* x is the j-th part of the n-th definition that o allocated.
PartOf(x, o, n, part, j) ==
  x \in DOMAIN heap /\ x.owner = o /\ x.nth = n /\ x.part = part /\ x.pos = j

\* The definition at a and everything reached from it is o's own.
Own(a, o, n) ==
  /\ a \in DOMAIN heap /\ a.owner = o /\ a.nth = n /\ a.part = "def"
  /\ DOMAIN heap[a] = DefFields
  /\ \A j \in DOMAIN heap[a].members : PartOf(heap[a].members[j], o, n, "member", j)
  /\ \A j \in DOMAIN heap[a].refs : PartOf(heap[a].refs[j], o, n, "ref", j)
  /\ Range(heap[a].byName) \subseteq Range(heap[a].members)
  /\ Range(heap[a].byID) \subseteq Range(heap[a].members)

\* New's index and objects are as New made them.
Published ==
  /\ info \in Infos /\ index = IndexOf(info.decls)
  /\ {x \in DOMAIN heap : x.owner = Pipe} = PipeAddrs(info.decls)
  /\ \A a \in PipeAddrs(info.decls) : heap[a] = ObjectOf(info.decls, a)

\* Before New nothing is there; after it a caller reaches its own objects only,
\* so what it writes is no object of the Pipeline.
IndexInv ==
  /\ result \in {"none", "ok", "error"}
  /\ result = "none" => message \in Infos
  /\ result = "ok" => Published
  /\ result # "ok" => DOMAIN index = {} /\ \A c \in Callers : DOMAIN held[c] = {}
  /\ DOMAIN held = Callers
  /\ \A c \in Callers : \A n \in DOMAIN held[c] : Own(held[c][n], c, n)

-----------------------------------------------------------------------------
(* Lists and maps *)

\* A set of positions that is not empty has a last one.
LEMMA LastPosition ==
  ASSUME NEW n \in Nat, NEW S, S \subseteq 1..n, S # {}
  PROVE  Max(S) \in S /\ \A y \in S : Max(S) >= y
<1> DEFINE T == {n - x : x \in S}
<1>0. \A x \in S : x \in Nat /\ x <= n OBVIOUS
<1>1. T \subseteq Nat /\ T # {}
  <2>1. \A x \in S : n - x \in Nat BY <1>0
  <2>2. PICK x \in S : TRUE OBVIOUS
  <2>3. n - x \in T OBVIOUS
  <2>. QED BY <2>1, <2>3
<1>2. PICK t \in T : \A u \in T : ~(<<u, t>> \in OpToRel(<, Nat))
  BY <1>1, NatLessThanWellFounded, WFMin
<1>3. \A u \in T : u \in Nat /\ t \in Nat /\ ~(u < t)
  BY <1>1, <1>2 DEF OpToRel
<1>4. PICK x \in S : t = n - x OBVIOUS
<1>5. \A y \in S : x >= y
  <2> TAKE y \in S
  <2>1. n - y \in T /\ x \in Nat /\ y \in Nat OBVIOUS
  <2>2. ~(n - y < n - x) BY <1>3, <1>4, <2>1
  <2>. QED BY <2>1, <2>2
<1>. QED BY <1>5 DEF Max

\* A map filled from a list has the keys of the list, each with the address of
\* its last place.
LEMMA KeyedFacts ==
  ASSUME NEW n \in Nat, NEW keys, DOMAIN keys = 1..n, NEW addrs
  PROVE  /\ DOMAIN Keyed(keys, addrs) = Range(keys)
         /\ \A x \in Range(keys) :
              LET j == Max({i \in DOMAIN keys : keys[i] = x})
              IN  j \in 1..n /\ keys[j] = x /\ Keyed(keys, addrs)[x] = addrs[j]
<1>1. DOMAIN Keyed(keys, addrs) = Range(keys) BY DEF Keyed
<1>2. ASSUME NEW x \in Range(keys)
      PROVE  LET j == Max({i \in DOMAIN keys : keys[i] = x})
             IN  j \in 1..n /\ keys[j] = x /\ Keyed(keys, addrs)[x] = addrs[j]
  <2> DEFINE P == {i \in DOMAIN keys : keys[i] = x}
  <2>1. P \subseteq 1..n /\ P # {} BY DEF Range
  <2>2. Max(P) \in P BY <2>1, LastPosition
  <2>3. Keyed(keys, addrs)[x] = addrs[Max(P)] BY DEF Keyed
  <2>. QED BY <2>2, <2>3
<1>. QED BY <1>1, <1>2

\* The position of an address that is in a list once.
LEMMA PositionAt ==
  ASSUME NEW addrs, NEW j \in DOMAIN addrs, \A i \in DOMAIN addrs : addrs[i] = addrs[j] => i = j
  PROVE  Position(addrs, addrs[j]) = j
<1>1. addrs[j] \in Range(addrs) BY DEF Range
<1>2. (CHOOSE i \in DOMAIN addrs : addrs[i] = addrs[j]) = j OBVIOUS
<1>. QED BY <1>1, <1>2 DEF Position

-----------------------------------------------------------------------------
(* The objects of the Pipeline *)

LEMMA AddrFields ==
  ASSUME NEW o, NEW n, NEW k, NEW i, NEW part, NEW j
  PROVE  /\ Addr(o, n, k, i, part, j).owner = o /\ Addr(o, n, k, i, part, j).nth = n
         /\ Addr(o, n, k, i, part, j).kind = k /\ Addr(o, n, k, i, part, j).decl = i
         /\ Addr(o, n, k, i, part, j).part = part /\ Addr(o, n, k, i, part, j).pos = j
BY DEF Addr

\* A copy's address leads back to what it was copied from.
LEMMA CopyFields ==
  ASSUME NEW o, NEW n, NEW k, NEW i, NEW part, NEW j, NEW c, NEW m
  PROVE  CopyAddr(c, m, Addr(o, n, k, i, part, j)) = Addr(c, m, k, i, part, j)
<1>1. [Addr(o, n, k, i, part, j) EXCEPT !.owner = c] = Addr(c, n, k, i, part, j) BY DEF Addr
<1>2. [Addr(c, n, k, i, part, j) EXCEPT !.nth = m] = Addr(c, m, k, i, part, j) BY DEF Addr
<1>3. CopyAddr(c, m, Addr(o, n, k, i, part, j))
      = [[Addr(o, n, k, i, part, j) EXCEPT !.owner = c] EXCEPT !.nth = m]
  BY DEF CopyAddr, Addr
<1>. QED BY <1>1, <1>2, <1>3

\* What index() allocates.
LEMMA PipeAddrsAre ==
  ASSUME NEW decls, NEW a
  PROVE  a \in PipeAddrs(decls) <=>
           \E k \in Kinds : \E i \in DOMAIN decls[k] :
             \/ a = Addr(Pipe, 0, k, i, "def", 0)
             \/ \E j \in DOMAIN decls[k][i].members : a = Addr(Pipe, 0, k, i, "member", j)
             \/ \E j \in DOMAIN decls[k][i].refs : a = Addr(Pipe, 0, k, i, "ref", j)
<1> DEFINE Of(k, i) == {Addr(Pipe, 0, k, i, "def", 0)}
                         \cup Range(PartAddrs(k, i, "member", decls[k][i].members))
                         \cup Range(PartAddrs(k, i, "ref", decls[k][i].refs))
<1>1. \A k, i, part, s : Range(PartAddrs(k, i, part, s)) = {Addr(Pipe, 0, k, i, part, j) : j \in DOMAIN s}
  BY DEF PartAddrs, Range
<1>2. ASSUME NEW k, NEW i
      PROVE  a \in Of(k, i) <=>
               \/ a = Addr(Pipe, 0, k, i, "def", 0)
               \/ \E j \in DOMAIN decls[k][i].members : a = Addr(Pipe, 0, k, i, "member", j)
               \/ \E j \in DOMAIN decls[k][i].refs : a = Addr(Pipe, 0, k, i, "ref", j)
  BY <1>1
<1>3. a \in PipeAddrs(decls) <=> \E k \in Kinds : \E i \in DOMAIN decls[k] : a \in Of(k, i)
  <2>1. PipeAddrs(decls) = UNION {UNION {Of(k, i) : i \in DOMAIN decls[k]} : k \in Kinds}
    BY DEF PipeAddrs
  <2> HIDE DEF Of
  <2>. QED BY <2>1
<1> HIDE DEF Of
<1>. QED BY <1>2, <1>3

\* The lists of a message of Infos, and the keys of its declarations.
LEMMA InfoLists ==
  ASSUME NEW m \in Infos, NEW k \in Kinds
  PROVE  /\ \E n \in Nat : DOMAIN m.decls[k] = 1..n
         /\ \A i \in DOMAIN m.decls[k] :
              /\ m.decls[k][i].id \in IDs
              /\ m.decls[k][i].name \in Names \cup {NoAlias}
              /\ m.decls[k][i].alias \in Names \cup {NoAlias}
              /\ IsList(m.decls[k][i].members) /\ IsList(m.decls[k][i].refs)
<1>1. IsList(m.decls[k]) BY PipelineAssumption
<1>2. DOMAIN m.decls[k] = 1..Len(m.decls[k]) /\ Len(m.decls[k]) \in Nat BY <1>1 DEF IsList
<1>. QED BY <1>2, PipelineAssumption

LEMMA ListDomain ==
  ASSUME NEW s, IsList(s) PROVE \E n \in Nat : DOMAIN s = 1..n
<1>1. DOMAIN s = 1..Len(s) /\ Len(s) \in Nat BY DEF IsList
<1>. QED BY <1>1

\* The last of the declarations that write an entry of the index.
LEMMA LastWriter ==
  ASSUME NEW m \in Infos, NEW k \in Kinds, NEW by, NEW x, Writes(m.decls, k, by, x) # {}
  PROVE  /\ Max(Writes(m.decls, k, by, x)) \in Writes(m.decls, k, by, x)
         /\ Max(Writes(m.decls, k, by, x)) \in DOMAIN m.decls[k]
<1>1. PICK n \in Nat : DOMAIN m.decls[k] = 1..n BY InfoLists
<1>2. Writes(m.decls, k, by, x) \subseteq 1..n BY <1>1 DEF Writes
<1>3. Max(Writes(m.decls, k, by, x)) \in Writes(m.decls, k, by, x) BY <1>2, LastPosition
<1>. QED BY <1>1, <1>2, <1>3

\* A definition as index() builds it.
LEMMA DefParts ==
  ASSUME NEW m \in Infos, NEW k \in Kinds, NEW i \in DOMAIN m.decls[k]
  PROVE  LET d == m.decls[k][i]
             o == DefOf(m.decls, k, i)
             ms == [j \in DOMAIN d.members |-> Addr(Pipe, 0, k, i, "member", j)]
         IN  /\ DOMAIN o = DefFields /\ o.id = d.id /\ o.name = d.name /\ o.data = d.data
             /\ o.members = ms
             /\ o.refs = [j \in DOMAIN d.refs |-> Addr(Pipe, 0, k, i, "ref", j)]
             /\ o.byName = Keyed(Fields(d.members, "name"), ms)
             /\ o.byID = Keyed(Fields(d.members, "id"), ms)
             /\ k \in Direct => o.table = DirectTableName(m.decls, d)
BY DEF DefOf, PartAddrs, DefFields

\* The objects of a declaration hold it, and are the Pipeline's own.
LEMMA PipeObjects ==
  ASSUME Published, NEW k \in Kinds, NEW i \in DOMAIN info.decls[k]
  PROVE  LET d == info.decls[k][i]
             a == Addr(Pipe, 0, k, i, "def", 0)
         IN  /\ heap[a] = DefOf(info.decls, k, i)
             /\ \A j \in DOMAIN d.members : heap[Addr(Pipe, 0, k, i, "member", j)] = d.members[j]
             /\ \A j \in DOMAIN d.refs : heap[Addr(Pipe, 0, k, i, "ref", j)] = d.refs[j]
             /\ Own(a, Pipe, 0)
<1> DEFINE d == info.decls[k][i]
           a == Addr(Pipe, 0, k, i, "def", 0)
<1>1. a \in DOMAIN heap /\ heap[a] = DefOf(info.decls, k, i)
  <2>1. a \in PipeAddrs(info.decls) BY PipeAddrsAre
  <2>2. ObjectOf(info.decls, a) = DefOf(info.decls, k, i) BY AddrFields DEF ObjectOf
  <2>. QED BY <2>1, <2>2 DEF Published
<1>2. ASSUME NEW j \in DOMAIN d.members
      PROVE  LET x == Addr(Pipe, 0, k, i, "member", j)
             IN  x \in DOMAIN heap /\ heap[x] = d.members[j]
  <2> DEFINE x == Addr(Pipe, 0, k, i, "member", j)
  <2>1. x \in PipeAddrs(info.decls) BY PipeAddrsAre
  <2>2. ObjectOf(info.decls, x) = d.members[j] BY AddrFields DEF ObjectOf
  <2>. QED BY <2>1, <2>2 DEF Published
<1>3. ASSUME NEW j \in DOMAIN d.refs
      PROVE  LET x == Addr(Pipe, 0, k, i, "ref", j)
             IN  x \in DOMAIN heap /\ heap[x] = d.refs[j]
  <2> DEFINE x == Addr(Pipe, 0, k, i, "ref", j)
  <2>1. x \in PipeAddrs(info.decls) BY PipeAddrsAre
  <2>2. ObjectOf(info.decls, x) = d.refs[j] BY AddrFields DEF ObjectOf
  <2>. QED BY <2>1, <2>2 DEF Published
<1>4. info \in Infos BY DEF Published
<1>5. /\ DOMAIN heap[a] = DefFields
      /\ heap[a].members = [j \in DOMAIN d.members |-> Addr(Pipe, 0, k, i, "member", j)]
      /\ heap[a].refs = [j \in DOMAIN d.refs |-> Addr(Pipe, 0, k, i, "ref", j)]
      /\ heap[a].byName = Keyed(Fields(d.members, "name"), heap[a].members)
      /\ heap[a].byID = Keyed(Fields(d.members, "id"), heap[a].members)
  BY <1>1, <1>4, DefParts
<1>6. ASSUME NEW f
      PROVE  Range(Keyed(Fields(d.members, f), heap[a].members)) \subseteq Range(heap[a].members)
  <2>1. PICK n \in Nat : DOMAIN d.members = 1..n BY <1>4, InfoLists, ListDomain
  <2> DEFINE keys == Fields(d.members, f)
  <2>2. DOMAIN keys = 1..n BY <2>1 DEF Fields
  <2>3. DOMAIN heap[a].members = 1..n BY <1>5, <2>1
  <2> HIDE DEF keys
  <2>4. \A x \in DOMAIN Keyed(keys, heap[a].members) :
          \E j \in 1..n : Keyed(keys, heap[a].members)[x] = heap[a].members[j]
    <3> DEFINE M == heap[a].members
    <3> HIDE DEF M
    <3>1. DOMAIN Keyed(keys, M) = Range(keys) BY <2>2, KeyedFacts
    <3>2. \A x \in Range(keys) :
            LET j == Max({h \in DOMAIN keys : keys[h] = x})
            IN  j \in 1..n /\ keys[j] = x /\ Keyed(keys, M)[x] = M[j]
      BY <2>2, KeyedFacts
    <3>. QED BY <3>1, <3>2 DEF M
  <2>5. Range(Keyed(keys, heap[a].members)) \subseteq Range(heap[a].members)
    BY <2>3, <2>4 DEF Range
  <2>. QED BY <2>5 DEF keys
<1>7. Own(a, Pipe, 0)
  <2>1. a.owner = Pipe /\ a.nth = 0 /\ a.part = "def" BY AddrFields
  <2>2. \A j \in DOMAIN heap[a].members : PartOf(heap[a].members[j], Pipe, 0, "member", j)
    BY <1>2, <1>5, AddrFields DEF PartOf
  <2>3. \A j \in DOMAIN heap[a].refs : PartOf(heap[a].refs[j], Pipe, 0, "ref", j)
    BY <1>3, <1>5, AddrFields DEF PartOf
  <2>4. /\ Range(heap[a].byName) \subseteq Range(heap[a].members)
        /\ Range(heap[a].byID) \subseteq Range(heap[a].members)
    BY <1>5, <1>6
  <2> HIDE DEF a
  <2>. QED BY <1>1, <1>5, <2>1, <2>2, <2>3, <2>4 DEF Own
<1>. QED BY <1>1, <1>2, <1>3, <1>7

\* An entry of the index is the definition of a declaration with its key.
LEMMA IndexEntry ==
  ASSUME Published, NEW key \in DOMAIN index
  PROVE  LET w == Writes(info.decls, key[1], key[2], key[3])
         IN  /\ key \in KeySet /\ key[1] \in Kinds /\ w # {} /\ Max(w) \in w
             /\ Max(w) \in DOMAIN info.decls[key[1]]
             /\ index[key] = Addr(Pipe, 0, key[1], Max(w), "def", 0)
<1>1. /\ key \in KeySet /\ Writes(info.decls, key[1], key[2], key[3]) # {}
      /\ index[key] = Addr(Pipe, 0, key[1], Max(Writes(info.decls, key[1], key[2], key[3])), "def", 0)
  BY DEF Published, IndexOf
<1>2. key[1] \in Kinds BY <1>1 DEF KeySet
<1>3. info \in Infos BY DEF Published
<1>. QED BY <1>1, <1>2, <1>3, LastWriter

\* The loop of Tables finds every table of the P4Info.
LEMMA TablesFound ==
  ASSUME Published, NEW i \in DOMAIN info.decls["table"]
  PROVE  <<"table", "id", info.decls["table"][i].id>> \in DOMAIN index
<1> DEFINE x == info.decls["table"][i].id
<1>1. "table" \in Kinds /\ info \in Infos BY DEF Kinds, Published
<1>2. x \in IDs BY <1>1, InfoLists
<1>3. <<"table", "id", x>> \in KeySet BY <1>1, <1>2 DEF KeySet
<1>4. i \in Writes(info.decls, "table", "id", x) BY DEF Writes
<1> HIDE DEF x
<1>5. Writes(info.decls, <<"table", "id", x>>[1], <<"table", "id", x>>[2], <<"table", "id", x>>[3]) # {}
  BY <1>4
<1>. QED BY <1>3, <1>5 DEF Published, IndexOf, x

-----------------------------------------------------------------------------
(* Copies *)

LEMMA CloneParts ==
  ASSUME NEW c, NEW n, NEW d, DOMAIN d = DefFields
  PROVE  LET e == Clone(c, n, d)
             ms == CopyAddrs(c, n, d.members)
         IN  /\ DOMAIN e = DefFields /\ e.members = ms /\ e.refs = CopyAddrs(c, n, d.refs)
             /\ e.byName = Keyed(Fields(Values(d.members), "name"), ms)
             /\ e.byID = Keyed(Fields(Values(d.members), "id"), ms)
             /\ e.id = d.id /\ e.name = d.name /\ e.data = d.data /\ e.table = d.table
BY DEF Clone, DefFields

\* The address of a definition of the Pipeline.
IsDef(a) == \E k \in Kinds : \E i \in DOMAIN info.decls[k] : a = Addr(Pipe, 0, k, i, "def", 0)

\* What GiveCopies leaves to others, and the copies it makes.
LEMMA CopiesMade ==
  ASSUME Published, NEW c \in Callers, NEW defs, \A n \in DOMAIN defs : IsDef(defs[n]),
         GiveCopies(c, defs)
  PROVE  /\ \A x \in DOMAIN heap : x.owner # c => x \in DOMAIN heap' /\ heap'[x] = heap[x]
         /\ \A x \in DOMAIN heap' : x.owner # c => x \in DOMAIN heap
         /\ \A n \in DOMAIN defs :
              LET a == CopyAddr(c, n, defs[n])
                  d == heap[defs[n]]
              IN  /\ a \in DOMAIN heap' /\ heap'[a] = Clone(c, n, d)
                  /\ \A j \in DOMAIN d.members :
                       LET x == CopyAddr(c, n, d.members[j])
                       IN  /\ x \in DOMAIN heap' /\ heap'[x] = heap[d.members[j]]
                           /\ x.owner = c /\ x.nth = n /\ x.part = "member" /\ x.pos = j
                  /\ \A j \in DOMAIN d.refs :
                       LET x == CopyAddr(c, n, d.refs[j])
                       IN  /\ x \in DOMAIN heap' /\ heap'[x] = heap[d.refs[j]]
                           /\ x.owner = c /\ x.nth = n /\ x.part = "ref" /\ x.pos = j
<1> DEFINE copied == UNION {{CopyAddr(c, n, x) : x \in Cells(defs[n])} : n \in DOMAIN defs}
           kept == {x \in DOMAIN heap : x.owner # c}
           origin(x) == heap[CopyAddr(Pipe, 0, x)]
           after(x) == IF x.owner # c THEN heap[x]
                       ELSE IF x.part = "def" THEN Clone(c, x.nth, origin(x)) ELSE origin(x)
<1>1. heap' = [x \in kept \cup copied |-> after(x)] BY DEF GiveCopies
<1>2. DOMAIN heap' = kept \cup copied /\ \A x \in kept \cup copied : heap'[x] = after(x)
  <2> HIDE DEF kept, copied, after
  <2>. QED BY <1>1
<1>3. \A n \in DOMAIN defs : \A x \in Cells(defs[n]) :
        \E k, i, part, j : x = Addr(Pipe, 0, k, i, part, j)
  <2> TAKE n \in DOMAIN defs
  <2> TAKE x \in Cells(defs[n])
  <2>0. PICK k \in Kinds : \E i \in DOMAIN info.decls[k] : defs[n] = Addr(Pipe, 0, k, i, "def", 0)
    BY DEF IsDef
  <2>1. PICK i \in DOMAIN info.decls[k] : defs[n] = Addr(Pipe, 0, k, i, "def", 0) BY <2>0
  <2>2. /\ heap[defs[n]] = DefOf(info.decls, k, i) /\ info \in Infos
    BY <2>1, PipeObjects DEF Published
  <2>3. \/ x = defs[n] \/ x \in Range(heap[defs[n]].members) \/ x \in Range(heap[defs[n]].refs)
    BY DEF Cells
  <2>4. /\ \A y \in Range(heap[defs[n]].members) : \E j : y = Addr(Pipe, 0, k, i, "member", j)
        /\ \A y \in Range(heap[defs[n]].refs) : \E j : y = Addr(Pipe, 0, k, i, "ref", j)
    <3>1. /\ heap[defs[n]].members = [j \in DOMAIN info.decls[k][i].members |-> Addr(Pipe, 0, k, i, "member", j)]
          /\ heap[defs[n]].refs = [j \in DOMAIN info.decls[k][i].refs |-> Addr(Pipe, 0, k, i, "ref", j)]
      BY <2>2, DefParts
    <3>. QED BY <3>1 DEF Range
  <2>. QED BY <2>1, <2>3, <2>4
<1>4. \A x \in copied : x.owner = c
  <2> SUFFICES ASSUME NEW n \in DOMAIN defs, NEW y \in Cells(defs[n])
               PROVE  CopyAddr(c, n, y).owner = c
    OBVIOUS
  <2>. QED BY <1>3, CopyFields, AddrFields
<1>5. \A x \in DOMAIN heap : x.owner # c => x \in DOMAIN heap' /\ heap'[x] = heap[x]
  BY <1>2
<1>6. \A x \in DOMAIN heap' : x.owner # c => x \in DOMAIN heap
  <2> HIDE DEF copied
  <2>. QED BY <1>2, <1>4
<1>7. ASSUME NEW n \in DOMAIN defs, NEW y \in Cells(defs[n]),
             NEW k, NEW i, NEW part, NEW j, y = Addr(Pipe, 0, k, i, part, j)
      PROVE  LET x == CopyAddr(c, n, y)
             IN  /\ x \in DOMAIN heap' /\ x.owner = c /\ x.nth = n /\ x.part = part /\ x.pos = j
                 /\ heap'[x] = IF part = "def" THEN Clone(c, n, heap[y]) ELSE heap[y]
  <2> DEFINE x == CopyAddr(c, n, y)
  <2>1. x = Addr(c, n, k, i, part, j) BY <1>7, CopyFields
  <2>2. x.owner = c /\ x.nth = n /\ x.part = part /\ x.pos = j BY <2>1, AddrFields
  <2>3. CopyAddr(Pipe, 0, x) = y BY <1>7, <2>1, CopyFields
  <2>4. x \in copied OBVIOUS
  <2>5. x \in DOMAIN heap' /\ heap'[x] = after(x) BY <1>2, <2>4
  <2> HIDE DEF x
  <2>6. heap'[x] = IF part = "def" THEN Clone(c, n, heap[y]) ELSE heap[y]
    BY <2>2, <2>3, <2>5
  <2>. QED BY <2>2, <2>5, <2>6 DEF x
<1>8. ASSUME NEW n \in DOMAIN defs
      PROVE  LET a == CopyAddr(c, n, defs[n])
                 d == heap[defs[n]]
              IN  /\ a \in DOMAIN heap' /\ heap'[a] = Clone(c, n, d)
                  /\ \A j \in DOMAIN d.members :
                       LET x == CopyAddr(c, n, d.members[j])
                       IN  /\ x \in DOMAIN heap' /\ heap'[x] = heap[d.members[j]]
                           /\ x.owner = c /\ x.nth = n /\ x.part = "member" /\ x.pos = j
                  /\ \A j \in DOMAIN d.refs :
                       LET x == CopyAddr(c, n, d.refs[j])
                       IN  /\ x \in DOMAIN heap' /\ heap'[x] = heap[d.refs[j]]
                           /\ x.owner = c /\ x.nth = n /\ x.part = "ref" /\ x.pos = j
  <2> DEFINE d == heap[defs[n]]
  <2>0. PICK k \in Kinds : \E i \in DOMAIN info.decls[k] : defs[n] = Addr(Pipe, 0, k, i, "def", 0)
    BY DEF IsDef
  <2>1. PICK i \in DOMAIN info.decls[k] : defs[n] = Addr(Pipe, 0, k, i, "def", 0) BY <2>0
  <2>2. d = DefOf(info.decls, k, i) /\ info \in Infos BY <2>1, PipeObjects DEF Published
  <2>3. /\ \A j \in DOMAIN d.members : d.members[j] = Addr(Pipe, 0, k, i, "member", j)
        /\ \A j \in DOMAIN d.refs : d.refs[j] = Addr(Pipe, 0, k, i, "ref", j)
    <3>1. /\ d.members = [j \in DOMAIN info.decls[k][i].members |-> Addr(Pipe, 0, k, i, "member", j)]
          /\ d.refs = [j \in DOMAIN info.decls[k][i].refs |-> Addr(Pipe, 0, k, i, "ref", j)]
      BY <2>2, DefParts
    <3> HIDE DEF d
    <3>. QED BY <3>1
  <2>4. /\ defs[n] \in Cells(defs[n])
        /\ \A j \in DOMAIN d.members : d.members[j] \in Cells(defs[n])
        /\ \A j \in DOMAIN d.refs : d.refs[j] \in Cells(defs[n])
    BY DEF Cells, Range
  <2>5. CopyAddr(c, n, defs[n]) \in DOMAIN heap' /\ heap'[CopyAddr(c, n, defs[n])] = Clone(c, n, d)
    BY <1>7, <2>1, <2>4
  <2> HIDE DEF d
  <2>6. \A j \in DOMAIN d.members :
          LET x == CopyAddr(c, n, d.members[j])
          IN  /\ x \in DOMAIN heap' /\ heap'[x] = heap[d.members[j]]
              /\ x.owner = c /\ x.nth = n /\ x.part = "member" /\ x.pos = j
    BY <1>7, <2>3, <2>4
  <2>7. \A j \in DOMAIN d.refs :
          LET x == CopyAddr(c, n, d.refs[j])
          IN  /\ x \in DOMAIN heap' /\ heap'[x] = heap[d.refs[j]]
              /\ x.owner = c /\ x.nth = n /\ x.part = "ref" /\ x.pos = j
    BY <1>7, <2>3, <2>4
  <2>. QED BY <2>5, <2>6, <2>7 DEF d
<1>. QED BY <1>5, <1>6, <1>8

\* Maps filled from the same keys show the same positions in their lists.
LEMMA KeyedPositions ==
  ASSUME NEW n \in Nat, NEW keys, DOMAIN keys = 1..n, NEW M, DOMAIN M = 1..n,
         \A i, j \in 1..n : M[i] = M[j] => i = j
  PROVE  /\ Range(Keyed(keys, M)) \subseteq Range(M)
         /\ [x \in DOMAIN Keyed(keys, M) |-> Position(M, Keyed(keys, M)[x])]
            = [x \in Range(keys) |-> Max({i \in DOMAIN keys : keys[i] = x})]
<1>1. DOMAIN Keyed(keys, M) = Range(keys) BY KeyedFacts
<1>2. \A x \in Range(keys) :
        LET j == Max({i \in DOMAIN keys : keys[i] = x})
        IN  j \in 1..n /\ keys[j] = x /\ Keyed(keys, M)[x] = M[j]
  BY KeyedFacts
<1>3. Range(Keyed(keys, M)) \subseteq Range(M)
  <2>1. \A x \in DOMAIN Keyed(keys, M) : \E j \in DOMAIN M : Keyed(keys, M)[x] = M[j]
    BY <1>1, <1>2
  <2>. QED BY <2>1 DEF Range
<1>4. ASSUME NEW x \in Range(keys)
      PROVE  Position(M, Keyed(keys, M)[x]) = Max({i \in DOMAIN keys : keys[i] = x})
  <2> DEFINE j == Max({i \in DOMAIN keys : keys[i] = x})
  <2>1. j \in 1..n /\ Keyed(keys, M)[x] = M[j] BY <1>2
  <2> HIDE DEF j
  <2>2. Position(M, M[j]) = j BY <2>1, PositionAt
  <2>. QED BY <2>1, <2>2 DEF j
<1>. QED BY <1>1, <1>3, <1>4

\* The parts of a definition that is o's own are distinct.
LEMMA OwnParts ==
  ASSUME NEW a, NEW o, NEW n, Own(a, o, n)
  PROVE  /\ \A i, j \in DOMAIN heap[a].members : heap[a].members[i] = heap[a].members[j] => i = j
         /\ \A i, j \in DOMAIN heap[a].refs : heap[a].refs[i] = heap[a].refs[j] => i = j
BY DEF Own, PartOf

\* A copy is the caller's own and shows what the Pipeline's definition shows.
LEMMA CopyShows ==
  ASSUME Published, NEW c \in Callers, NEW defs, \A n \in DOMAIN defs : IsDef(defs[n]),
         GiveCopies(c, defs), NEW n \in DOMAIN defs
  PROVE  /\ Own(CopyAddr(c, n, defs[n]), c, n)'
         /\ Shown(CopyAddr(c, n, defs[n]))' = Shown(defs[n])
<1> DEFINE a == CopyAddr(c, n, defs[n])
           d == heap[defs[n]]
<1>e. PICK e : e = heap'[a] OBVIOUS
<1>0. PICK k \in Kinds : \E i \in DOMAIN info.decls[k] : defs[n] = Addr(Pipe, 0, k, i, "def", 0)
  BY DEF IsDef
<1>1. PICK i \in DOMAIN info.decls[k] : defs[n] = Addr(Pipe, 0, k, i, "def", 0) BY <1>0
<1>2. a \in DOMAIN heap' /\ a.owner = c /\ a.nth = n /\ a.part = "def"
  BY <1>1, CopiesMade, CopyFields, AddrFields
<1>3. info \in Infos /\ d = DefOf(info.decls, k, i) /\ Own(defs[n], Pipe, 0)
  BY <1>1, PipeObjects DEF Published
<1> DEFINE D == info.decls[k][i]
<1>4. PICK N \in Nat : DOMAIN D.members = 1..N BY <1>3, InfoLists, ListDomain
<1>5. /\ DOMAIN d = DefFields
      /\ d.members = [j \in 1..N |-> Addr(Pipe, 0, k, i, "member", j)]
      /\ d.byName = Keyed(Fields(D.members, "name"), d.members)
      /\ d.byID = Keyed(Fields(D.members, "id"), d.members)
  <2> DEFINE o == DefOf(info.decls, k, i)
             ms == [j \in DOMAIN D.members |-> Addr(Pipe, 0, k, i, "member", j)]
  <2>1. /\ DOMAIN o = DefFields /\ o.members = ms
        /\ o.byName = Keyed(Fields(D.members, "name"), ms)
        /\ o.byID = Keyed(Fields(D.members, "id"), ms)
    BY <1>3, DefParts
  <2> HIDE DEF o, D
  <2>. QED BY <1>3, <1>4, <2>1 DEF o
<1>6. Values(d.members) = D.members
  <2>1. \A j \in 1..N : heap[d.members[j]] = D.members[j] BY <1>1, <1>4, <1>5, PipeObjects
  <2>2. D.members = [j \in 1..N |-> D.members[j]]
    <3>1. IsList(D.members) BY <1>3, InfoLists
    <3>. QED BY <1>4, <3>1 DEF IsList
  <2>3. DOMAIN d.members = 1..N BY <1>5
  <2> HIDE DEF d, D
  <2>. QED BY <2>1, <2>2, <2>3 DEF Values
<1>7. e = Clone(c, n, d) BY <1>e, CopiesMade
<1>8. /\ \A j \in DOMAIN d.members :
           LET x == CopyAddr(c, n, d.members[j])
           IN  /\ x \in DOMAIN heap' /\ heap'[x] = heap[d.members[j]]
               /\ x.owner = c /\ x.nth = n /\ x.part = "member" /\ x.pos = j
      /\ \A j \in DOMAIN d.refs :
           LET x == CopyAddr(c, n, d.refs[j])
           IN  /\ x \in DOMAIN heap' /\ heap'[x] = heap[d.refs[j]]
               /\ x.owner = c /\ x.nth = n /\ x.part = "ref" /\ x.pos = j
  BY CopiesMade
<1>9. /\ DOMAIN e = DefFields
      /\ e.members = [j \in 1..N |-> CopyAddr(c, n, d.members[j])]
      /\ e.refs = [j \in DOMAIN d.refs |-> CopyAddr(c, n, d.refs[j])]
      /\ e.byName = Keyed(Fields(D.members, "name"), e.members)
      /\ e.byID = Keyed(Fields(D.members, "id"), e.members)
      /\ e.id = d.id /\ e.name = d.name /\ e.data = d.data /\ e.table = d.table
  <2>1. DOMAIN d.members = 1..N BY <1>5
  <2> HIDE DEF d, D
  <2>. QED BY <1>5, <1>6, <1>7, <2>1, CloneParts DEF CopyAddrs
<1> HIDE DEF a, d, D
<1>10. /\ DOMAIN d.members = 1..N /\ DOMAIN e.members = 1..N
       /\ \A x, y \in 1..N : e.members[x] = e.members[y] => x = y
       /\ \A x, y \in 1..N : d.members[x] = d.members[y] => x = y
  <2>1. DOMAIN d.members = 1..N /\ DOMAIN e.members = 1..N BY <1>5, <1>9
  <2>2. \A x, y \in 1..N : e.members[x] = e.members[y] => x = y BY <1>8, <1>9, <2>1
  <2>3. \A x, y \in 1..N : d.members[x] = d.members[y] => x = y
    BY <1>3, <2>1, OwnParts DEF d
  <2>. QED BY <2>1, <2>2, <2>3
<1>11. ASSUME NEW f
       PROVE  LET keys == Fields(D.members, f)
              IN  /\ Range(Keyed(keys, e.members)) \subseteq Range(e.members)
                  /\ [x \in DOMAIN Keyed(keys, e.members) |-> Position(e.members, Keyed(keys, e.members)[x])]
                     = [x \in DOMAIN Keyed(keys, d.members) |-> Position(d.members, Keyed(keys, d.members)[x])]
  <2> DEFINE keys == Fields(D.members, f)
  <2>1. DOMAIN keys = 1..N BY <1>4 DEF Fields
  <2> DEFINE at == [x \in Range(keys) |-> Max({h \in DOMAIN keys : keys[h] = x})]
  <2> HIDE DEF keys
  <2>2. /\ Range(Keyed(keys, e.members)) \subseteq Range(e.members)
        /\ [x \in DOMAIN Keyed(keys, e.members) |-> Position(e.members, Keyed(keys, e.members)[x])] = at
    BY <1>10, <2>1, KeyedPositions
  <2>3. [x \in DOMAIN Keyed(keys, d.members) |-> Position(d.members, Keyed(keys, d.members)[x])] = at
    BY <1>10, <2>1, KeyedPositions
  <2> HIDE DEF at
  <2>. QED BY <2>2, <2>3 DEF keys
<1>12. Own(a, c, n)'
  <2>1. /\ \A j \in DOMAIN e.members : PartOf(e.members[j], c, n, "member", j)'
        /\ \A j \in DOMAIN e.refs : PartOf(e.refs[j], c, n, "ref", j)'
    BY <1>8, <1>9, <1>10 DEF PartOf
  <2>2. Range(e.byName) \subseteq Range(e.members) /\ Range(e.byID) \subseteq Range(e.members)
    BY <1>9, <1>11
  <2>. QED BY <1>e, <1>2, <1>9, <2>1, <2>2 DEF Own
<1>13. Shown(a)' = Shown(defs[n])
  <2>1. Values(e.members)' = Values(d.members)
    BY <1>8, <1>9, <1>10 DEF Values
  <2>2. Values(e.refs)' = Values(d.refs)
    BY <1>8, <1>9 DEF Values
  <2> DEFINE At(o, by) == [x \in DOMAIN by |-> Position(o, by[x])]
  <2>a. \A f : At(e.members, Keyed(Fields(D.members, f), e.members))
               = At(d.members, Keyed(Fields(D.members, f), d.members))
    BY <1>11
  <2>b. /\ e.byName = Keyed(Fields(D.members, "name"), e.members)
        /\ d.byName = Keyed(Fields(D.members, "name"), d.members)
        /\ e.byID = Keyed(Fields(D.members, "id"), e.members)
        /\ d.byID = Keyed(Fields(D.members, "id"), d.members)
    BY <1>5, <1>9
  <2> HIDE DEF At
  <2>3. At(e.members, e.byName) = At(d.members, d.byName) BY <2>a, <2>b
  <2>4. At(e.members, e.byID) = At(d.members, d.byID) BY <2>a, <2>b
  <2>5. Shown(a)' =
          [id |-> e.id, name |-> e.name, data |-> e.data, table |-> e.table,
           members |-> Values(e.members)', refs |-> Values(e.refs)',
           byName |-> At(e.members, e.byName), byID |-> At(e.members, e.byID)]
    BY <1>e DEF Shown, Position, At
  <2>6. Shown(defs[n]) =
          [id |-> d.id, name |-> d.name, data |-> d.data, table |-> d.table,
           members |-> Values(d.members), refs |-> Values(d.refs),
           byName |-> At(d.members, d.byName), byID |-> At(d.members, d.byID)]
    BY DEF Shown, d, At
  <2>7. e.id = d.id /\ e.name = d.name /\ e.data = d.data /\ e.table = d.table BY <1>9
  <2>. QED BY <2>1, <2>2, <2>3, <2>4, <2>5, <2>6, <2>7
<1>. QED BY <1>12, <1>13 DEF a

-----------------------------------------------------------------------------
(* The invariant *)

\* A step that leaves a definition's objects alone leaves it as it was.
LEMMA OwnKept ==
  ASSUME NEW a, NEW o, NEW n, Own(a, o, n),
         \A x \in DOMAIN heap :
           x.owner = o /\ x.nth = n => x \in DOMAIN heap' /\ heap'[x] = heap[x]
  PROVE  Own(a, o, n)' /\ Shown(a)' = Shown(a)
<1>1. a \in DOMAIN heap' /\ heap'[a] = heap[a] BY DEF Own
<1>2. /\ \A j \in DOMAIN heap[a].members :
           /\ PartOf(heap[a].members[j], o, n, "member", j)
           /\ heap[a].members[j] \in DOMAIN heap' /\ heap'[heap[a].members[j]] = heap[heap[a].members[j]]
      /\ \A j \in DOMAIN heap[a].refs :
           /\ PartOf(heap[a].refs[j], o, n, "ref", j)
           /\ heap[a].refs[j] \in DOMAIN heap' /\ heap'[heap[a].refs[j]] = heap[heap[a].refs[j]]
  BY DEF Own, PartOf
<1>3. Own(a, o, n)' BY <1>1, <1>2 DEF Own, PartOf
<1>4. Values(heap[a].members)' = Values(heap[a].members) /\ Values(heap[a].refs)' = Values(heap[a].refs)
  BY <1>1, <1>2 DEF Values
<1>5. Shown(a)' = Shown(a) BY <1>1, <1>4 DEF Shown
<1>. QED BY <1>3, <1>5

\* What is given to a caller are copies of definitions of the Pipeline.
LEMMA LookupGives ==
  ASSUME Published, NEW key
  PROVE  LET defs == IF key \in DOMAIN index THEN <<index[key]>> ELSE <<>>
         IN  \A n \in DOMAIN defs : IsDef(defs[n])
<1>1. CASE key \in DOMAIN index BY <1>1, IndexEntry DEF IsDef
<1>2. CASE key \notin DOMAIN index BY <1>2
<1>. QED BY <1>1, <1>2

LEMMA TablesGives == ASSUME Published PROVE \A n \in DOMAIN TableAddrs : IsDef(TableAddrs[n])
<1> TAKE n \in DOMAIN TableAddrs
<1> DEFINE key == <<"table", "id", info.decls["table"][n].id>>
<1>1. n \in DOMAIN info.decls["table"] /\ TableAddrs[n] = index[key] BY DEF TableAddrs
<1>2. key \in DOMAIN index BY <1>1, TablesFound
<1> HIDE DEF key
<1>. QED BY <1>1, <1>2, IndexEntry DEF IsDef

LEMMA GiveStep ==
  ASSUME IndexInv, result = "ok", NEW c \in Callers, NEW defs,
         \A n \in DOMAIN defs : IsDef(defs[n]), GiveCopies(c, defs)
  PROVE  IndexInv'
<1>1. Published BY DEF IndexInv
<1>2. c # Pipe BY PipelineAssumption
<1>3. /\ \A x \in DOMAIN heap : x.owner # c => x \in DOMAIN heap' /\ heap'[x] = heap[x]
      /\ \A x \in DOMAIN heap' : x.owner # c => x \in DOMAIN heap
  BY <1>1, CopiesMade
<1>4. UNCHANGED <<message, info, result, index>> BY DEF GiveCopies
<1>5. Published'
  <2>1. {x \in DOMAIN heap' : x.owner = Pipe} = {x \in DOMAIN heap : x.owner = Pipe}
    BY <1>2, <1>3
  <2>2. \A a \in PipeAddrs(info.decls) : heap'[a] = heap[a] BY <1>1, <1>2, <1>3 DEF Published
  <2>. QED BY <1>1, <1>4, <2>1, <2>2 DEF Published
<1>6. /\ DOMAIN held' = Callers /\ held'[c] = [n \in DOMAIN defs |-> CopyAddr(c, n, defs[n])]
      /\ \A b \in Callers \ {c} : held'[b] = held[b]
  BY DEF GiveCopies, IndexInv
<1>7. \A b \in Callers \ {c} : \A n \in DOMAIN held[b] : Own(held[b][n], b, n)'
  <2> TAKE b \in Callers \ {c}
  <2> TAKE n \in DOMAIN held[b]
  <2>1. PICK a : a = held[b][n] OBVIOUS
  <2>2. Own(a, b, n) BY <2>1 DEF IndexInv
  <2>3. Own(a, b, n)' BY <1>3, <2>2, OwnKept
  <2>. QED BY <1>6, <2>1, <2>3
<1>8. \A n \in DOMAIN defs : Own(CopyAddr(c, n, defs[n]), c, n)' BY <1>1, CopyShows
<1>9. \A b \in Callers : \A n \in DOMAIN held'[b] : Own(held[b][n], b, n)'
  BY <1>6, <1>7, <1>8
<1>. QED BY <1>4, <1>5, <1>6, <1>9 DEF IndexInv

\* What a caller writes to is its own, and a part of one definition it holds.
LEMMA EditReaches ==
  ASSUME IndexInv, NEW c \in Callers, NEW n \in DOMAIN held[c], NEW x \in Reached(held[c][n])
  PROVE  LET a == held[c][n]
         IN  /\ x \in DOMAIN heap /\ x.owner = c /\ x.nth = n
             /\ \/ x = a
                \/ \E j \in DOMAIN heap[a].members : x = heap[a].members[j]
                \/ \E j \in DOMAIN heap[a].refs : x = heap[a].refs[j]
<1> DEFINE a == held[c][n]
<1>1. Own(a, c, n) BY DEF IndexInv
<1> HIDE DEF a
<1>2. x \in Reached(a) BY DEF a
<1>3. x = a \/ x \in Range(heap[a].members) \/ x \in Range(heap[a].refs)
  BY <1>1, <1>2 DEF Reached, Cells, Own
<1>4. \/ x = a
      \/ \E j \in DOMAIN heap[a].members : x = heap[a].members[j]
      \/ \E j \in DOMAIN heap[a].refs : x = heap[a].refs[j]
  BY <1>3 DEF Range
<1>5. x \in DOMAIN heap /\ x.owner = c /\ x.nth = n BY <1>1, <1>4 DEF Own, PartOf
<1>. QED BY <1>4, <1>5 DEF a

\* The objects after a write.
LEMMA EditEffect ==
  ASSUME NEW x \in DOMAIN heap, heap' = [heap EXCEPT ![x].data = Edited]
  PROVE  /\ DOMAIN heap' = DOMAIN heap /\ \A y \in DOMAIN heap \ {x} : heap'[y] = heap[y]
         /\ heap'[x] = [heap[x] EXCEPT !.data = Edited]
         /\ DOMAIN heap'[x] = DOMAIN heap[x]
         /\ \A f \in DOMAIN heap[x] \ {"data"} : heap'[x][f] = heap[x][f]
OBVIOUS

LEMMA EditStep == ASSUME IndexInv, NEW c \in Callers, Edit(c) PROVE IndexInv'
<1>0. UNCHANGED <<message, info, result, index, held>> BY DEF Edit
<1>1. PICK n \in DOMAIN held[c] : \E x \in Reached(held[c][n]) : heap' = [heap EXCEPT ![x].data = Edited]
  BY DEF Edit
<1>2. PICK x \in Reached(held[c][n]) : heap' = [heap EXCEPT ![x].data = Edited] BY <1>1
<1>3. x \in DOMAIN heap /\ x.owner = c BY EditReaches
<1>4. /\ DOMAIN heap' = DOMAIN heap /\ \A y \in DOMAIN heap \ {x} : heap'[y] = heap[y]
      /\ DOMAIN heap'[x] = DOMAIN heap[x]
      /\ \A f \in DOMAIN heap[x] \ {"data"} : heap'[x][f] = heap[x][f]
  BY <1>2, <1>3, EditEffect
<1>5. c # Pipe BY PipelineAssumption
<1>6. result = "ok" => Published'
  <2> SUFFICES ASSUME result = "ok" PROVE Published'
    OBVIOUS
  <2>1. Published BY DEF IndexInv
  <2>2. {y \in DOMAIN heap' : y.owner = Pipe} = {y \in DOMAIN heap : y.owner = Pipe} BY <1>4
  <2>3. \A a \in PipeAddrs(info.decls) : heap'[a] = heap[a]
    BY <1>3, <1>4, <1>5, <2>1 DEF Published
  <2>. QED BY <1>0, <2>1, <2>2, <2>3 DEF Published
<1>7. ASSUME NEW b \in Callers, NEW m \in DOMAIN held[b] PROVE Own(held[b][m], b, m)'
  <2> DEFINE a == held[b][m]
  <2>1. Own(a, b, m) /\ a' = a BY <1>0 DEF IndexInv
  <2> HIDE DEF a
  <2>2. a \in DOMAIN heap /\ DOMAIN heap[a] = DefFields BY <2>1 DEF Own
  <2>3. /\ DOMAIN heap'[a] = DefFields
        /\ heap'[a].members = heap[a].members /\ heap'[a].refs = heap[a].refs
        /\ heap'[a].byName = heap[a].byName /\ heap'[a].byID = heap[a].byID
    <3>1. \A f \in DefFields \ {"data"} : heap'[a][f] = heap[a][f] BY <1>4, <2>2
    <3>2. DOMAIN heap'[a] = DefFields BY <1>4, <2>2
    <3>. QED BY <3>1, <3>2 DEF DefFields
  <2>4. Own(a, b, m)' BY <1>4, <2>1, <2>3 DEF Own, PartOf
  <2>. QED BY <2>4 DEF a
<1>. QED BY <1>0, <1>6, <1>7 DEF IndexInv

LEMMA NewStep == ASSUME IndexInv, New PROVE IndexInv'
<1>1. message \in Infos /\ UNCHANGED <<message, held>> BY DEF New, IndexInv
<1>2. /\ info' = message /\ result' = "ok" /\ index' = IndexOf(message.decls)
      /\ DOMAIN heap' = PipeAddrs(message.decls)
      /\ \A a \in PipeAddrs(message.decls) : heap'[a] = ObjectOf(message.decls, a)
  BY DEF New
<1>3. \A a \in PipeAddrs(message.decls) : a.owner = Pipe BY PipeAddrsAre, AddrFields
<1>4. {x \in DOMAIN heap' : x.owner = Pipe} = PipeAddrs(message.decls) BY <1>2, <1>3
<1>5. Published' BY <1>1, <1>2, <1>4 DEF Published
<1>6. \A c \in Callers : DOMAIN held'[c] = {} BY <1>1 DEF New, IndexInv
<1>. QED BY <1>1, <1>2, <1>5, <1>6 DEF IndexInv

LEMMA HeldKept ==
  ASSUME IndexInv, UNCHANGED <<heap, held>>
  PROVE  \A c \in Callers : \A n \in DOMAIN held[c] : Own(held[c][n], c, n)'
<1> TAKE c \in Callers
<1> TAKE n \in DOMAIN held[c]
<1>1. PICK a : a = held[c][n] OBVIOUS
<1>2. Own(a, c, n) BY <1>1 DEF IndexInv
<1>3. Own(a, c, n)' BY <1>2, OwnKept
<1>. QED BY <1>1, <1>3

LEMMA IndexStart == Init => IndexInv
BY DEF Init, IndexInit, IndexInv

LEMMA IndexStep == IndexInv /\ [Next]_vars => IndexInv'
<1> SUFFICES ASSUME IndexInv, [Next]_vars PROVE IndexInv'
  OBVIOUS
<1>1. CASE New BY <1>1, NewStep
<1>2. CASE NewFails
  <2>1. UNCHANGED <<message, info, heap, index, held>> /\ result = "none" /\ result' = "error"
    BY <1>2 DEF NewFails
  <2>2. \A c \in Callers : \A n \in DOMAIN held[c] : Own(held[c][n], c, n)' BY <2>1, HeldKept
  <2>. QED BY <2>1, <2>2 DEF IndexInv
<1>3. CASE EditMessage
  <2>1. UNCHANGED <<info, result, heap, index, held>> /\ result # "none" BY <1>3 DEF EditMessage
  <2>2. Published => Published' BY <2>1 DEF Published
  <2>3. \A c \in Callers : \A n \in DOMAIN held[c] : Own(held[c][n], c, n)'
    BY <2>1, HeldKept
  <2>. QED BY <2>1, <2>2, <2>3 DEF IndexInv
<1>4. ASSUME NEW c \in Callers, Tables(c) PROVE IndexInv'
  BY <1>4, GiveStep, TablesGives DEF Tables, IndexInv
<1>5. ASSUME NEW c \in Callers, NEW key, Lookup(c, key) PROVE IndexInv'
  <2> DEFINE defs == IF key \in DOMAIN index THEN <<index[key]>> ELSE <<>>
  <2>1. result = "ok" /\ GiveCopies(c, defs) BY <1>5 DEF Lookup
  <2>2. \A n \in DOMAIN defs : IsDef(defs[n]) BY <2>1, LookupGives DEF IndexInv
  <2> HIDE DEF defs
  <2>. QED BY <2>1, <2>2, GiveStep
<1>6. ASSUME NEW c \in Callers, Edit(c) PROVE IndexInv' BY <1>6, EditStep
<1>7. CASE UNCHANGED vars
  <2>1. UNCHANGED <<message, info, result, heap, index, held>> BY <1>7 DEF vars
  <2>2. Published => Published' BY <2>1 DEF Published
  <2>3. \A c \in Callers : \A n \in DOMAIN held[c] : Own(held[c][n], c, n)'
    BY <2>1, HeldKept
  <2>. QED BY <2>1, <2>2, <2>3 DEF IndexInv
<1>. QED BY <1>1, <1>2, <1>3, <1>4, <1>5, <1>6, <1>7 DEF Next

-----------------------------------------------------------------------------
(* Lookups find what is declared *)

\* The names and IDs under which a declaration of kind k is to be found.
KeyOf(k, d, by, x) ==
  \/ by = "id" /\ x = d.id
  \/ by = "name" /\ (x = d.name \/ (k \in Aliased /\ x = d.alias /\ x # NoAlias))

\* Keys that are distinct are written by one declaration.
LEMMA WriterOf ==
  ASSUME NEW decls, NEW k, Distinct(decls, k),
         NEW i \in DOMAIN decls[k], NEW by, NEW x, KeyOf(k, decls[k][i], by, x)
  PROVE  Writes(decls, k, by, x) = {i}
<1>1. \A j \in DOMAIN decls[k] : j \in Writes(decls, k, by, x) <=> KeyOf(k, decls[k][j], by, x)
  BY DEF Writes, KeyOf
<1>2. \A j \in DOMAIN decls[k] : KeyOf(k, decls[k][j], by, x) => j = i
  BY DEF Distinct, KeyOf
<1>. QED BY <1>1, <1>2 DEF Writes

\* So each of them leads to its declaration.
LEMMA OneWriter ==
  ASSUME Published, NEW k \in Kinds, Distinct(info.decls, k),
         NEW i \in DOMAIN info.decls[k], NEW by, NEW x, KeyOf(k, info.decls[k][i], by, x)
  PROVE  /\ <<k, by, x>> \in DOMAIN index
         /\ index[<<k, by, x>>] = Addr(Pipe, 0, k, i, "def", 0)
<1> DEFINE D(j) == info.decls[k][j]
<1>4. info \in Infos BY DEF Published
<1>3. Writes(info.decls, k, by, x) = {i} BY WriterOf
<1>5. Max(Writes(info.decls, k, by, x)) = i BY <1>3, <1>4, LastWriter
<1>6. D(i).id \in IDs /\ D(i).name \in Names \cup {NoAlias} /\ D(i).alias \in Names \cup {NoAlias}
  BY <1>4, InfoLists
<1>7. <<k, by, x>> \in KeySet BY <1>6 DEF KeyOf, KeySet
<1> DEFINE key == <<k, by, x>>
<1>8. key[1] = k /\ key[2] = by /\ key[3] = x OBVIOUS
<1> HIDE DEF key
<1>9. /\ key \in DOMAIN index
      /\ index[key] = Addr(Pipe, 0, k, Max(Writes(info.decls, k, by, x)), "def", 0)
  BY <1>3, <1>7, <1>8 DEF Published, IndexOf, key
<1>. QED BY <1>5, <1>9 DEF key

\* The definition of a declaration shows it, its members under their keys.
LEMMA DefinitionDeclares ==
  ASSUME Published, NEW k \in Kinds, NEW i \in DOMAIN info.decls[k]
  PROVE  Declares(Addr(Pipe, 0, k, i, "def", 0), info.decls[k][i])
<1> DEFINE a == Addr(Pipe, 0, k, i, "def", 0)
           d == info.decls[k][i]
           o == heap[a]
<1>1. info \in Infos /\ o = DefOf(info.decls, k, i) /\ Own(a, Pipe, 0)
  BY PipeObjects DEF Published
<1>2. PICK N \in Nat : DOMAIN d.members = 1..N BY <1>1, InfoLists, ListDomain
<1>3. IsList(d.members) /\ IsList(d.refs) BY <1>1, InfoLists
<1>4. /\ o.id = d.id /\ o.name = d.name /\ o.data = d.data
      /\ o.members = [j \in DOMAIN d.members |-> Addr(Pipe, 0, k, i, "member", j)]
      /\ o.refs = [j \in DOMAIN d.refs |-> Addr(Pipe, 0, k, i, "ref", j)]
      /\ o.byName = Keyed(Fields(d.members, "name"), o.members)
      /\ o.byID = Keyed(Fields(d.members, "id"), o.members)
  <2> DEFINE f == DefOf(info.decls, k, i)
             ms == [j \in DOMAIN d.members |-> Addr(Pipe, 0, k, i, "member", j)]
  <2>1. /\ f.id = d.id /\ f.name = d.name /\ f.data = d.data /\ f.members = ms
        /\ f.refs = [j \in DOMAIN d.refs |-> Addr(Pipe, 0, k, i, "ref", j)]
        /\ f.byName = Keyed(Fields(d.members, "name"), ms)
        /\ f.byID = Keyed(Fields(d.members, "id"), ms)
    BY <1>1, DefParts
  <2> HIDE DEF f, d, o
  <2>. QED BY <1>1, <2>1 DEF f
<1>5. /\ \A j \in DOMAIN d.members : heap[o.members[j]] = d.members[j]
      /\ \A j \in DOMAIN d.refs : heap[o.refs[j]] = d.refs[j]
  <2>1. /\ \A j \in DOMAIN d.members : heap[Addr(Pipe, 0, k, i, "member", j)] = d.members[j]
        /\ \A j \in DOMAIN d.refs : heap[Addr(Pipe, 0, k, i, "ref", j)] = d.refs[j]
    BY PipeObjects
  <2> HIDE DEF d, o
  <2>. QED BY <1>4, <2>1
<1>6. /\ \A x, y \in 1..N : o.members[x] = o.members[y] => x = y
      /\ DOMAIN o.members = 1..N /\ DOMAIN o.refs = DOMAIN d.refs
  <2>1. DOMAIN o.members = 1..N /\ DOMAIN o.refs = DOMAIN d.refs BY <1>2, <1>4
  <2>. QED BY <1>1, <2>1, OwnParts
<1> HIDE DEF a, d, o
<1>7. Values(o.members) = d.members /\ Values(o.refs) = d.refs
  <2>1. d.members = [j \in DOMAIN d.members |-> d.members[j]] /\ d.refs = [j \in DOMAIN d.refs |-> d.refs[j]]
    BY <1>3 DEF IsList
  <2>2. /\ Values(o.members) = [j \in DOMAIN d.members |-> d.members[j]]
        /\ Values(o.refs) = [j \in DOMAIN d.refs |-> d.refs[j]]
    BY <1>2, <1>5, <1>6 DEF Values
  <2>. QED BY <2>1, <2>2
<1>8. ASSUME NEW f, NEW j \in 1..N
      PROVE  LET keys == Fields(d.members, f)
                 M == Keyed(keys, o.members)
                 p == [x \in DOMAIN M |-> Position(o.members, M[x])]
             IN  d.members[p[d.members[j][f]]][f] = d.members[j][f]
  <2> DEFINE keys == Fields(d.members, f)
             at(x) == Max({h \in DOMAIN keys : keys[h] = x})
  <2>1. DOMAIN keys = 1..N /\ \A h \in 1..N : keys[h] = d.members[h][f] BY <1>2 DEF Fields
  <2> HIDE DEF keys
  <2>2. [x \in DOMAIN Keyed(keys, o.members) |-> Position(o.members, Keyed(keys, o.members)[x])]
        = [x \in Range(keys) |-> at(x)]
    BY <1>6, <2>1, KeyedPositions
  <2>3. keys[j] \in Range(keys) BY <2>1 DEF Range
  <2>4. at(keys[j]) \in 1..N /\ keys[at(keys[j])] = keys[j] BY <2>1, <2>3, KeyedFacts
  <2> HIDE DEF at
  <2>. QED BY <2>1, <2>2, <2>3, <2>4 DEF keys
<1>9. LET s == Shown(a)
      IN  /\ s.id = d.id /\ s.name = d.name /\ s.data = d.data
          /\ s.members = d.members /\ s.refs = d.refs
          /\ s.byName = [x \in DOMAIN o.byName |-> Position(o.members, o.byName[x])]
          /\ s.byID = [x \in DOMAIN o.byID |-> Position(o.members, o.byID[x])]
  BY <1>4, <1>7 DEF Shown, o
<1>10. \A j \in 1..N :
         /\ d.members[Shown(a).byName[d.members[j].name]].name = d.members[j].name
         /\ d.members[Shown(a).byID[d.members[j].id]].id = d.members[j].id
  <2> TAKE j \in 1..N
  <2>1. LET K == Keyed(Fields(d.members, "name"), o.members)
        IN  d.members[[x \in DOMAIN K |-> Position(o.members, K[x])][d.members[j].name]].name = d.members[j].name
    BY <1>8
  <2>2. LET K == Keyed(Fields(d.members, "id"), o.members)
        IN  d.members[[x \in DOMAIN K |-> Position(o.members, K[x])][d.members[j].id]].id = d.members[j].id
    BY <1>8
  <2>3. /\ Shown(a).byName = [x \in DOMAIN o.byName |-> Position(o.members, o.byName[x])]
        /\ Shown(a).byID = [x \in DOMAIN o.byID |-> Position(o.members, o.byID[x])]
    BY <1>9
  <2>. QED BY <1>4, <2>1, <2>2, <2>3
<1>. QED BY <1>2, <1>9, <1>10 DEF Declares, a, d

\* The keys of a declaration, by what they are keys of.
LEMMA KeysAre ==
  ASSUME NEW k, NEW d, NEW key
  PROVE  key \in KeysOf(k, d) <=> \E by, x : key = <<k, by, x>> /\ KeyOf(k, d, by, x)
BY DEF KeysOf, KeyOf

\* The index has the keys of the declarations and no others, and under each a
\* declaration that has it.
LEMMA KeysFound ==
  ASSUME Published
  PROVE  /\ \A k \in Kinds : \A i \in DOMAIN info.decls[k] :
              KeysOf(k, info.decls[k][i]) \subseteq DOMAIN index
         /\ \A key \in DOMAIN index :
              /\ key[1] \in Kinds
              /\ \E i \in DOMAIN info.decls[key[1]] :
                   /\ key \in KeysOf(key[1], info.decls[key[1]][i])
                   /\ Declares(index[key], info.decls[key[1]][i])
<1>0. info \in Infos BY DEF Published
<1>1. ASSUME NEW k \in Kinds, NEW i \in DOMAIN info.decls[k], NEW key \in KeysOf(k, info.decls[k][i])
      PROVE  key \in DOMAIN index
  <2> DEFINE d == info.decls[k][i]
  <2>1. PICK by, x : key = <<k, by, x>> /\ KeyOf(k, d, by, x) BY <1>1, KeysAre
  <2>2. d.id \in IDs /\ d.name \in Names \cup {NoAlias} /\ d.alias \in Names \cup {NoAlias}
    BY <1>0, <1>1, InfoLists
  <2>3. key \in KeySet BY <2>1, <2>2 DEF KeyOf, KeySet
  <2>4. i \in Writes(info.decls, k, by, x) BY <2>1 DEF KeyOf, Writes
  <2>5. key[1] = k /\ key[2] = by /\ key[3] = x BY <2>1
  <2>. QED BY <2>3, <2>4, <2>5 DEF Published, IndexOf
<1>2. ASSUME NEW key \in DOMAIN index
      PROVE  /\ key[1] \in Kinds
             /\ \E i \in DOMAIN info.decls[key[1]] :
                  /\ key \in KeysOf(key[1], info.decls[key[1]][i])
                  /\ Declares(index[key], info.decls[key[1]][i])
  <2> DEFINE k == key[1]
             w == Writes(info.decls, key[1], key[2], key[3])
  <2>1. /\ key \in KeySet /\ k \in Kinds /\ Max(w) \in w /\ Max(w) \in DOMAIN info.decls[k]
        /\ index[key] = Addr(Pipe, 0, k, Max(w), "def", 0)
    BY IndexEntry
  <2>2. key = <<k, key[2], key[3]>> /\ key[2] \in {"name", "id"} BY <2>1 DEF KeySet
  <2>3. PICK i \in DOMAIN info.decls[k] : i = Max(w) BY <2>1
  <2>4. KeyOf(k, info.decls[k][i], key[2], key[3]) BY <2>1, <2>2, <2>3 DEF Writes, KeyOf
  <2>5. key \in KeysOf(k, info.decls[k][i]) BY <2>2, <2>4, KeysAre
  <2>6. Declares(index[key], info.decls[k][i]) BY <2>1, <2>3, DefinitionDeclares
  <2>. QED BY <2>1, <2>5, <2>6
<1>. QED BY <1>1, <1>2

\* Every declaration of a kind with distinct keys is found under its keys.
LEMMA KindFaithful ==
  ASSUME Published, NEW k \in Kinds, Distinct(info.decls, k),
         NEW i \in DOMAIN info.decls[k], NEW key \in KeysOf(k, info.decls[k][i])
  PROVE  /\ Declares(index[key], info.decls[k][i])
         /\ k \in Direct => \A t \in DOMAIN info.decls["table"] :
              LET table == info.decls["table"][t]
              IN  info.decls[k][i].direct = table.id /\ Distinct(info.decls, "table")
                    => heap[index[key]].table = table.name
<1> DEFINE d == info.decls[k][i]
<1>0. info \in Infos /\ "table" \in Kinds BY DEF Published, Kinds
<1>1. index[key] = Addr(Pipe, 0, k, i, "def", 0)
  <2>1. PICK by, x : key = <<k, by, x>> /\ KeyOf(k, d, by, x) BY KeysAre
  <2>. QED BY <2>1, OneWriter
<1>2. Declares(index[key], d) BY <1>1, DefinitionDeclares
<1>3. ASSUME k \in Direct, NEW t \in DOMAIN info.decls["table"],
             d.direct = info.decls["table"][t].id, Distinct(info.decls, "table")
      PROVE  heap[index[key]].table = info.decls["table"][t].name
  <2>1. heap[index[key]] = DefOf(info.decls, k, i) BY <1>1, PipeObjects
  <2>2. DefOf(info.decls, k, i).table = DirectTableName(info.decls, d)
    BY <1>0, <1>3, DefParts
  <2>3. PICK x : x = d.direct OBVIOUS
  <2>4. KeyOf("table", info.decls["table"][t], "id", x) BY <1>3, <2>3 DEF KeyOf
  <2> DEFINE w == Writes(info.decls, "table", "id", x)
  <2>5. w = {t} /\ Max(w) = t
    <3>1. w = {t} BY <1>3, <2>4, WriterOf
    <3>2. Max(w) \in w BY <1>0, <3>1, LastWriter
    <3>. QED BY <3>1, <3>2
  <2>6. DirectTableName(info.decls, d) = info.decls["table"][t].name
    BY <2>3, <2>5 DEF DirectTableName
  <2>. QED BY <2>1, <2>2, <2>6
<1>. QED BY <1>2, <1>3

\* Whatever a P4Info declares and callers write, lookups by name, alias and ID
\* find the declarations that have these keys, with their members and tables.
THEOREM IndexIsFaithful == Spec => []IndexFaithful
<1>1. IndexInv => IndexFaithful
  <2> SUFFICES ASSUME IndexInv, result = "ok" PROVE IndexFaithful
    BY DEF IndexFaithful
  <2>1. Published BY DEF IndexInv
  <2>2. ASSUME NEW k \in Kinds
        PROVE  {key \in DOMAIN index : key[1] = k} = UNION {KeysOf(k, d) : d \in Range(info.decls[k])}
    <3>1. \A key : key \in UNION {KeysOf(k, d) : d \in Range(info.decls[k])}
                     <=> \E i \in DOMAIN info.decls[k] : key \in KeysOf(k, info.decls[k][i])
      BY DEF Range
    <3>2. \A d, key : key \in KeysOf(k, d) => key[1] = k BY DEF KeysOf
    <3>. QED BY <2>1, <3>1, <3>2, KeysFound
  <2>3. ASSUME NEW key \in DOMAIN index
        PROVE  \E d \in Range(info.decls[key[1]]) : key \in KeysOf(key[1], d) /\ Declares(index[key], d)
    BY <2>1, KeysFound DEF Range
  <2>4. ASSUME NEW k \in Kinds, Distinct(info.decls, k),
               NEW d \in Range(info.decls[k]), NEW key \in KeysOf(k, d)
        PROVE  /\ Declares(index[key], d)
               /\ k \in Direct => \A table \in Range(info.decls["table"]) :
                    d.direct = table.id /\ Distinct(info.decls, "table")
                      => heap[index[key]].table = table.name
    <3>1. PICK i \in DOMAIN info.decls[k] : d = info.decls[k][i] BY DEF Range
    <3>2. key \in KeysOf(k, info.decls[k][i]) BY <3>1
    <3>. QED BY <2>1, <2>4, <3>1, <3>2, KindFaithful DEF Range
  <2>. QED BY <2>2, <2>3, <2>4 DEF IndexFaithful
<1>. QED BY <1>1, IndexStart, IndexStep, PTL DEF Spec

-----------------------------------------------------------------------------
(* The Pipeline implements the Catalog *)

ShownCopies == [c \in Callers |-> [n \in DOMAIN held[c] |-> Shown(held[c][n])]]

\* A definition of the Pipeline is the Pipeline's own.
LEMMA DefIsOwn == ASSUME Published, NEW a, IsDef(a) PROVE Own(a, Pipe, 0)
<1>1. PICK k \in Kinds : \E i \in DOMAIN info.decls[k] : a = Addr(Pipe, 0, k, i, "def", 0)
  BY DEF IsDef
<1>2. PICK i \in DOMAIN info.decls[k] : a = Addr(Pipe, 0, k, i, "def", 0) BY <1>1
<1>. QED BY <1>2, PipeObjects

\* A step that leaves the Pipeline's objects alone leaves what it shows.
LEMMA CatalogKept ==
  ASSUME Published, UNCHANGED <<info, result, index>>,
         \A x \in DOMAIN heap : x.owner = Pipe => x \in DOMAIN heap' /\ heap'[x] = heap[x]
  PROVE  ShownCatalog' = ShownCatalog
<1>1. ASSUME NEW a, IsDef(a) PROVE Shown(a)' = Shown(a)
  <2>1. Own(a, Pipe, 0) BY <1>1, DefIsOwn
  <2>. QED BY <2>1, OwnKept
<1>2. \A key \in DOMAIN index : IsDef(index[key]) BY IndexEntry DEF IsDef
<1>3. \A key \in DOMAIN index : Shown(index[key])' = Shown(index[key])
  <2> TAKE key \in DOMAIN index
  <2>1. PICK a : a = index[key] OBVIOUS
  <2>2. Shown(a)' = Shown(a) BY <1>1, <1>2, <2>1
  <2>. QED BY <2>1, <2>2
<1>4. TableAddrs' = TableAddrs BY DEF TableAddrs
<1>5. \A i \in DOMAIN TableAddrs : Shown(TableAddrs[i])' = Shown(TableAddrs[i])
  <2> TAKE i \in DOMAIN TableAddrs
  <2>1. PICK a : a = TableAddrs[i] OBVIOUS
  <2>2. Shown(a)' = Shown(a) BY <1>1, <2>1, TablesGives
  <2>. QED BY <1>4, <2>1, <2>2
<1>6. [key \in DOMAIN index |-> Shown(index[key])]' = [key \in DOMAIN index |-> Shown(index[key])]
  BY <1>3
<1>7. [i \in DOMAIN TableAddrs |-> Shown(TableAddrs[i])]' = [i \in DOMAIN TableAddrs |-> Shown(TableAddrs[i])]
  BY <1>4, <1>5
<1>. QED BY <1>6, <1>7 DEF ShownCatalog

\* Giving copies is giving values.
LEMMA GiveShows ==
  ASSUME IndexInv, result = "ok", NEW c \in Callers, NEW defs,
         \A n \in DOMAIN defs : IsDef(defs[n]), GiveCopies(c, defs)
  PROVE  /\ ShownCopies' = [ShownCopies EXCEPT ![c] = [n \in DOMAIN defs |-> Shown(defs[n])]]
         /\ ShownCatalog' = ShownCatalog /\ result' = result
<1>1. Published /\ c # Pipe BY PipelineAssumption DEF IndexInv
<1>2. \A x \in DOMAIN heap : x.owner # c => x \in DOMAIN heap' /\ heap'[x] = heap[x]
  BY <1>1, CopiesMade
<1>3. UNCHANGED <<info, result, index>> BY DEF GiveCopies
<1>4. ShownCatalog' = ShownCatalog BY <1>1, <1>2, <1>3, CatalogKept
<1>5. /\ DOMAIN held' = Callers /\ held'[c] = [n \in DOMAIN defs |-> CopyAddr(c, n, defs[n])]
      /\ \A b \in Callers \ {c} : held'[b] = held[b]
  BY DEF GiveCopies, IndexInv
<1>6. ASSUME NEW b \in Callers \ {c}
      PROVE  [n \in DOMAIN held[b] |-> Shown(held[b][n])]' = [n \in DOMAIN held[b] |-> Shown(held[b][n])]
  <2>1. ASSUME NEW n \in DOMAIN held[b] PROVE Shown(held[b][n])' = Shown(held[b][n])
    <3>1. PICK a : a = held[b][n] OBVIOUS
    <3>2. Own(a, b, n) BY <3>1 DEF IndexInv
    <3>3. Shown(a)' = Shown(a) BY <1>2, <3>2, OwnKept
    <3>. QED BY <1>5, <3>1, <3>3
  <2>. QED BY <1>5, <2>1
<1>7. [n \in DOMAIN held[c] |-> Shown(held[c][n])]' = [n \in DOMAIN defs |-> Shown(defs[n])]
  <2>1. \A n \in DOMAIN defs : Shown(CopyAddr(c, n, defs[n]))' = Shown(defs[n])
    BY <1>1, CopyShows
  <2>. QED BY <1>5, <2>1
<1>. QED BY <1>3, <1>4, <1>6, <1>7 DEF ShownCopies

\* What a definition shows, field by field, and a write to one field of it.
Sheet(d, data, ms, rs) ==
  [id |-> d.id, name |-> d.name, data |-> data, table |-> d.table, members |-> ms, refs |-> rs,
   byName |-> [x \in DOMAIN d.byName |-> Position(d.members, d.byName[x])],
   byID |-> [x \in DOMAIN d.byID |-> Position(d.members, d.byID[x])]]

PartWritten(seq, j) == [seq EXCEPT ![j].data = Edited]
DefWritten(s) == [s EXCEPT !.data = Edited]
MemberWritten(s, j) == [s EXCEPT !.members[j].data = Edited]
RefWritten(s, j) == [s EXCEPT !.refs[j].data = Edited]

LEMMA SheetWrites ==
  ASSUME NEW d, NEW data, NEW ms, NEW rs, NEW s, s = Sheet(d, data, ms, rs), NEW j
  PROVE  /\ s.members = ms /\ s.refs = rs
         /\ DefWritten(s) = Sheet(d, Edited, ms, rs)
         /\ MemberWritten(s, j) = Sheet(d, data, PartWritten(ms, j), rs)
         /\ RefWritten(s, j) = Sheet(d, data, ms, PartWritten(rs, j))
<1>1. s.members = ms /\ s.refs = rs BY DEF Sheet
<1>2. DefWritten(s) = Sheet(d, Edited, ms, rs) BY DEF Sheet, DefWritten
<1>3. \A v : [s EXCEPT !.members = v] = Sheet(d, data, v, rs) BY DEF Sheet
<1>4. \A v : [s EXCEPT !.refs = v] = Sheet(d, data, ms, v) BY DEF Sheet
<1>5. MemberWritten(s, j) = [s EXCEPT !.members = PartWritten(s.members, j)]
  BY DEF MemberWritten, PartWritten
<1>6. RefWritten(s, j) = [s EXCEPT !.refs = PartWritten(s.refs, j)] BY DEF RefWritten, PartWritten
<1>. QED BY <1>1, <1>2, <1>3, <1>4, <1>5, <1>6

\* A write to an object of the n-th definition of c changes what no other
\* definition shows, and what that one shows in one place.
LEMMA EditShows ==
  ASSUME IndexInv, NEW c \in Callers, NEW n \in DOMAIN held[c], NEW x \in Reached(held[c][n]),
         heap' = [heap EXCEPT ![x].data = Edited], UNCHANGED <<info, result, index, held>>
  PROVE  LET a == held[c][n]
             s == Shown(a)
         IN  /\ ShownCatalog' = ShownCatalog
             /\ \A b \in Callers : \A m \in DOMAIN held[b] :
                  b # c \/ m # n => Shown(held[b][m])' = Shown(held[b][m])
             /\ \/ Shown(a)' = DefWritten(s)
                \/ \E j \in DOMAIN s.members : Shown(a)' = MemberWritten(s, j)
                \/ \E j \in DOMAIN s.refs : Shown(a)' = RefWritten(s, j)
<1>0. PICK a : a = held[c][n] OBVIOUS
<1>1. Own(a, c, n) /\ c # Pipe BY <1>0, PipelineAssumption DEF IndexInv
<1>2. /\ x \in DOMAIN heap /\ x.owner = c /\ x.nth = n
      /\ \/ x = a
         \/ \E j \in DOMAIN heap[a].members : x = heap[a].members[j]
         \/ \E j \in DOMAIN heap[a].refs : x = heap[a].refs[j]
  BY <1>0, EditReaches
<1>3. /\ DOMAIN heap' = DOMAIN heap /\ \A y \in DOMAIN heap \ {x} : heap'[y] = heap[y]
      /\ heap'[x] = [heap[x] EXCEPT !.data = Edited]
  BY <1>2, EditEffect
<1>4. ShownCatalog' = ShownCatalog
  <2>1. CASE result = "ok" BY <1>1, <1>2, <1>3, <2>1, CatalogKept DEF IndexInv
  <2>2. CASE result # "ok" BY <2>2 DEF IndexInv
  <2>. QED BY <2>1, <2>2
<1>5. ASSUME NEW b \in Callers, NEW m \in DOMAIN held[b], b # c \/ m # n
      PROVE  Shown(held[b][m])' = Shown(held[b][m])
  <2>1. PICK d : d = held[b][m] OBVIOUS
  <2>2. Own(d, b, m) BY <2>1 DEF IndexInv
  <2>3. \A y \in DOMAIN heap : y.owner = b /\ y.nth = m => y \in DOMAIN heap' /\ heap'[y] = heap[y]
    BY <1>2, <1>3, <1>5
  <2>4. Shown(d)' = Shown(d) BY <2>2, <2>3, OwnKept
  <2>. QED BY <2>1, <2>4
<1>6. /\ a \in DOMAIN heap /\ a.part = "def" /\ DOMAIN heap[a] = DefFields
      /\ \A j \in DOMAIN heap[a].members : PartOf(heap[a].members[j], c, n, "member", j)
      /\ \A j \in DOMAIN heap[a].refs : PartOf(heap[a].refs[j], c, n, "ref", j)
  BY <1>1 DEF Own
<1> DEFINE s == Shown(a)
<1>s. s = Sheet(heap[a], heap[a].data, Values(heap[a].members), Values(heap[a].refs))
  BY DEF Shown, Sheet
<1> HIDE DEF s
<1>t. /\ s.members = Values(heap[a].members) /\ s.refs = Values(heap[a].refs)
      /\ DefWritten(s) = Sheet(heap[a], Edited, Values(heap[a].members), Values(heap[a].refs))
      /\ \A i : MemberWritten(s, i) = Sheet(heap[a], heap[a].data, PartWritten(Values(heap[a].members), i),
                                          Values(heap[a].refs))
      /\ \A i : RefWritten(s, i) = Sheet(heap[a], heap[a].data, Values(heap[a].members),
                                       PartWritten(Values(heap[a].refs), i))
  BY <1>s, SheetWrites
<1>7. ASSUME x = a PROVE Shown(a)' = DefWritten(s)
  <2>2. \A j \in DOMAIN heap[a].members : heap'[heap[a].members[j]] = heap[heap[a].members[j]]
    BY <1>3, <1>6, <1>7 DEF PartOf
  <2>3. \A j \in DOMAIN heap[a].refs : heap'[heap[a].refs[j]] = heap[heap[a].refs[j]]
    BY <1>3, <1>6, <1>7 DEF PartOf
  <2>4. /\ heap'[a].members = heap[a].members /\ heap'[a].refs = heap[a].refs
        /\ heap'[a].byName = heap[a].byName /\ heap'[a].byID = heap[a].byID
        /\ heap'[a].id = heap[a].id /\ heap'[a].name = heap[a].name /\ heap'[a].table = heap[a].table
        /\ heap'[a].data = Edited
    BY <1>3, <1>6, <1>7 DEF DefFields
  <2>5. Values(heap[a].members)' = Values(heap[a].members) /\ Values(heap[a].refs)' = Values(heap[a].refs)
    BY <2>2, <2>3, <2>4 DEF Values
  <2>6. Shown(a)' = Sheet(heap[a], Edited, Values(heap[a].members), Values(heap[a].refs))
    BY <2>4, <2>5 DEF Shown, Sheet
  <2>. QED BY <1>t, <2>6
<1>8. ASSUME NEW i \in DOMAIN heap[a].members, x = heap[a].members[i]
      PROVE  i \in DOMAIN s.members /\ Shown(a)' = MemberWritten(s, i)
  <2>1. x # a /\ heap'[a] = heap[a] BY <1>3, <1>6, <1>8 DEF PartOf
  <2>2. \A j \in DOMAIN heap[a].members : j # i => heap'[heap[a].members[j]] = heap[heap[a].members[j]]
    BY <1>3, <1>6, <1>8 DEF PartOf
  <2>3. \A j \in DOMAIN heap[a].refs : heap'[heap[a].refs[j]] = heap[heap[a].refs[j]]
    BY <1>3, <1>6, <1>8 DEF PartOf
  <2>4. Values(heap[a].refs)' = Values(heap[a].refs) BY <2>1, <2>3 DEF Values
  <2>5. Values(heap[a].members)' = PartWritten(Values(heap[a].members), i)
    <3>1. PICK ms, e : ms = heap[a].members /\ e = heap'[ms[i]] OBVIOUS
    <3>2. e = [heap[ms[i]] EXCEPT !.data = Edited] BY <1>3, <1>8, <3>1
    <3>3. Values(heap[a].members)' = [j \in DOMAIN ms |-> heap'[ms[j]]] BY <2>1, <3>1 DEF Values
    <3>4. \A j \in DOMAIN ms : heap'[ms[j]] = IF j = i THEN e ELSE heap[ms[j]] BY <2>2, <3>1
    <3>5. PartWritten(Values(ms), i) = [j \in DOMAIN ms |-> IF j = i THEN e ELSE heap[ms[j]]]
      BY <1>8, <3>1, <3>2 DEF Values, PartWritten
    <3>. QED BY <3>1, <3>3, <3>4, <3>5
  <2>6. DOMAIN Values(heap[a].members) = DOMAIN heap[a].members BY DEF Values
  <2>7. Shown(a)' = Sheet(heap[a], heap[a].data, PartWritten(Values(heap[a].members), i),
                          Values(heap[a].refs))
    BY <2>1, <2>4, <2>5 DEF Shown, Sheet
  <2>. QED BY <1>t, <2>6, <2>7
<1>9. ASSUME NEW i \in DOMAIN heap[a].refs, x = heap[a].refs[i]
      PROVE  i \in DOMAIN s.refs /\ Shown(a)' = RefWritten(s, i)
  <2>1. x # a /\ heap'[a] = heap[a] BY <1>3, <1>6, <1>9 DEF PartOf
  <2>2. \A j \in DOMAIN heap[a].refs : j # i => heap'[heap[a].refs[j]] = heap[heap[a].refs[j]]
    BY <1>3, <1>6, <1>9 DEF PartOf
  <2>3. \A j \in DOMAIN heap[a].members : heap'[heap[a].members[j]] = heap[heap[a].members[j]]
    BY <1>3, <1>6, <1>9 DEF PartOf
  <2>4. Values(heap[a].members)' = Values(heap[a].members) BY <2>1, <2>3 DEF Values
  <2>5. Values(heap[a].refs)' = PartWritten(Values(heap[a].refs), i)
    <3>1. PICK ms, e : ms = heap[a].refs /\ e = heap'[ms[i]] OBVIOUS
    <3>2. e = [heap[ms[i]] EXCEPT !.data = Edited] BY <1>3, <1>9, <3>1
    <3>3. Values(heap[a].refs)' = [j \in DOMAIN ms |-> heap'[ms[j]]] BY <2>1, <3>1 DEF Values
    <3>4. \A j \in DOMAIN ms : heap'[ms[j]] = IF j = i THEN e ELSE heap[ms[j]] BY <2>2, <3>1
    <3>5. PartWritten(Values(ms), i) = [j \in DOMAIN ms |-> IF j = i THEN e ELSE heap[ms[j]]]
      BY <1>9, <3>1, <3>2 DEF Values, PartWritten
    <3>. QED BY <3>1, <3>3, <3>4, <3>5
  <2>6. DOMAIN Values(heap[a].refs) = DOMAIN heap[a].refs BY DEF Values
  <2>7. Shown(a)' = Sheet(heap[a], heap[a].data, Values(heap[a].members),
                          PartWritten(Values(heap[a].refs), i))
    BY <2>1, <2>4, <2>5 DEF Shown, Sheet
  <2>. QED BY <1>t, <2>6, <2>7
<1>10. \/ Shown(a)' = DefWritten(s)
       \/ \E j \in DOMAIN s.members : Shown(a)' = MemberWritten(s, j)
       \/ \E j \in DOMAIN s.refs : Shown(a)' = RefWritten(s, j)
  BY <1>2, <1>7, <1>8, <1>9
<1>11. Shown(held[c][n])' = Shown(a)' BY <1>0
<1>. QED BY <1>0, <1>4, <1>5, <1>10, <1>11 DEF s

\* A write to a definition a caller holds is a write to its own values.
LEMMA EditRefines ==
  ASSUME IndexInv, NEW c \in Callers, Edit(c)
  PROVE  \E n \in DOMAIN ShownCopies[c] :
           \/ Copies!EditDef(c, n)
           \/ \E j \in DOMAIN ShownCopies[c][n].members : Copies!EditMember(c, n, j)
           \/ \E j \in DOMAIN ShownCopies[c][n].refs : Copies!EditRef(c, n, j)
<1>0. UNCHANGED <<info, result, index, held>> BY DEF Edit
<1>1. PICK n \in DOMAIN held[c] : \E x \in Reached(held[c][n]) : heap' = [heap EXCEPT ![x].data = Edited]
  BY DEF Edit
<1>2. PICK x \in Reached(held[c][n]) : heap' = [heap EXCEPT ![x].data = Edited] BY <1>1
<1>3. /\ ShownCatalog' = ShownCatalog
      /\ \A b \in Callers : \A m \in DOMAIN held[b] :
           b # c \/ m # n => Shown(held[b][m])' = Shown(held[b][m])
  BY <1>0, <1>2, EditShows
<1>4. PICK s, t : s = Shown(held[c][n]) /\ t = Shown(held[c][n])' OBVIOUS
<1>5. \/ t = DefWritten(s)
      \/ \E j \in DOMAIN s.members : t = MemberWritten(s, j)
      \/ \E j \in DOMAIN s.refs : t = RefWritten(s, j)
  BY <1>0, <1>2, <1>4, EditShows
<1>6. /\ DOMAIN ShownCopies = Callers
      /\ \A b \in Callers : /\ DOMAIN ShownCopies[b] = DOMAIN held[b]
                            /\ \A m \in DOMAIN held[b] : ShownCopies[b][m] = Shown(held[b][m])
  BY DEF ShownCopies
<1>7. n \in DOMAIN ShownCopies[c] /\ ShownCopies[c][n] = s BY <1>4, <1>6
<1>8. ShownCopies' = [ShownCopies EXCEPT ![c] = [ShownCopies[c] EXCEPT ![n] = t]]
  <2>1. ShownCopies' = [b \in Callers |-> [m \in DOMAIN held[b] |-> Shown(held[b][m])']]
    BY <1>0 DEF ShownCopies
  <2>2. \A b \in Callers : \A m \in DOMAIN held[b] :
          Shown(held[b][m])' = IF b = c /\ m = n THEN t ELSE Shown(held[b][m])
    BY <1>3, <1>4
  <2>3. ShownCopies' = [b \in Callers |-> [m \in DOMAIN held[b] |->
                          IF b = c /\ m = n THEN t ELSE ShownCopies[b][m]]]
    BY <1>6, <2>1, <2>2
  <2>4. \A b \in Callers \ {c} : [m \in DOMAIN held[b] |-> ShownCopies[b][m]] = ShownCopies[b]
    BY DEF ShownCopies
  <2>5. [m \in DOMAIN held[c] |-> IF m = n THEN t ELSE ShownCopies[c][m]] = [ShownCopies[c] EXCEPT ![n] = t]
    <3>1. ShownCopies[c] = [m \in DOMAIN held[c] |-> ShownCopies[c][m]] BY DEF ShownCopies
    <3>. QED BY <3>1
  <2>. QED BY <1>6, <2>3, <2>4, <2>5
<1>9. CASE t = DefWritten(s)
  <2>1. Copies!EditDef(c, n)
    BY <1>0, <1>3, <1>7, <1>8, <1>9 DEF Copies!EditDef, Copies!Give, DefWritten, ShownCopies
  <2>. QED BY <1>7, <2>1
<1>10. ASSUME NEW j \in DOMAIN s.members, t = MemberWritten(s, j) PROVE Copies!EditMember(c, n, j)
  BY <1>0, <1>3, <1>7, <1>8, <1>10 DEF Copies!EditMember, Copies!Give, MemberWritten, ShownCopies
<1>11. ASSUME NEW j \in DOMAIN s.refs, t = RefWritten(s, j) PROVE Copies!EditRef(c, n, j)
  BY <1>0, <1>3, <1>7, <1>8, <1>11 DEF Copies!EditRef, Copies!Give, RefWritten, ShownCopies
<1>. QED BY <1>5, <1>7, <1>9, <1>10, <1>11

\* A lookup gives the value the catalog has, the tables or nothing.
LEMMA LookupRefines ==
  ASSUME IndexInv, NEW c \in Callers, NEW key, Lookup(c, key)
  PROVE  Copies!Find(c) \/ Copies!Miss(c)
<1> DEFINE defs == IF key \in DOMAIN index THEN <<index[key]>> ELSE <<>>
           given == [n \in DOMAIN defs |-> Shown(defs[n])]
<1>1. result = "ok" /\ GiveCopies(c, defs) BY DEF Lookup
<1>2. \A n \in DOMAIN defs : IsDef(defs[n]) BY <1>1, LookupGives DEF IndexInv
<1> HIDE DEF defs
<1>3. /\ ShownCopies' = [ShownCopies EXCEPT ![c] = given]
      /\ ShownCatalog' = ShownCatalog /\ result' = result
  BY <1>1, <1>2, GiveShows
<1>5. CASE key \in DOMAIN index
  <2>1. given = <<Shown(index[key])>> BY <1>5 DEF defs
  <2>2. key \in DOMAIN ShownCatalog.find /\ ShownCatalog.find[key] = Shown(index[key])
    BY <1>5 DEF ShownCatalog
  <2> HIDE DEF given
  <2>3. Copies!Give(c, <<ShownCatalog.find[key]>>)
    BY <1>3, <2>1, <2>2 DEF Copies!Give, ShownCopies
  <2>. QED BY <1>1, <2>2, <2>3 DEF Copies!Find
<1>6. CASE key \notin DOMAIN index
  <2>1. given = <<>> BY <1>6 DEF defs
  <2> HIDE DEF given
  <2>. QED BY <1>1, <1>3, <2>1 DEF Copies!Miss, Copies!Give, ShownCopies
<1>. QED BY <1>5, <1>6

LEMMA TablesRefines ==
  ASSUME IndexInv, NEW c \in Callers, Tables(c) PROVE Copies!List(c)
<1>1. result = "ok" /\ GiveCopies(c, TableAddrs) BY DEF Tables
<1>2. \A n \in DOMAIN TableAddrs : IsDef(TableAddrs[n]) BY <1>1, TablesGives DEF IndexInv
<1> DEFINE given == [n \in DOMAIN TableAddrs |-> Shown(TableAddrs[n])]
<1>3. /\ ShownCopies' = [ShownCopies EXCEPT ![c] = given]
      /\ ShownCatalog' = ShownCatalog /\ result' = result
  BY <1>1, <1>2, GiveShows
<1>4. ShownCatalog.tables = given BY <1>1 DEF ShownCatalog
<1> HIDE DEF given
<1>. QED BY <1>1, <1>3, <1>4 DEF Copies!List, Copies!Give, ShownCopies

\* The first published catalog is New's.
LEMMA NewRefines == ASSUME IndexInv, New PROVE Copies!Publish
<1>1. result = "none" /\ result' = "ok" /\ held' = held BY DEF New
<1>2. \A c \in Callers : DOMAIN held[c] = {} BY <1>1 DEF IndexInv
<1>3. \A c \in Callers : [n \in DOMAIN held[c] |-> Shown(held[c][n])]' = [n \in DOMAIN held[c] |-> Shown(held[c][n])]
  BY <1>1, <1>2
<1>4. ShownCopies' = ShownCopies BY <1>3 DEF ShownCopies
<1>. QED BY <1>1, <1>4 DEF Copies!Publish, ShownCopies

\* A step that touches no object, index or definition held changes nothing a
\* caller can see.
LEMMA SilentRefines ==
  ASSUME UNCHANGED <<info, heap, index, held>>, (result' = "ok") <=> (result = "ok")
  PROVE  UNCHANGED Copies!vars
<1>1. \A a : Shown(a)' = Shown(a) BY DEF Shown, Values
<1>2. TableAddrs' = TableAddrs BY DEF TableAddrs
<1>3. \A key \in DOMAIN index : Shown(index[key])' = Shown(index[key])
  <2> TAKE key \in DOMAIN index
  <2>1. PICK a : a = index[key] OBVIOUS
  <2>. QED BY <1>1, <2>1
<1>4. \A i \in DOMAIN TableAddrs : Shown(TableAddrs[i])' = Shown(TableAddrs[i])
  <2> TAKE i \in DOMAIN TableAddrs
  <2>1. PICK a : a = TableAddrs[i] OBVIOUS
  <2>. QED BY <1>1, <1>2, <2>1
<1>5. \A c \in Callers : \A n \in DOMAIN held[c] : Shown(held[c][n])' = Shown(held[c][n])
  <2> TAKE c \in Callers
  <2> TAKE n \in DOMAIN held[c]
  <2>1. PICK a : a = held[c][n] OBVIOUS
  <2>. QED BY <1>1, <2>1
<1>6. ShownCatalog' = ShownCatalog
  <2>1. [key \in DOMAIN index |-> Shown(index[key])]' = [key \in DOMAIN index |-> Shown(index[key])]
    BY <1>3
  <2>2. [i \in DOMAIN TableAddrs |-> Shown(TableAddrs[i])]' = [i \in DOMAIN TableAddrs |-> Shown(TableAddrs[i])]
    BY <1>2, <1>4
  <2>. QED BY <2>1, <2>2 DEF ShownCatalog
<1>7. ShownCopies' = ShownCopies BY <1>5 DEF ShownCopies
<1>. QED BY <1>6, <1>7 DEF Copies!vars, ShownCopies

\* The Pipeline with its pointers behaves like the Catalog of values: nothing
\* that callers write through the lists and accessors of what New, the lookups
\* and Tables hand out, or the loader to its message, is seen by anybody else.
THEOREM PipelineIsAValue == Spec => ValueSemantics
<1>1. Init => Copies!Init
  <2> SUFFICES ASSUME Init PROVE Copies!Init
    OBVIOUS
  <2>1. result = "none" /\ index = <<>> /\ held = [c \in Callers |-> <<>>] BY DEF Init, IndexInit
  <2>2. ShownCatalog = [find |-> <<>>, tables |-> <<>>]
    <3>1. [key \in DOMAIN index |-> Shown(index[key])] = <<>> BY <2>1
    <3>. QED BY <2>1, <3>1 DEF ShownCatalog
  <2>3. ShownCopies = [c \in Callers |-> <<>>] BY <2>1 DEF ShownCopies
  <2>. QED BY <2>1, <2>2, <2>3 DEF Copies!Init, ShownCopies
<1>2. IndexInv /\ [Next]_vars => [Copies!Next]_(Copies!vars)
  <2> SUFFICES ASSUME IndexInv, [Next]_vars PROVE [Copies!Next]_(Copies!vars)
    OBVIOUS
  <2>1. CASE New BY <2>1, NewRefines DEF Copies!Next
  <2>2. CASE NewFails BY <2>2, SilentRefines DEF NewFails
  <2>3. CASE EditMessage BY <2>3, SilentRefines DEF EditMessage
  <2>4. ASSUME NEW c \in Callers, Tables(c) PROVE Copies!Next
    BY <2>4, TablesRefines DEF Copies!Next
  <2>5. ASSUME NEW c \in Callers, NEW key, Lookup(c, key) PROVE Copies!Next
    BY <2>5, LookupRefines DEF Copies!Next
  <2>6. ASSUME NEW c \in Callers, Edit(c) PROVE Copies!Next
    BY <2>6, EditRefines DEF Copies!Next, ShownCopies
  <2>7. CASE UNCHANGED vars BY <2>7, SilentRefines DEF vars
  <2>. QED BY <2>1, <2>2, <2>3, <2>4, <2>5, <2>6, <2>7 DEF Next
<1>. QED BY <1>1, <1>2, IndexStart, IndexStep, PTL DEF Spec, ValueSemantics, Copies!Spec

-----------------------------------------------------------------------------
(* The search of a message graph, given the children ch of each message and *)
(* the messages wr that wrap nil                                            *)

Children == [Messages -> SUBSET Pointers]
ClosedIn(ch, T) == \A m \in T \ {NilMessage} : ch[m] \subseteq T
ReachIn(ch, S) == {p \in Pointers : \A T \in SUBSET Pointers : S \subseteq T /\ ClosedIn(ch, T) => p \in T}
SoundIn(ch, wr) ==
  /\ NilMessage \notin ReachIn(ch, {Root}) /\ ReachIn(ch, {Root}) \cap wr = {}
  /\ \A m \in ReachIn(ch, {Root}) : m \notin ReachIn(ch, ch[m])

\* ReachIn(ch, S) is the least set that holds S and the children of its messages.
LEMMA ReachLeast ==
  ASSUME NEW ch \in Children, NEW S \in SUBSET Pointers
  PROVE  /\ S \subseteq ReachIn(ch, S) /\ ReachIn(ch, S) \subseteq Pointers
         /\ \A m \in Messages : m \in ReachIn(ch, S) => ch[m] \subseteq ReachIn(ch, S)
         /\ \A T \in SUBSET Pointers : S \subseteq T /\ ClosedIn(ch, T) => ReachIn(ch, S) \subseteq T
<1>1. S \subseteq ReachIn(ch, S) /\ ReachIn(ch, S) \subseteq Pointers BY DEF ReachIn
<1>2. ASSUME NEW m \in Messages, m \in ReachIn(ch, S), NEW c \in ch[m] PROVE c \in ReachIn(ch, S)
  <2>1. c \in Pointers BY DEF Children
  <2>2. ASSUME NEW T \in SUBSET Pointers, S \subseteq T, ClosedIn(ch, T) PROVE c \in T
    <3>1. m \in T BY <1>2, <2>2 DEF ReachIn
    <3>2. m # NilMessage BY GraphAssumption
    <3>3. ch[m] \subseteq T BY <2>2, <3>1, <3>2 DEF ClosedIn
    <3>. QED BY <3>3
  <2>. QED BY <2>1, <2>2 DEF ReachIn
<1>3. \A T \in SUBSET Pointers : S \subseteq T /\ ClosedIn(ch, T) => ReachIn(ch, S) \subseteq T
  BY DEF ReachIn
<1>. QED BY <1>1, <1>2, <1>3

\* The visits that ended: nothing below them is wrong.
DoneOK(ch, wr, dn) ==
  \A m \in dn : m \notin wr /\ ch[m] \subseteq dn /\ m \notin ReachIn(ch, ch[m])

Frames == [msg : Messages, rest : SUBSET Pointers]

\* The active visit i: it is below the ones before it, and the children it has
\* met are done but for the one that is being visited.
Below(ch, st, i) ==
  \A j \in 1..Len(st) : j < i =>
    st[i].msg \in ReachIn(ch, ch[st[j].msg]) /\ st[i].msg # st[j].msg
Met(ch, st, dn, i) ==
  \A c \in ch[st[i].msg] : c \in st[i].rest \/ c \in dn \/ (i < Len(st) /\ c = st[i + 1].msg)
FrameOK(ch, wr, st, se, dn, i) ==
  /\ st[i].msg \in se \ dn /\ st[i].msg \notin wr /\ st[i].rest \subseteq ch[st[i].msg]
  /\ Met(ch, st, dn, i) /\ Below(ch, st, i)

\* The stack holds the visits that began and have not ended.
StackOK(ch, wr, st, se, dn) ==
  /\ st \in Seq(Frames)
  /\ \A i \in 1..Len(st) : FrameOK(ch, wr, st, se, dn, i)
  /\ \A m \in se \ dn : \E i \in 1..Len(st) : m = st[i].msg

\* What has been met comes from the root; the visits that ended are sound, and the
\* others are on the stack unless an error ended them, of which a reason exists.
GraphInv ==
  /\ children \in Children /\ wrapped \subseteq Messages
  /\ seen \subseteq Messages /\ done \subseteq seen /\ seen \subseteq ReachIn(children, {Root})
  /\ DoneOK(children, wrapped, done)
  /\ verdict \in {"none", "ok", "error"}
  /\ verdict # "error" => StackOK(children, wrapped, stack, seen, done)
  /\ verdict # "none" => stack = <<>>
  /\ stack # <<>> => Root \in seen
  /\ verdict = "none" /\ stack = <<>> => seen = {}
  /\ verdict = "ok" => Root \in done
  /\ verdict = "error" => ~SoundIn(children, wrapped)
  /\ count \in Nat /\ count <= Cardinality(seen)

\* A child c of the innermost visit is reached, and if its visit is active it
\* contains itself.
LEMMA ChildReached ==
  ASSUME NEW ch \in Children, NEW wr, NEW st, NEW se \in SUBSET Messages, NEW dn,
         StackOK(ch, wr, st, se, dn), st # <<>>, NEW c \in st[Len(st)].rest,
         se \subseteq ReachIn(ch, {Root})
  PROVE  /\ c \in ReachIn(ch, {Root}) /\ c \in Pointers
         /\ \A i \in 1..Len(st) : c \in ReachIn(ch, ch[st[i].msg])
<1>. DEFINE L == Len(st)
            top == st[L].msg
<1>0. st \in Seq(Frames) BY DEF StackOK
<1>1. L \in Nat /\ L >= 1 /\ L \in 1..L BY <1>0
<1>2. \A i \in 1..L : st[i] \in Frames /\ st[i].msg \in Messages /\ ch[st[i].msg] \in SUBSET Pointers
  <2>. TAKE i \in 1..L
  <2>1. st[i] \in Frames BY <1>0
  <2>2. st[i].msg \in Messages BY <2>1 DEF Frames
  <2>. QED BY <2>1, <2>2 DEF Children
<1>3. FrameOK(ch, wr, st, se, dn, L) BY <1>1 DEF StackOK
<1>4. top \in se /\ c \in ch[top] BY <1>3 DEF FrameOK
<1>5. {Root} \in SUBSET Pointers BY GraphAssumption DEF Pointers
<1>6. top \in ReachIn(ch, {Root}) /\ top \in Messages BY <1>1, <1>2, <1>4
<1>. HIDE DEF top, L
<1>7. c \in ReachIn(ch, {Root}) BY <1>4, <1>5, <1>6, ReachLeast
<1>8. c \in Pointers BY <1>5, <1>7, ReachLeast
<1>9. ASSUME NEW i \in 1..L PROVE c \in ReachIn(ch, ch[st[i].msg])
  <2>1. CASE i = L
    <3>1. ch[top] \in SUBSET Pointers BY <1>1, <1>2 DEF top
    <3>2. ch[top] \subseteq ReachIn(ch, ch[top]) BY <3>1, ReachLeast
    <3>. QED BY <1>4, <2>1, <3>2 DEF top
  <2>2. CASE i # L
    <3>1. i < L BY <1>1, <2>2
    <3>2. top \in ReachIn(ch, ch[st[i].msg]) BY <1>3, <3>1 DEF FrameOK, Below, top, L
    <3>3. ch[st[i].msg] \in SUBSET Pointers BY <1>2
    <3>4. ch[top] \subseteq ReachIn(ch, ch[st[i].msg]) BY <1>6, <3>2, <3>3, ReachLeast
    <3>. QED BY <1>4, <3>4
  <2>. QED BY <2>1, <2>2
<1>. QED BY <1>7, <1>8, <1>9 DEF L

\* The stack after the innermost visit took the child c to meet it.
Taken(st, c) == [st EXCEPT ![Len(st)].rest = @ \ {c}]

\* Only the innermost visit's remaining children change, by c.
LEMMA TakenFacts ==
  ASSUME NEW st \in Seq(Frames), st # <<>>, NEW c
  PROVE  LET t == Taken(st, c) IN
         /\ t \in Seq(Frames) /\ Len(t) = Len(st) /\ Len(st) \in Nat /\ Len(st) >= 1
         /\ \A i \in 1..Len(st) : /\ t[i].msg = st[i].msg /\ t[i].rest \subseteq st[i].rest
                                  /\ \A d \in st[i].rest : d \in t[i].rest \/ (i = Len(st) /\ d = c)
<1>. DEFINE L == Len(st)
            t == Taken(st, c)
<1>1. L \in Nat /\ L >= 1 /\ DOMAIN st = 1..L OBVIOUS
<1>2. \A i \in 1..L : st[i] \in Frames OBVIOUS
<1>3. \A i \in 1..L : t[i] = IF i = L THEN [st[i] EXCEPT !.rest = @ \ {c}] ELSE st[i]
  BY <1>1 DEF Taken
<1>4. t = [i \in 1..L |-> t[i]] BY <1>1 DEF Taken
<1>. HIDE DEF t
<1>5. ASSUME NEW i \in 1..L
      PROVE  /\ t[i] \in Frames /\ t[i].msg = st[i].msg /\ t[i].rest \subseteq st[i].rest
             /\ \A d \in st[i].rest : d \in t[i].rest \/ (i = L /\ d = c)
  <2>1. st[i] = [msg |-> st[i].msg, rest |-> st[i].rest] /\ st[i].msg \in Messages
        /\ st[i].rest \in SUBSET Pointers
    BY <1>2 DEF Frames
  <2>2. CASE i = L
    <3>1. t[i] = [msg |-> st[i].msg, rest |-> st[i].rest \ {c}] BY <1>3, <2>1, <2>2
    <3>. QED BY <2>1, <2>2, <3>1 DEF Frames
  <2>3. CASE i # L
    <3>1. t[i] = st[i] BY <1>3, <2>3
    <3>. QED BY <1>2, <3>1
  <2>. QED BY <2>2, <2>3
<1>6. t \in [1..L -> Frames] BY <1>4, <1>5
<1>7. t \in Seq(Frames) /\ Len(t) = L BY <1>1, <1>6
<1>. QED BY <1>1, <1>5, <1>7 DEF t

\* What the frames of a stack say one by one.
LEMMA StackFacts ==
  ASSUME NEW ch \in Children, NEW wr, NEW st, NEW se, NEW dn, StackOK(ch, wr, st, se, dn)
  PROVE  /\ st \in Seq(Frames) /\ Len(st) \in Nat
         /\ \A i \in 1..Len(st) :
              /\ st[i].msg \in Messages /\ st[i].msg \in se \ dn /\ st[i].msg \notin wr
              /\ st[i].rest \subseteq ch[st[i].msg]
              /\ Met(ch, st, dn, i) /\ Below(ch, st, i)
<1>1. st \in Seq(Frames) /\ Len(st) \in Nat BY DEF StackOK
<1>2. ASSUME NEW i \in 1..Len(st) PROVE st[i].msg \in Messages
  <2>1. st[i] \in Frames BY <1>1
  <2>. QED BY <2>1 DEF Frames
<1>3. \A i \in 1..Len(st) : FrameOK(ch, wr, st, se, dn, i) BY DEF StackOK
<1>. QED BY <1>1, <1>2, <1>3 DEF FrameOK

\* A child that is done is passed over.
LEMMA Skip ==
  ASSUME NEW ch \in Children, NEW wr, NEW st, NEW se, NEW dn,
         StackOK(ch, wr, st, se, dn), st # <<>>, NEW c \in dn
  PROVE  StackOK(ch, wr, Taken(st, c), se, dn)
<1>. DEFINE t == Taken(st, c)
            L == Len(st)
<1>1. st \in Seq(Frames) BY StackFacts
<1>2. /\ t \in Seq(Frames) /\ Len(t) = L /\ L \in Nat /\ L >= 1
      /\ \A i \in 1..L : /\ t[i].msg = st[i].msg /\ t[i].rest \subseteq st[i].rest
                         /\ \A d \in st[i].rest : d \in t[i].rest \/ (i = L /\ d = c)
  BY <1>1, TakenFacts
<1>. HIDE DEF t, L
<1>3. ASSUME NEW i \in 1..L PROVE FrameOK(ch, wr, t, se, dn, i)
  <2>1. /\ st[i].msg \in se \ dn /\ st[i].msg \notin wr /\ st[i].rest \subseteq ch[st[i].msg]
        /\ Met(ch, st, dn, i) /\ Below(ch, st, i)
    BY StackFacts DEF L
  <2>2. ASSUME NEW d \in ch[t[i].msg]
        PROVE  d \in t[i].rest \/ d \in dn \/ (i < Len(t) /\ d = t[i + 1].msg)
    <3>1. d \in st[i].rest \/ d \in dn \/ (i < L /\ d = st[i + 1].msg)
      BY <1>2, <2>1 DEF Met, L
    <3>2. i < L => t[i + 1].msg = st[i + 1].msg
      <4>1. i < L => i + 1 \in 1..L BY <1>2
      <4>. QED BY <1>2, <4>1
    <3>. QED BY <1>2, <3>1, <3>2
  <2>3. Below(ch, t, i) BY <1>2, <2>1 DEF Below, L
  <2>. QED BY <1>2, <2>1, <2>2, <2>3 DEF FrameOK, Met
<1>4. ASSUME NEW m \in se \ dn PROVE \E i \in 1..L : m = t[i].msg
  <2>1. \E i \in 1..L : m = st[i].msg BY DEF StackOK, L
  <2>. QED BY <1>2, <2>1
<1>. QED BY <1>2, <1>3, <1>4 DEF StackOK, t

\* The first visit.
LEMMA PushFirst ==
  ASSUME NEW ch \in Children, NEW wr, NEW c \in Messages, c \notin wr
  PROVE  StackOK(ch, wr, <<[msg |-> c, rest |-> ch[c]]>>, {c}, {})
<1>. DEFINE st == <<[msg |-> c, rest |-> ch[c]]>>
<1>1. [msg |-> c, rest |-> ch[c]] \in Frames BY DEF Frames, Children
<1>2. st \in Seq(Frames) /\ Len(st) = 1 /\ st[1].msg = c /\ st[1].rest = ch[c] BY <1>1
<1>. HIDE DEF st
<1>3. FrameOK(ch, wr, st, {c}, {}, 1) BY <1>2 DEF FrameOK, Met, Below
<1>4. \A i \in 1..Len(st) : i = 1 BY <1>2
<1>5. 1 \in 1..Len(st) BY <1>2
<1>6. \A i \in 1..Len(st) : FrameOK(ch, wr, st, {c}, {}, i) BY <1>3, <1>4
<1>7. \A m \in {c} \ {} : \E i \in 1..Len(st) : m = st[i].msg BY <1>2, <1>5
<1>. QED BY <1>2, <1>6, <1>7 DEF StackOK, st

\* A child whose visit begins.
LEMMA Push ==
  ASSUME NEW ch \in Children, NEW wr, NEW st, NEW se \in SUBSET Messages, NEW dn,
         StackOK(ch, wr, st, se, dn), st # <<>>, NEW c \in st[Len(st)].rest,
         se \subseteq ReachIn(ch, {Root}), dn \subseteq se,
         c \in Messages, c \notin se, c \notin wr
  PROVE  StackOK(ch, wr, Append(Taken(st, c), [msg |-> c, rest |-> ch[c]]), se \cup {c}, dn)
<1>. DEFINE t == Taken(st, c)
            L == Len(st)
            f == [msg |-> c, rest |-> ch[c]]
            u == Append(t, f)
<1>1. st \in Seq(Frames) BY StackFacts
<1>2. /\ t \in Seq(Frames) /\ Len(t) = L /\ L \in Nat /\ L >= 1
      /\ \A i \in 1..L : /\ t[i].msg = st[i].msg /\ t[i].rest \subseteq st[i].rest
                         /\ \A d \in st[i].rest : d \in t[i].rest \/ (i = L /\ d = c)
  BY <1>1, TakenFacts
<1>3. f \in Frames /\ f.msg = c /\ f.rest = ch[c] BY DEF Frames, Children
<1>. HIDE DEF t, L, f
<1>4. u \in Seq(Frames) /\ Len(u) = L + 1 /\ u[L + 1] = f /\ \A i \in 1..L : u[i] = t[i]
  BY <1>2, <1>3
<1>. HIDE DEF u
<1>5. u[L + 1].msg = c /\ u[L + 1].rest = ch[c] BY <1>3, <1>4
<1>6. \A i \in 1..L : /\ u[i].msg = st[i].msg /\ u[i].rest \subseteq st[i].rest
                      /\ \A d \in st[i].rest : d \in u[i].rest \/ (i = L /\ d = c)
  BY <1>2, <1>4
<1>7. ASSUME NEW i \in 1..L PROVE FrameOK(ch, wr, u, se \cup {c}, dn, i)
  <2>1. /\ st[i].msg \in se \ dn /\ st[i].msg \notin wr /\ st[i].rest \subseteq ch[st[i].msg]
        /\ Met(ch, st, dn, i) /\ Below(ch, st, i)
    BY StackFacts DEF L
  <2>2. ASSUME NEW d \in ch[u[i].msg]
        PROVE  d \in u[i].rest \/ d \in dn \/ (i < Len(u) /\ d = u[i + 1].msg)
    <3>1. d \in st[i].rest \/ d \in dn \/ (i < L /\ d = st[i + 1].msg)
      BY <1>6, <2>1 DEF Met, L
    <3>2. i < L => u[i + 1].msg = st[i + 1].msg
      <4>1. i < L => i + 1 \in 1..L BY <1>2
      <4>. QED BY <1>6, <4>1
    <3>3. i < Len(u) BY <1>2, <1>4
    <3>. QED BY <1>5, <1>6, <3>1, <3>2, <3>3
  <2>3. Below(ch, u, i)
    <3>1. ASSUME NEW j \in 1..Len(u), j < i
          PROVE  u[i].msg \in ReachIn(ch, ch[u[j].msg]) /\ u[i].msg # u[j].msg
      <4>1. j \in 1..L BY <1>2, <1>4, <3>1
      <4>2. st[i].msg \in ReachIn(ch, ch[st[j].msg]) /\ st[i].msg # st[j].msg
        BY <2>1, <3>1, <4>1 DEF Below, L
      <4>. QED BY <1>6, <4>1, <4>2
    <3>. QED BY <3>1 DEF Below
  <2>4. u[i].msg \in (se \cup {c}) \ dn /\ u[i].msg \notin wr /\ u[i].rest \subseteq ch[u[i].msg]
    BY <1>6, <2>1
  <2>. QED BY <2>2, <2>3, <2>4 DEF FrameOK, Met
<1>8. FrameOK(ch, wr, u, se \cup {c}, dn, L + 1)
  <2>1. u[L + 1].msg \in (se \cup {c}) \ dn /\ u[L + 1].msg \notin wr BY <1>5
  <2>2. Met(ch, u, dn, L + 1) BY <1>5 DEF Met
  <2>3. \A i \in 1..L : c \in ReachIn(ch, ch[st[i].msg]) BY ChildReached DEF L
  <2>4. \A i \in 1..L : st[i].msg \in se BY StackFacts DEF L
  <2>5. ASSUME NEW j \in 1..Len(u), j < L + 1
        PROVE  u[L + 1].msg \in ReachIn(ch, ch[u[j].msg]) /\ u[L + 1].msg # u[j].msg
    <3>1. j \in 1..L BY <1>2, <1>4, <2>5
    <3>. QED BY <1>5, <1>6, <2>3, <2>4, <3>1
  <2>6. Below(ch, u, L + 1) BY <2>5 DEF Below
  <2>. QED BY <1>5, <2>1, <2>2, <2>6 DEF FrameOK
<1>9. ASSUME NEW i \in 1..Len(u) PROVE FrameOK(ch, wr, u, se \cup {c}, dn, i)
  <2>1. i \in 1..L \/ i = L + 1 BY <1>2, <1>4
  <2>. QED BY <1>7, <1>8, <2>1
<1>10. ASSUME NEW m \in (se \cup {c}) \ dn PROVE \E i \in 1..Len(u) : m = u[i].msg
  <2>1. L + 1 \in 1..Len(u) /\ \A i \in 1..L : i \in 1..Len(u) BY <1>2, <1>4
  <2>2. CASE m = c BY <1>5, <2>1, <2>2
  <2>3. CASE m # c
    <3>1. PICK i \in 1..L : m = st[i].msg BY <2>3 DEF StackOK, L
    <3>. QED BY <1>6, <2>1, <3>1
  <2>. QED BY <2>2, <2>3
<1>. QED BY <1>4, <1>9, <1>10 DEF StackOK, u, t, f

\* A visit that ends without an error.
LEMMA Pop ==
  ASSUME NEW ch \in Children, NEW wr, NEW st, NEW se \in SUBSET Messages, NEW dn,
         StackOK(ch, wr, st, se, dn), DoneOK(ch, wr, dn), dn \subseteq se,
         st # <<>>, st[Len(st)].rest = {}
  PROVE  /\ DoneOK(ch, wr, dn \cup {st[Len(st)].msg}) /\ st[Len(st)].msg \in se
         /\ StackOK(ch, wr, SubSeq(st, 1, Len(st) - 1), se, dn \cup {st[Len(st)].msg})
         /\ Len(SubSeq(st, 1, Len(st) - 1)) = Len(st) - 1
<1>. DEFINE L == Len(st)
            top == st[L].msg
            u == SubSeq(st, 1, L - 1)
            e == dn \cup {top}
<1>1. st \in Seq(Frames) /\ L \in Nat /\ L >= 1 /\ L \in 1..L BY StackFacts
<1>2. /\ top \in Messages /\ top \in se \ dn /\ top \notin wr
      /\ Met(ch, st, dn, L) /\ Below(ch, st, L)
  BY <1>1, StackFacts
<1>3. ch[top] \subseteq dn BY <1>1, <1>2 DEF Met
<1>. HIDE DEF top, L, e
<1>4. u \in Seq(Frames) /\ Len(u) = L - 1 /\ \A i \in 1..(L - 1) : u[i] = st[i]
  <2>1. L - 1 \in Nat /\ \A i \in 1..(L - 1) : i \in 1..L BY <1>1
  <2>2. DOMAIN st = 1..L BY <1>1 DEF L
  <2>3. \A i \in 1..(L - 1) : st[i] \in Frames BY <1>1, <2>1, <2>2
  <2>4. u = [i \in 1..(L - 1) |-> st[i]] BY <1>1, <2>1
  <2>. HIDE DEF u
  <2>5. u \in [1..(L - 1) -> Frames] BY <2>3, <2>4
  <2>. QED BY <2>1, <2>4, <2>5
<1>. HIDE DEF u
<1>5. DoneOK(ch, wr, e)
  <2>1. dn \in SUBSET Pointers BY DEF Pointers
  <2>2. ClosedIn(ch, dn) BY DEF ClosedIn, DoneOK
  <2>3. ch[top] \in SUBSET Pointers BY <1>2 DEF Children
  <2>4. ReachIn(ch, ch[top]) \subseteq dn BY <1>3, <2>1, <2>2, <2>3, ReachLeast
  <2>5. top \notin ReachIn(ch, ch[top]) BY <1>2, <2>4
  <2>. QED BY <1>2, <1>3, <2>5 DEF DoneOK, e
<1>6. ASSUME NEW i \in 1..(L - 1) PROVE FrameOK(ch, wr, u, se, e, i)
  <2>0. i \in 1..L /\ i < L BY <1>1
  <2>1. /\ st[i].msg \in se \ dn /\ st[i].msg \notin wr /\ st[i].rest \subseteq ch[st[i].msg]
        /\ Met(ch, st, dn, i) /\ Below(ch, st, i)
    BY <2>0, StackFacts DEF L
  <2>2. u[i] = st[i] BY <1>4
  <2>3. st[i].msg # top BY <1>2, <2>0 DEF Below, L, top
  <2>4. ASSUME NEW d \in ch[u[i].msg]
        PROVE  d \in u[i].rest \/ d \in e \/ (i < Len(u) /\ d = u[i + 1].msg)
    <3>1. d \in st[i].rest \/ d \in dn \/ (i < L /\ d = st[i + 1].msg)
      BY <2>1, <2>2 DEF Met, L
    <3>2. CASE i < L - 1
      <4>1. i + 1 \in 1..(L - 1) BY <1>1, <3>2
      <4>2. u[i + 1] = st[i + 1] BY <1>4, <4>1
      <4>3. i < Len(u) BY <1>4, <3>2
      <4>. QED BY <2>2, <3>1, <4>2, <4>3 DEF e
    <3>3. CASE ~(i < L - 1)
      <4>1. i + 1 = L BY <1>1, <3>3
      <4>2. st[i + 1].msg = top BY <4>1 DEF top
      <4>. QED BY <2>2, <3>1, <4>2 DEF e
    <3>. QED BY <3>2, <3>3
  <2>5. Below(ch, u, i)
    <3>1. ASSUME NEW j \in 1..Len(u), j < i
          PROVE  u[i].msg \in ReachIn(ch, ch[u[j].msg]) /\ u[i].msg # u[j].msg
      <4>1. j \in 1..(L - 1) /\ j \in 1..L BY <1>1, <1>4, <3>1
      <4>2. st[i].msg \in ReachIn(ch, ch[st[j].msg]) /\ st[i].msg # st[j].msg
        BY <2>1, <3>1, <4>1 DEF Below, L
      <4>3. u[j] = st[j] BY <1>4, <4>1
      <4>. QED BY <2>2, <4>2, <4>3
    <3>. QED BY <3>1 DEF Below
  <2>6. u[i].msg \in se \ e /\ u[i].msg \notin wr /\ u[i].rest \subseteq ch[u[i].msg]
    BY <2>1, <2>2, <2>3 DEF e
  <2>. QED BY <2>4, <2>5, <2>6 DEF FrameOK, Met
<1>7. ASSUME NEW m \in se \ e PROVE \E i \in 1..(L - 1) : m = u[i].msg
  <2>1. m \in se \ dn /\ m # top BY DEF e
  <2>2. PICK i \in 1..L : m = st[i].msg BY <2>1 DEF StackOK, L
  <2>3. i # L BY <2>1, <2>2 DEF top
  <2>4. i \in 1..(L - 1) BY <1>1, <2>3
  <2>5. u[i] = st[i] BY <1>4, <2>4
  <2>. QED BY <2>2, <2>4, <2>5
<1>8. StackOK(ch, wr, u, se, e) BY <1>4, <1>6, <1>7 DEF StackOK
<1>9. top \in se BY <1>2
<1>. QED BY <1>4, <1>5, <1>8, <1>9 DEF u, e, top, L

\* The root is reached, so a reached nil, a reached wrapper of nil and a reached
\* message below itself each make the graph unsound.
LEMMA RootReached ==
  ASSUME NEW ch \in Children
  PROVE  {Root} \in SUBSET Pointers /\ Root \in ReachIn(ch, {Root})
<1>1. {Root} \in SUBSET Pointers BY GraphAssumption DEF Pointers
<1>2. {Root} \subseteq ReachIn(ch, {Root}) BY <1>1, ReachLeast
<1>. QED BY <1>1, <1>2

\* A message is counted once.
LEMMA CountOne ==
  ASSUME NEW se \in SUBSET Messages, NEW m \in Messages, m \notin se,
         NEW n \in Nat, n <= Cardinality(se)
  PROVE  n <= Cardinality(se \cup {m}) /\ n + 1 <= Cardinality(se \cup {m})
<1>1. IsFiniteSet(se) BY GraphAssumption, FS_Subset
<1>2. Cardinality(se) \in Nat BY <1>1, FS_CardinalityType
<1>3. Cardinality(se \cup {m}) = Cardinality(se) + 1 BY <1>1, FS_AddElement
<1>. QED BY <1>2, <1>3

\* Before the search nothing has been met.
LEMMA GraphBegins ==
  ASSUME GraphInit
  PROVE  GraphInv
<1>1. /\ children \in Children /\ wrapped \subseteq Messages /\ stack = <<>> /\ seen = {}
      /\ done = {} /\ verdict = "none" /\ count = 0
  BY DEF GraphInit, SearchInit, Children
<1>2. DoneOK(children, wrapped, done) BY <1>1 DEF DoneOK
<1>3. StackOK(children, wrapped, stack, seen, done) BY <1>1 DEF StackOK
<1>4. Cardinality(seen) = 0 BY <1>1, FS_EmptySet
<1>. QED BY <1>1, <1>2, <1>3, <1>4 DEF GraphInv

\* The search begins at the root.
LEMMA BeginKeeps ==
  ASSUME GraphInv, Begin
  PROVE  GraphInv'
<1>1. /\ children \in Children /\ wrapped \subseteq Messages /\ seen = {} /\ done = {}
      /\ verdict = "none" /\ count \in Nat /\ count <= Cardinality(seen)
  BY DEF GraphInv, Begin
<1>2. Root \in Messages /\ Root # NilMessage BY GraphAssumption
<1>3. /\ seen' = {Root} /\ children' = children /\ wrapped' = wrapped /\ done' = {}
      /\ IF Root \in wrapped THEN Refuse ELSE Enter(Root, <<>>)
  BY <1>1, <1>2 DEF Begin, Visit
<1>4. Root \in ReachIn(children, {Root}) BY <1>1, RootReached
<1>5. DoneOK(children, wrapped, {}) BY DEF DoneOK
<1>6. count <= Cardinality({Root}) /\ count + 1 <= Cardinality({Root})
  <2>1. seen \in SUBSET Messages /\ Root \notin seen /\ seen \cup {Root} = {Root} BY <1>1
  <2>. QED BY <1>1, <1>2, <2>1, CountOne
<1>7. CASE Root \in wrapped
  <2>1. ~SoundIn(children, wrapped) BY <1>4, <1>7 DEF SoundIn
  <2>2. verdict' = "error" /\ stack' = <<>> /\ count' = count BY <1>3, <1>7 DEF Refuse
  <2>. QED BY <1>1, <1>2, <1>3, <1>4, <1>5, <1>6, <2>1, <2>2 DEF GraphInv
<1>8. CASE Root \notin wrapped
  <2>1. /\ verdict' = "none" /\ count' = count + 1
        /\ stack' = Append(<<>>, [msg |-> Root, rest |-> children[Root]])
    BY <1>1, <1>3, <1>8 DEF Enter
  <2>2. stack' = <<[msg |-> Root, rest |-> children[Root]]>> BY <2>1
  <2>3. StackOK(children, wrapped, stack', {Root}, {}) BY <1>1, <1>2, <1>8, <2>2, PushFirst
  <2>4. stack' # <<>> BY <2>2
  <2>5. count + 1 \in Nat BY <1>1
  <2>. QED BY <1>1, <1>2, <1>3, <1>4, <1>5, <1>6, <2>1, <2>3, <2>4, <2>5 DEF GraphInv
<1>. QED BY <1>7, <1>8

\* The innermost visit meets a child.
LEMMA VisitChildKeeps ==
  ASSUME GraphInv, NEW c \in Pointers, VisitChild(c)
  PROVE  GraphInv'
<1>. DEFINE t == Taken(stack, c)
<1>1. /\ children \in Children /\ wrapped \subseteq Messages /\ seen \subseteq Messages
      /\ done \subseteq seen /\ seen \subseteq ReachIn(children, {Root})
      /\ DoneOK(children, wrapped, done) /\ verdict = "none"
      /\ StackOK(children, wrapped, stack, seen, done) /\ Root \in seen
      /\ count \in Nat /\ count <= Cardinality(seen)
  BY DEF GraphInv, VisitChild
<1>2. stack # <<>> /\ c \in stack[Len(stack)].rest /\ Visit(c, t) BY DEF VisitChild, Taken
<1>3. children' = children /\ wrapped' = wrapped /\ done' = done BY <1>2 DEF Visit
<1>4. c \in ReachIn(children, {Root}) /\ \A i \in 1..Len(stack) : c \in ReachIn(children, children[stack[i].msg])
  BY <1>1, <1>2, ChildReached
<1>. HIDE DEF t
<1>5. CASE c \in {NilMessage} \cup (seen \ done) /\ Refuse /\ UNCHANGED seen
  <2>1. ~SoundIn(children, wrapped)
    <3>1. CASE c = NilMessage BY <1>4, <3>1 DEF SoundIn
    <3>2. CASE c \in seen \ done
      <4>1. PICK i \in 1..Len(stack) : c = stack[i].msg BY <1>1, <3>2 DEF StackOK
      <4>2. c \in ReachIn(children, children[c]) BY <1>4, <4>1
      <4>. QED BY <1>4, <4>2 DEF SoundIn
    <3>. QED BY <1>5, <3>1, <3>2
  <2>2. verdict' = "error" /\ stack' = <<>> /\ count' = count /\ seen' = seen
    BY <1>5 DEF Refuse
  <2>. QED BY <1>1, <1>3, <2>1, <2>2 DEF GraphInv
<1>6. CASE c \in done /\ stack' = t /\ UNCHANGED <<seen, verdict, count>>
  <2>1. StackOK(children, wrapped, stack', seen, done) BY <1>1, <1>2, <1>6, Skip DEF t
  <2>2. stack' # <<>>
    <3>1. stack \in Seq(Frames) BY <1>1 DEF StackOK
    <3>2. t \in Seq(Frames) /\ Len(t) >= 1 BY <1>2, <3>1, TakenFacts DEF t
    <3>. QED BY <1>6, <3>2
  <2>. QED BY <1>1, <1>3, <1>6, <2>1, <2>2 DEF GraphInv
<1>7. CASE /\ c \notin {NilMessage} \cup seen /\ seen' = seen \cup {c}
           /\ IF c \in wrapped THEN Refuse ELSE Enter(c, t)
  <2>1. c \in Messages /\ c \notin seen BY <1>7 DEF Pointers
  <2>2. count <= Cardinality(seen') /\ count + 1 <= Cardinality(seen')
    BY <1>1, <1>7, <2>1, CountOne
  <2>3. /\ seen' \subseteq Messages /\ done \subseteq seen' /\ Root \in seen'
        /\ seen' \subseteq ReachIn(children, {Root})
    BY <1>1, <1>4, <1>7, <2>1
  <2>4. CASE c \in wrapped
    <3>1. ~SoundIn(children, wrapped) BY <1>4, <2>4 DEF SoundIn
    <3>2. verdict' = "error" /\ stack' = <<>> /\ count' = count BY <1>7, <2>4 DEF Refuse
    <3>. QED BY <1>1, <1>3, <2>2, <2>3, <3>1, <3>2 DEF GraphInv
  <2>5. CASE c \notin wrapped
    <3>1. /\ verdict' = "none" /\ count' = count + 1
          /\ stack' = Append(t, [msg |-> c, rest |-> children[c]])
      BY <1>1, <1>7, <2>5 DEF Enter
    <3>2. StackOK(children, wrapped, stack', seen', done)
      BY <1>1, <1>2, <1>7, <2>1, <2>5, <3>1, Push DEF t
    <3>3. stack' # <<>>
      <4>1. \E m \in seen' : m \notin done BY <1>1, <1>7, <2>1
      <4>2. \E i \in 1..Len(stack') : TRUE BY <3>2, <4>1 DEF StackOK
      <4>. QED BY <4>2
    <3>4. count + 1 \in Nat BY <1>1
    <3>. QED BY <1>1, <1>3, <2>2, <2>3, <3>1, <3>2, <3>3, <3>4 DEF GraphInv
  <2>. QED BY <2>4, <2>5
<1>. QED BY <1>2, <1>5, <1>6, <1>7 DEF Visit

\* The innermost visit ends.
LEMMA CompleteKeeps ==
  ASSUME GraphInv, Complete
  PROVE  GraphInv'
<1>. DEFINE top == stack[Len(stack)].msg
            u == SubSeq(stack, 1, Len(stack) - 1)
<1>1. /\ children \in Children /\ wrapped \subseteq Messages /\ seen \subseteq Messages
      /\ done \subseteq seen /\ seen \subseteq ReachIn(children, {Root})
      /\ DoneOK(children, wrapped, done) /\ verdict = "none"
      /\ StackOK(children, wrapped, stack, seen, done) /\ Root \in seen
      /\ count \in Nat /\ count <= Cardinality(seen)
  BY DEF GraphInv, Complete
<1>2. /\ stack # <<>> /\ stack[Len(stack)].rest = {} /\ done' = done \cup {top} /\ stack' = u
      /\ verdict' = (IF Len(stack) = 1 THEN "ok" ELSE "none")
      /\ children' = children /\ wrapped' = wrapped /\ seen' = seen /\ count' = count
  BY DEF Complete, Marked
<1>3. /\ DoneOK(children, wrapped, done \cup {top}) /\ top \in seen
      /\ StackOK(children, wrapped, u, seen, done \cup {top}) /\ Len(u) = Len(stack) - 1
  BY <1>1, <1>2, Pop
<1>4. stack \in Seq(Frames) /\ u \in Seq(Frames) BY <1>1, <1>3 DEF StackOK
<1>. HIDE DEF top, u
<1>5. Len(stack) \in Nat /\ Len(stack) >= 1 BY <1>2, <1>4
<1>6. CASE Len(stack) = 1
  <2>1. Len(u) = 0 /\ u = <<>> BY <1>3, <1>4, <1>6
  <2>2. Root \in done'
    <3>1. ASSUME Root \notin done' PROVE FALSE
      <4>1. \E i \in 1..Len(u) : Root = u[i].msg BY <1>1, <1>2, <1>3, <3>1 DEF StackOK
      <4>. QED BY <2>1, <4>1
    <3>. QED BY <3>1
  <2>. QED BY <1>1, <1>2, <1>3, <1>6, <2>1, <2>2 DEF GraphInv
<1>7. CASE Len(stack) # 1
  <2>1. Len(u) >= 1 BY <1>3, <1>5, <1>7
  <2>2. u # <<>> BY <2>1
  <2>. QED BY <1>1, <1>2, <1>3, <1>7, <2>2 DEF GraphInv
<1>. QED BY <1>6, <1>7

\* What the search keeps true: see GraphInv.
THEOREM GraphInductive == GraphSpec => []GraphInv
<1>1. GraphInit => GraphInv BY GraphBegins
<1>2. GraphInv /\ [GraphNext]_gvars => GraphInv'
  <2>. SUFFICES ASSUME GraphInv, [GraphNext]_gvars PROVE GraphInv' OBVIOUS
  <2>1. CASE Begin BY <2>1, BeginKeeps
  <2>2. CASE Complete BY <2>2, CompleteKeeps
  <2>3. CASE \E c \in Pointers : VisitChild(c) BY <2>3, VisitChildKeeps
  <2>4. CASE UNCHANGED gvars
    <3>1. /\ children' = children /\ wrapped' = wrapped /\ stack' = stack /\ seen' = seen
          /\ done' = done /\ verdict' = verdict /\ count' = count
      BY <2>4 DEF gvars
    <3>. QED BY <3>1 DEF GraphInv
  <2>. QED BY <2>1, <2>2, <2>3, <2>4 DEF GraphNext
<1>. QED BY <1>1, <1>2, PTL DEF GraphSpec

\* validateMessageGraph accepts a P4Info exactly when no message reachable from it
\* is nil, wraps nil or contains itself, whatever the order in which the fields
\* are met, and reads the fields of a reachable message at most once: for every
\* finite graph of messages.
THEOREM GraphCorrect == GraphSpec => []GraphExact
<1>1. GraphInv => GraphExact
  <2>. SUFFICES ASSUME GraphInv PROVE GraphExact OBVIOUS
  <2>1. /\ children \in Children /\ wrapped \subseteq Messages /\ seen \subseteq Messages
        /\ done \subseteq seen /\ seen \subseteq ReachIn(children, {Root})
        /\ DoneOK(children, wrapped, done)
        /\ verdict = "ok" => Root \in done
        /\ verdict = "error" => ~SoundIn(children, wrapped)
        /\ count \in Nat /\ count <= Cardinality(seen)
    BY DEF GraphInv
  <2>2. \A S : Reach(S) = ReachIn(children, S) BY DEF Reach, ReachIn, Closed, ClosedIn
  <2>3. Sound <=> SoundIn(children, wrapped) BY <2>2 DEF Sound, SoundIn
  <2>4. ASSUME verdict = "ok" PROVE SoundIn(children, wrapped)
    <3>1. {Root} \subseteq done /\ done \in SUBSET Pointers BY <2>1, <2>4 DEF Pointers
    <3>2. ClosedIn(children, done) BY <2>1 DEF ClosedIn, DoneOK
    <3>3. ReachIn(children, {Root}) \subseteq done
      BY <2>1, <3>1, <3>2, RootReached, ReachLeast
    <3>4. NilMessage \notin done BY <2>1, GraphAssumption
    <3>. QED BY <2>1, <3>3, <3>4 DEF SoundIn, DoneOK
  <2>5. count <= Cardinality(ReachIn(children, {Root}))
    <3>1. IsFiniteSet(Pointers) BY GraphAssumption, FS_AddElement DEF Pointers
    <3>2. ReachIn(children, {Root}) \in SUBSET Pointers BY DEF ReachIn
    <3>3. IsFiniteSet(ReachIn(children, {Root})) BY <3>1, <3>2, FS_Subset
    <3>4. /\ IsFiniteSet(seen) /\ Cardinality(seen) <= Cardinality(ReachIn(children, {Root}))
      BY <2>1, <3>3, FS_Subset
    <3>5. Cardinality(seen) \in Nat /\ Cardinality(ReachIn(children, {Root})) \in Nat
      BY <3>3, <3>4, FS_CardinalityType
    <3>. QED BY <2>1, <3>4, <3>5
  <2>. QED BY <2>1, <2>2, <2>3, <2>4, <2>5 DEF GraphExact
<1>. QED BY <1>1, GraphInductive, PTL
=============================================================================

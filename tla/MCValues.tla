----------------------------- MODULE MCValues ---------------------------
(***************************************************************************)
(* The arithmetic parts, for TLC: election IDs, the reconnection delays,   *)
(* and byte strings with the values made of them: match fields, packet     *)
(* metadata, and register data with a set of types that has every kind of  *)
(* type in it. They have nothing to do with each other: a behaviour is of  *)
(* one.                                                                    *)
(***************************************************************************)
EXTENDS ElectionID, Backoff, MatchField, RegisterData, PacketIO

BitType(w) == [type |-> "bit", width |-> w]
IntType(w) == [type |-> "int", width |-> w]
VarbitType(w) == [type |-> "varbit", width |-> w]
Named(type, name) == [type |-> type, name |-> name]
Sized(type, name, size) == [type |-> type, name |-> name, size |-> size]
Rep(rep, spec, w) == [rep |-> rep, spec |-> spec, width |-> w]

\* Pair has one new type twice and R contains itself; Loop is its own original.
MCSpecs ==
  [missing |-> [type |-> "missing"], bool |-> [type |-> "bool"], error |-> [type |-> "error"],
   bit |-> BitType(3), bit0 |-> BitType(0), int |-> IntType(3), varbit |-> VarbitType(3),
   t1 |-> Named("newType", "T"), t2 |-> Named("newType", "T"),
   number |-> Named("newType", "Number"), string |-> Named("newType", "String"),
   loop |-> Named("newType", "Loop"), unknown |-> Named("newType", "Unknown"),
   pair |-> Named("struct", "Pair"), r |-> Named("struct", "R"), deep |-> Named("struct", "Deep"),
   tuple |-> [type |-> "tuple", members |-> <<"bit", "bool">>],
   header |-> Named("header", "H"), varHeader |-> Named("header", "V"),
   union |-> Named("headerUnion", "U"), enum |-> Named("enum", "E"),
   stack |-> Sized("headerStack", "H", 1), badStack |-> Sized("headerStack", "H", -1),
   unionStack |-> Sized("headerUnionStack", "U", 1),
   serEnum |-> Named("serializableEnum", "S")]

MCStructs == [Pair |-> <<"t1", "t2">>, R |-> <<"r">>, Deep |-> <<"pair", "pair">>]
MCNewTypes ==
  [T |-> Rep("original", "bit", 0), Number |-> Rep("sdnBitwidth", "", 3),
   String |-> Rep("sdnString", "", 0), Loop |-> Rep("original", "loop", 0)]
MCHeaders == [H |-> <<BitType(3), IntType(3)>>, V |-> <<VarbitType(3)>>]
MCUnions == [U |-> <<[name |-> "h", header |-> "H"], [name |-> "v", header |-> "V"]>>]
MCEnums == [E |-> {"m", ""}]
MCSerEnums == [S |-> 3]

Missing == [kind |-> "missing"]
Bytes == {<<>>, <<0>>, <<1>>, <<0, 1>>, <<2, 0>>, <<3, 2>>, <<3, 1>>}
HeaderOf(valid, fields) == [kind |-> "header", valid |-> valid, fields |-> fields]
HeaderValues ==
  {HeaderOf(FALSE, <<>>), HeaderOf(FALSE, <<<<1>>>>), HeaderOf(TRUE, <<<<1>>>>)}
    \cup {HeaderOf(TRUE, <<b, c>>) : b \in {<<0, 1>>, <<2, 0>>}, c \in {<<3, 2>>, <<3, 1>>, <<0>>}}
UnionValues ==
  {[kind |-> "headerUnion", name |-> n, header |-> h] :
     n \in {"", "h", "v", "x"}, h \in HeaderValues \cup {Missing}}
Stacks(kind, entries) ==
  {[kind |-> kind, entries |-> es] : es \in {<<>>} \cup {<<e>> : e \in entries}}

MCLeaves ==
  {Missing, [kind |-> "bool"]}
    \cup {Bits(b) : b \in Bytes} \cup {[kind |-> "enumValue", bytes |-> b] : b \in Bytes}
    \cup {[kind |-> "varbit", width |-> w, bytes |-> b] : w \in -1..4, b \in Bytes}
    \cup {[kind |-> k, member |-> m] : k \in {"enum", "error"}, m \in {"", "m"}}
    \cup HeaderValues \cup UnionValues
    \cup Stacks("headerStack", HeaderValues) \cup Stacks("headerUnionStack", UnionValues)

\* Values inside of one struct or tuple, and those inside of two.
MCInner == {Missing, [kind |-> "bool"], Bits(<<0, 1>>), Bits(<<2, 0>>), HeaderOf(FALSE, <<>>)}
Nest(inner) ==
  {[kind |-> k, members |-> ms] :
     k \in {"struct", "tuple"},
     ms \in {<<>>} \cup {<<v>> : v \in inner} \cup {<<v, x>> : v \in inner, x \in MCInner}
              \cup {<<v, v>> : v \in inner}}
MCRegisterValues == MCLeaves \cup Nest(MCInner) \cup Nest(Nest(MCInner))

\* Declared in another order than that of the IDs, with a name used twice, with
\* an ID used twice, and with a field of no bits.
Field(i, n, w) == [id |-> i, name |-> n, bits |-> w]
MCPacketHeaders ==
  {<<>>, <<Field(2, "n1", 3), Field(1, "n2", 4)>>,
   <<Field(1, "n1", 4), Field(2, "n1", 3)>>, <<Field(1, "n1", 3), Field(1, "n2", 4)>>,
   <<Field(1, "n1", 0)>>}
MCMetadataBytes == {<<>>, <<1>>, <<0, 3>>, <<1, 3>>, <<2, 0>>, <<1, 0, 0>>}

-----------------------------------------------------------------------------
VARIABLE part  \* which of the five a behaviour is about

NoID == mine = [High |-> 0, Low |-> 0] /\ theirs = mine
NoBackoff ==
  /\ initial = DefaultInitial /\ max = DefaultMax /\ backoff = initial
  /\ requested = 0 /\ delay = 0 /\ fails = 0
NoMatch == CodecInit /\ matchType = "EXACT" /\ given = "EXACT"
NoData == root = "bool" /\ data = Missing /\ integerOnly = FALSE /\ calls = <<>> /\ active = {} /\ result = Pending
NoPacket == outMeta = NoHeader /\ metadata = <<>>

ValuesInit ==
  \/ part = "id" /\ IDInit /\ NoBackoff /\ NoMatch /\ NoData /\ NoPacket
  \/ part = "backoff" /\ BackoffInit /\ NoID /\ NoMatch /\ NoData /\ NoPacket
  \/ part = "match" /\ MatchInit /\ NoID /\ NoBackoff /\ NoData /\ NoPacket
  \/ part = "data" /\ DataInit /\ NoID /\ NoBackoff /\ NoMatch /\ NoPacket
  \/ part = "packet" /\ PacketInit /\ NoID /\ NoBackoff /\ NoMatch /\ NoData

ValuesNext ==
  /\ UNCHANGED part
  /\ \/ part = "id" /\ IDNext /\ UNCHANGED <<bvars, mvars, rvars, pvars>>
     \/ part = "backoff" /\ BackoffNext /\ UNCHANGED <<idVars, mvars, rvars, pvars>>
     \/ part = "match" /\ MatchNext /\ UNCHANGED <<idVars, bvars, rvars, pvars>>
     \/ part = "data" /\ DataNext /\ UNCHANGED <<idVars, bvars, mvars, pvars>>
     \/ part = "packet" /\ SetMetadata /\ UNCHANGED <<idVars, bvars, mvars, rvars>>

ValuesSpec == ValuesInit /\ [][ValuesNext]_<<part, idVars, bvars, mvars, rvars, pvars>>
=============================================================================

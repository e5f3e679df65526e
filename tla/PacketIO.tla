------------------------------ MODULE PacketIO ------------------------------
(***************************************************************************)
(* packetio/packetio.go: the metadata of a packet, given by name, is       *)
(* encoded by ID for a PacketOut (Send) and decoded from a PacketIn.       *)
(* Payloads are passed through and left out. The variables of the Codec    *)
(* module play no part.                                                    *)
(***************************************************************************)
EXTENDS Codec, SequencesExt

CONSTANTS
  PacketHeaders, \* packet_out definitions: lists of [id, name, bits]
  NoHeader,      \* the pipeline has no such definition
  MetadataNames, \* names a caller uses
  MetadataBytes  \* values a caller uses

ASSUME PacketAssumption ==
  /\ PacketHeaders \subseteq Seq([id : Nat, name : STRING, bits : Int])
  /\ MetadataBytes \subseteq Seq(Byte)

VARIABLES
  outMeta,   \* the definition of packet_out; packet_in has the same
  metadata   \* name -> bytes: what the caller gives Send

pvars == <<outMeta, metadata>>

NamesOf(header) == {header[i].name : i \in DOMAIN header}

NotSent == [ok |-> FALSE, metadata |-> <<>>]

\* The value of a field, and the fields in P4Info order.
Canon(header, meta, i) == EncodeBytes(meta[header[i].name], header[i].bits)
EncodedFields(header, meta) ==
  [i \in DOMAIN header |-> [id |-> header[i].id, value |-> Canon(header, meta, i)]]

\* Every name given is a field's, every field is given, and its value fits.
MutSend(header, meta) ==
  IF header = NoHeader
  THEN [ok |-> DOMAIN meta = {}, metadata |-> <<>>]
  ELSE IF \E i \in DOMAIN header : header[i].name \notin DOMAIN meta THEN NotSent
  ELSE IF \E i \in DOMAIN header : Canon(header, meta, i) = Error THEN NotSent
  ELSE [ok |-> TRUE, metadata |-> EncodedFields(header, meta)]
Send(header, meta) ==
  IF header = NoHeader
  THEN [ok |-> DOMAIN meta = {}, metadata |-> <<>>]
  ELSE IF \/ ~(DOMAIN meta \subseteq NamesOf(header))
          \/ \E i \in DOMAIN header : header[i].name \notin DOMAIN meta
       THEN NotSent
  ELSE IF \E i \in DOMAIN header : Canon(header, meta, i) = Error THEN NotSent
  ELSE [ok |-> TRUE, metadata |-> EncodedFields(header, meta)]

\* The field FieldByID returns: the last one declared with the ID.
FieldByID(header, id) ==
  header[Max({i \in DOMAIN header : header[i].id = id})].name

\* Fields with an unknown ID are skipped, and a later one replaces an earlier.
Decode(header, list) ==
  LET known == IF header = NoHeader THEN {}
               ELSE {i \in DOMAIN list : \E h \in DOMAIN header : header[h].id = list[i].id}
      named(i) == FieldByID(header, list[i].id)
  IN  [n \in {named(i) : i \in known} |->
         list[Max({i \in known : named(i) = n})].value]

PacketInit == outMeta \in PacketHeaders \cup {NoHeader} /\ metadata = <<>>

SetMetadata ==
  /\ \E n \in MetadataNames, b \in MetadataBytes :
       /\ n \notin DOMAIN metadata
       /\ metadata' = [x \in DOMAIN metadata \cup {n} |-> IF x = n THEN b ELSE metadata[x]]
  /\ UNCHANGED outMeta

PacketSpec == PacketInit /\ [][SetMetadata]_pvars

-----------------------------------------------------------------------------
(* Properties *)

\* The IDs tell the fields apart, as P4Runtime asks, and 0 is none of them.
DistinctIDs(header) ==
  /\ \A i, j \in DOMAIN header : header[i].id = header[j].id => i = j
  /\ \A i \in DOMAIN header : header[i].id # 0

\* A packet is sent exactly when the caller names the declared fields, no more
\* and no fewer, with values that fit; it carries one value per field in P4Info
\* order, each the number the caller gave; and a packet that comes back with
\* the same fields, in the opposite order and with an unknown one among them,
\* decodes to the caller's metadata in canonical form.
PacketExact ==
  LET header == IF outMeta = NoHeader THEN <<>> ELSE outMeta
      sent == Send(outMeta, metadata)
      stray == [id |-> 0, value |-> <<1>>]
      back == Decode(outMeta, <<stray>> \o Reverse(sent.metadata))
  IN  /\ sent.ok <=>
           /\ DOMAIN metadata = NamesOf(header)
           /\ \A i \in DOMAIN header :
                FitsWidth(metadata[header[i].name], header[i].bits)
      /\ sent.ok =>
           /\ [i \in DOMAIN sent.metadata |-> sent.metadata[i].id]
                = [i \in DOMAIN header |-> header[i].id]
           /\ DistinctIDs(header) =>
                /\ DOMAIN back = DOMAIN metadata
                /\ \A n \in DOMAIN back : CanonicalOf(back[n], ValueOf(metadata[n]))
=============================================================================

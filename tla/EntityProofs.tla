---------------------------- MODULE EntityProofs ----------------------------
(***************************************************************************)
(* Proofs about the entities a client writes and reads back: replicas of   *)
(* multicast groups and clone sessions for any ports, IDs and numbers of   *)
(* replicas, counters, meters and registers of any size, and table entries *)
(* for any finite set of match fields and any order of the builder's calls.*)
(***************************************************************************)
EXTENDS TableEntry, Replication, Resources, FiniteSetTheorems,
        WellFoundedInduction, TLAPS

-----------------------------------------------------------------------------
(* Replicas *)

\* What the target holds under an ID and what a client wrote are lists of the
\* protobuf's and of the package's replicas.
ReplicaLists(S) == UNION {[1..n -> S] : n \in Nat}

\* The target's groups are of their type, and under an ID that is still the
\* client's own it holds the encoding of the valid replicas the client wrote;
\* what a Read returned decodes what some group was.
ReplicationInv ==
  /\ \A k \in DOMAIN groups : groups[k] \in ReplicaLists(Proto)
  /\ DOMAIN written \subseteq DOMAIN groups
  /\ \A k \in DOMAIN written :
       /\ written[k] \in ReplicaLists(Replica) /\ ValidateReplicas(written[k])
       /\ groups[k] = EncodeReplicas(written[k])
  /\ \A k \in DOMAIN reply.read :
       \E ws \in ReplicaLists(Proto) : AllDecodable(ws) /\ reply.read[k] = DecodeReplicas(ws)

\* A valid replica survives the way to the target and back.
LEMMA EncodeDecode ==
  ASSUME NEW r \in Replica, ValidReplica(r)
  PROVE  /\ EncodeReplica(r) \in Proto
         /\ Decodable(EncodeReplica(r))
         /\ DecodeReplica(EncodeReplica(r)) = r
<1>1. /\ r = [Port |-> r.Port, EgressPort |-> r.EgressPort, BackupReplicas |-> r.BackupReplicas]
      /\ r.Port \in Ports \cup {Nil, Empty} /\ r.EgressPort \in 0..MaxEgress
      /\ r.BackupReplicas \in SeqsUpTo(Ports \cup {Nil, Empty}, MaxBackups)
  BY DEF Replica
<1>2. CASE r.Port # Nil
  <2>1. EncodeReplica(r) = [kind |-> "port", port |-> r.Port, backups |-> r.BackupReplicas]
    BY <1>2 DEF EncodeReplica
  <2>2. r.Port \in Ports /\ r.EgressPort = 0 BY <1>1, <1>2 DEF ValidReplica
  <2>3. Decodable(EncodeReplica(r)) BY <2>1 DEF Decodable, ValidReplica
  <2>4. DecodeReplica(EncodeReplica(r)) = r BY <1>1, <2>1, <2>2 DEF DecodeReplica
  <2>5. EncodeReplica(r) \in Proto BY <1>1, <2>1, <2>2 DEF Proto
  <2>. QED BY <2>3, <2>4, <2>5
<1>3. CASE r.Port = Nil
  <2>1. EncodeReplica(r) = [kind |-> "egress", port |-> r.EgressPort, backups |-> r.BackupReplicas]
    BY <1>3 DEF EncodeReplica
  <2>2. r.EgressPort # 0 BY <1>3 DEF ValidReplica
  <2>3. Decodable(EncodeReplica(r)) BY <2>1, <2>2 DEF Decodable, ValidReplica
  <2>4. DecodeReplica(EncodeReplica(r)) = r BY <1>1, <1>3, <2>1 DEF DecodeReplica
  <2>5. EncodeReplica(r) \in Proto BY <1>1, <2>1 DEF Proto
  <2>. QED BY <2>3, <2>4, <2>5
<1>. QED BY <1>2, <1>3

\* A replica that can be decoded is valid and encodes to what it was.
LEMMA DecodeEncode ==
  ASSUME NEW w \in Proto, Decodable(w)
  PROVE  ValidReplica(DecodeReplica(w)) /\ EncodeReplica(DecodeReplica(w)) = w
<1>1. CASE w.kind = "port"
  <2>1. w = [kind |-> "port", port |-> w.port, backups |-> w.backups] /\ w.port \in Ports
    BY <1>1 DEF Proto, Decodable, Nil
  <2>2. DecodeReplica(w) = [Port |-> w.port, EgressPort |-> 0, BackupReplicas |-> w.backups]
    BY <1>1 DEF DecodeReplica
  <2>3. w.port # Nil /\ w.port # Empty BY <2>1, ReplicationAssumption
  <2>4. ValidReplica(DecodeReplica(w)) BY <2>2, <2>3 DEF ValidReplica, Decodable
  <2>5. EncodeReplica(DecodeReplica(w)) = w BY <2>1, <2>2, <2>3 DEF EncodeReplica
  <2>. QED BY <2>4, <2>5
<1>2. CASE w.kind = "egress"
  <2>1. /\ w = [kind |-> "egress", port |-> w.port, backups |-> w.backups]
        /\ w.port \in Nat /\ w.port # 0
    BY <1>2, ReplicationAssumption DEF Proto, Decodable, Nil
  <2>2. DecodeReplica(w) = [Port |-> Nil, EgressPort |-> w.port, BackupReplicas |-> w.backups]
    BY <1>2 DEF DecodeReplica
  <2>3. ValidReplica(DecodeReplica(w)) BY <2>1, <2>2 DEF ValidReplica, Decodable, Nil, Empty
  <2>4. EncodeReplica(DecodeReplica(w)) = w BY <2>1, <2>2 DEF EncodeReplica
  <2>. QED BY <2>3, <2>4
<1>. QED BY <1>1, <1>2 DEF Decodable

\* The same for the replicas of a group.
LEMMA EncodeDecodeAll ==
  ASSUME NEW rs \in ReplicaLists(Replica), ValidateReplicas(rs)
  PROVE  /\ EncodeReplicas(rs) \in ReplicaLists(Proto)
         /\ AllDecodable(EncodeReplicas(rs))
         /\ DecodeReplicas(EncodeReplicas(rs)) = rs
<1>1. PICK n \in Nat : rs \in [1..n -> Replica] BY DEF ReplicaLists
<1>2. \A i \in 1..n : /\ EncodeReplica(rs[i]) \in Proto /\ Decodable(EncodeReplica(rs[i]))
                      /\ DecodeReplica(EncodeReplica(rs[i])) = rs[i]
  BY <1>1, EncodeDecode DEF ValidateReplicas
<1>3. EncodeReplicas(rs) = [i \in 1..n |-> EncodeReplica(rs[i])] BY <1>1 DEF EncodeReplicas
<1>4. EncodeReplicas(rs) \in [1..n -> Proto] BY <1>2, <1>3
<1>5. AllDecodable(EncodeReplicas(rs)) BY <1>2, <1>3 DEF AllDecodable
<1>6. DecodeReplicas(EncodeReplicas(rs)) = [i \in 1..n |-> rs[i]]
  BY <1>2, <1>3 DEF DecodeReplicas
<1>7. EncodeReplicas(rs) \in ReplicaLists(Proto) BY <1>4 DEF ReplicaLists
<1>. QED BY <1>1, <1>5, <1>6, <1>7

LEMMA DecodeEncodeAll ==
  ASSUME NEW ws \in ReplicaLists(Proto), AllDecodable(ws)
  PROVE  /\ DecodeReplicas(ws) # <<>> => ValidateReplicas(DecodeReplicas(ws))
         /\ EncodeReplicas(DecodeReplicas(ws)) = ws
<1>1. PICK n \in Nat : ws \in [1..n -> Proto] BY DEF ReplicaLists
<1>2. \A i \in 1..n : /\ ValidReplica(DecodeReplica(ws[i]))
                      /\ EncodeReplica(DecodeReplica(ws[i])) = ws[i]
  BY <1>1, DecodeEncode DEF AllDecodable
<1>3. DecodeReplicas(ws) = [i \in 1..n |-> DecodeReplica(ws[i])] BY <1>1 DEF DecodeReplicas
<1>4. \A i \in DOMAIN DecodeReplicas(ws) : ValidReplica(DecodeReplicas(ws)[i])
  BY <1>2, <1>3
<1>5. EncodeReplicas(DecodeReplicas(ws)) = [i \in 1..n |-> ws[i]]
  BY <1>2, <1>3 DEF EncodeReplicas
<1>. QED BY <1>1, <1>4, <1>5 DEF ValidateReplicas

LEMMA ListsUpTo == ASSUME NEW S, NEW s \in SeqsUpTo(S, MaxReplicas) PROVE s \in ReplicaLists(S)
BY ReplicationAssumption DEF SeqsUpTo, ReplicaLists

\* Writes, deletes, reads and what others store keep the invariant.
LEMMA ReplicationStep == ReplicationInv /\ [ReplicationNext]_rvars => ReplicationInv'
<1> SUFFICES ASSUME ReplicationInv, [ReplicationNext]_rvars PROVE ReplicationInv'
  OBVIOUS
<1>0. ASSUME NEW e, Say(e, <<>>) PROVE DOMAIN reply'.read = {}
  BY <1>0 DEF Say
<1>1. ASSUME NEW id \in IDs, NEW rs \in SeqsUpTo(Replica, MaxReplicas), NEW kind,
             WriteGroup(kind, id, rs)
      PROVE  ReplicationInv'
  <2>0. DOMAIN reply'.read = {} BY <1>0, <1>1 DEF WriteGroup
  <2>1. CASE UNCHANGED <<groups, written>> BY <2>0, <2>1 DEF ReplicationInv
  <2>2. CASE /\ Accepted(id, rs) /\ groups' = Put(groups, id, EncodeReplicas(rs))
             /\ written' = Put(written, id, rs)
    <3>1. rs \in ReplicaLists(Replica) /\ ValidateReplicas(rs)
      BY <2>2, ListsUpTo DEF Accepted
    <3>2. EncodeReplicas(rs) \in ReplicaLists(Proto) BY <3>1, EncodeDecodeAll
    <3>3. /\ DOMAIN groups' = DOMAIN groups \cup {id} /\ groups'[id] = EncodeReplicas(rs)
          /\ \A k \in DOMAIN groups \ {id} : groups'[k] = groups[k]
      BY <2>2 DEF Put
    <3>4. /\ DOMAIN written' = DOMAIN written \cup {id} /\ written'[id] = rs
          /\ \A k \in DOMAIN written \ {id} : written'[k] = written[k]
      BY <2>2 DEF Put
    <3>. QED BY <2>0, <3>1, <3>2, <3>3, <3>4 DEF ReplicationInv
  <2>. QED BY <1>1, <2>1, <2>2 DEF WriteGroup
<1>2. ASSUME NEW id \in IDs, DeleteGroup(id) PROVE ReplicationInv'
  <2>0. DOMAIN reply'.read = {} BY <1>0, <1>2 DEF DeleteGroup
  <2>1. CASE UNCHANGED <<groups, written>> BY <2>0, <2>1 DEF ReplicationInv
  <2>2. CASE groups' = Drop(groups, id) /\ written' = Drop(written, id)
    BY <2>0, <2>2 DEF ReplicationInv, Drop
  <2>. QED BY <1>2, <2>1, <2>2 DEF DeleteGroup
<1>3. ASSUME NEW id \in IDs, ReadGroups(id) PROVE ReplicationInv'
  <2>0. UNCHANGED <<groups, written>> BY <1>3 DEF ReadGroups
  <2>1. CASE \A k \in Selected(id) : AllDecodable(groups[k])
    <3>1. reply'.read = [k \in Selected(id) |-> DecodeReplicas(groups[k])]
      BY <1>3, <2>1 DEF ReadGroups, Say
    <3>2. Selected(id) \subseteq DOMAIN groups BY DEF Selected
    <3>. QED BY <2>0, <2>1, <3>1, <3>2 DEF ReplicationInv
  <2>2. CASE ~\A k \in Selected(id) : AllDecodable(groups[k])
    <3>1. DOMAIN reply'.read = {} BY <1>0, <1>3, <2>2 DEF ReadGroups
    <3>. QED BY <2>0, <3>1 DEF ReplicationInv
  <2>. QED BY <2>1, <2>2
<1>4. ASSUME NEW id \in IDs, NEW ws \in SeqsUpTo(Proto, MaxReplicas), Foreign(id, ws)
      PROVE  ReplicationInv'
  <2>1. ws \in ReplicaLists(Proto) BY ListsUpTo
  <2>2. /\ DOMAIN groups' = DOMAIN groups \cup {id} /\ groups'[id] = ws
        /\ \A k \in DOMAIN groups \ {id} : groups'[k] = groups[k]
    BY <1>4 DEF Foreign, Put
  <2>3. /\ DOMAIN written' = DOMAIN written \ {id}
        /\ \A k \in DOMAIN written \ {id} : written'[k] = written[k]
    BY <1>4 DEF Foreign, Drop
  <2>4. reply' = reply BY <1>4 DEF Foreign
  <2>. QED BY <2>1, <2>2, <2>3, <2>4 DEF ReplicationInv
<1>5. CASE UNCHANGED rvars BY <1>5 DEF rvars, ReplicationInv
<1>. QED BY <1>1, <1>2, <1>3, <1>4, <1>5 DEF ReplicationNext

\* Whatever is written, deleted, read and stored by others, replicas can be read
\* back as they were written and written back as they were read.
THEOREM ReplicasSurvive == ReplicationSpec => []ReplicasRoundTrip
<1>1. ReplicationInit => ReplicationInv BY DEF ReplicationInit, ReplicationInv
<1>2. ReplicationInv => ReplicasRoundTrip
  <2> SUFFICES ASSUME ReplicationInv PROVE ReplicasRoundTrip
    OBVIOUS
  <2>1. \A k \in DOMAIN written :
          AllDecodable(groups[k]) /\ DecodeReplicas(groups[k]) = written[k]
    BY EncodeDecodeAll DEF ReplicationInv
  <2>2. \A k \in DOMAIN reply.read :
          reply.read[k] # <<>> => ValidateReplicas(reply.read[k])
    BY DecodeEncodeAll DEF ReplicationInv
  <2>3. \A k \in DOMAIN groups :
          AllDecodable(groups[k]) => EncodeReplicas(DecodeReplicas(groups[k])) = groups[k]
    BY DecodeEncodeAll DEF ReplicationInv
  <2>. QED BY <2>1, <2>2, <2>3 DEF ReplicasRoundTrip
<1>. QED BY <1>1, <1>2, ReplicationStep, PTL DEF ReplicationSpec

-----------------------------------------------------------------------------
(* Array resources *)

\* The target's cells are those of the array, and what the client is sure to
\* have written is there; the answers are as ResourcesExact says.
ResourcesInv ==
  /\ array \in Arrays /\ DOMAIN cells = Indices(array)
  /\ DOMAIN wrote \subseteq DOMAIN cells
  /\ ResourcesExact

\* The request a valid call makes is for a cell of the array, and of no other.
LEMMA OneCell == \A i \in Int : Named(i) = DOMAIN cells \cap {i}
BY ResourcesAssumption DEF Named

\* The size of an array, also of one that P4Info declares without.
LEMMA ArraySize == ASSUME array \in Arrays PROVE array.size \in Int /\ array.size >= -1
<1>1. CASE array \in [kind : {"counter", "register"}, size : -1..MaxSize, named : BOOLEAN, type : {"other"}]
  BY <1>1, ResourcesAssumption
<1>2. CASE array \in [kind : {"meter"}, size : {1}, named : {FALSE}, type : MeterTypes]
  BY <1>2, ResourcesAssumption
<1>. QED BY <1>1, <1>2 DEF Arrays

\* What a meter's Config is made of.
LEMMA ConfigTyped ==
  ASSUME NEW cfg \in Configs
  PROVE  /\ cfg \in [CIR : Int, CBurst : Int, PIR : Int, PBurst : Int, EBurst : Int]
         /\ MeterConfig(cfg) # Absent
<1>3. cfg \in [CIR : Int, CBurst : Int, PIR : Int, PBurst : Int, EBurst : Int]
  <2>1. CASE cfg \in [CIR : 0..MaxRate, CBurst : 0..MaxRate, PIR : 0..MaxRate,
                      PBurst : 0..MaxRate, EBurst : 0..MaxRate]
    BY <2>1, ResourcesAssumption
  <2>2. CASE cfg \in [CIR : {1}, CBurst : {-1}, PIR : 0..MaxRate, PBurst : {-1}, EBurst : 0..MaxRate]
    BY <2>2, ResourcesAssumption
  <2>. QED BY <2>1, <2>2 DEF Configs
<1>4. cfg # Absent BY <1>3, ResourcesAssumption
<1>5. MeterConfig(cfg) \in [Cir : Int, Cburst : Int, Pir : Int, Pburst : Int, Eburst : Int]
  BY <1>3, <1>4 DEF MeterConfig
<1>. QED BY <1>3, <1>5, ResourcesAssumption

\* Config.toProto lets pass what a meter of the type can be set to, and only that.
LEMMA ProtoSettable ==
  ASSUME array \in Arrays, NEW cfg \in Configs PROVE ToProto(cfg) <=> Settable(cfg)
<1>1. cfg.CIR \in Int /\ cfg.PIR \in Int /\ cfg.EBurst \in Int BY ConfigTyped
<1>2. array.type \in MeterTypes BY DEF Arrays, MeterTypes
<1>. QED BY <1>1, <1>2 DEF ToProto, Settable, MeterTypes

\* The index check before a request is the right one for a cell.
LEMMA ValidateRight ==
  ASSUME array \in Arrays, NEW i \in Int
  PROVE  /\ Validate(i, FALSE) <=> i \in (IF array.named THEN Nat ELSE Indices(array))
         /\ Validate(i, TRUE) <=> IndexRight("read", i)
<1>1. array.size \in Int /\ array.size >= -1 BY ArraySize
<1>2. Validate(i, FALSE) <=> i \in (IF array.named THEN Nat ELSE Indices(array))
  BY <1>1 DEF Validate, Indices
<1>3. Validate(i, TRUE) <=> i = -1 \/ Validate(i, FALSE) BY <1>1 DEF Validate
<1>. QED BY <1>2, <1>3 DEF IndexRight

\* What is right for the array, and what it means, is a matter of its declaration.
LEMMA SameArray ==
  ASSUME UNCHANGED array
  PROVE  /\ \A v : Meaning(v)' = Meaning(v) /\ (ValueRight(v)' <=> ValueRight(v))
         /\ \A o, i : IndexRight(o, i)' <=> IndexRight(o, i)
BY DEF Meaning, ValueRight, Settable, IndexRight, Indices

\* A cell that holds what a right value means, or what was there.
RightCell(c) ==
  c \in {Default, Other} \/ \E v \in Values(array.kind) : ValueRight(v) /\ c = Meaning(v)

\* A MODIFY of a cell the call names.
LEMMA ModifyStep ==
  ASSUME ResourcesInv, NEW op, op \in {"write", "reset"}, NEW i \in Int, NEW v, NEW m,
         Validate(i, FALSE), Modify(op, i, v, m), UNCHANGED array,
         op = "write" => v \in Values(array.kind) /\ ValueRight(v) /\ Stored(m) = Meaning(v),
         op = "reset" => Stored(m) = Default
  PROVE  ResourcesInv'
<1>1. /\ answer'.op = op /\ answer'.index = i /\ answer'.value = v /\ answer'.err \in {"nil", "rpc"}
      /\ touched' = touched \cup {i}
  BY DEF Modify, Answer
<1>2. IndexRight(op, i)
  BY ValidateRight DEF ResourcesInv, IndexRight
<1>3. /\ DOMAIN cells' = DOMAIN cells
      /\ \A j \in DOMAIN cells \ {i} : cells'[j] = cells[j]
      /\ \A j \in DOMAIN cells : cells'[j] \in {cells[j], Stored(m)}
  BY OneCell DEF Modify
<1>4. /\ DOMAIN wrote' \subseteq DOMAIN cells
      /\ \A j \in DOMAIN wrote' \ {i} : j \in DOMAIN wrote /\ wrote'[j] = wrote[j]
      /\ i \in DOMAIN wrote' => cells'[i] = Stored(m) /\ wrote'[i] = [op |-> op, value |-> v]
  <2>1. CASE wrote' = [j \in DOMAIN wrote \ {i} |-> wrote[j]]
    BY <2>1 DEF ResourcesInv
  <2>2. CASE /\ wrote' = [j \in DOMAIN wrote \cup {i} |->
                            IF j = i THEN [op |-> op, value |-> v] ELSE wrote[j]]
             /\ Named(i) # {}
             /\ cells' = [j \in DOMAIN cells |-> IF j \in Named(i) THEN Stored(m) ELSE cells[j]]
    <3>1. /\ DOMAIN wrote' = DOMAIN wrote \cup {i} /\ wrote'[i] = [op |-> op, value |-> v]
          /\ \A j \in DOMAIN wrote \ {i} : wrote'[j] = wrote[j]
      BY <2>2
    <3>2. i \in DOMAIN cells /\ cells'[i] = Stored(m) BY <2>2, OneCell
    <3>. QED BY <3>1, <3>2 DEF ResourcesInv
  <2>. QED BY <2>1, <2>2 DEF Modify
<1>5. RightCell(Stored(m)) /\ \A j \in DOMAIN cells : RightCell(cells[j])
  BY DEF RightCell, ResourcesInv, ResourcesExact, CellsExact
<1>6. \A c : RightCell(c)' <=> RightCell(c) BY SameArray DEF RightCell
<1>7. i \in DOMAIN wrote' =>
        cells'[i] = IF wrote'[i].op = "reset" THEN Default ELSE Meaning(wrote'[i].value)
  BY <1>4
<1>8. \A j \in DOMAIN wrote' :
        cells'[j] = IF wrote'[j].op = "reset" THEN Default ELSE Meaning(wrote'[j].value)
  BY <1>3, <1>4, <1>7 DEF ResourcesInv, ResourcesExact, CellsExact
<1>9. CellsExact'
  <2>1. \A j \in DOMAIN cells : RightCell(cells'[j]) BY <1>3, <1>5
  <2>2. \A j \in DOMAIN cells : j \notin touched' => cells'[j] = Default
    BY <1>1, <1>3 DEF ResourcesInv, ResourcesExact, CellsExact
  <2>. QED BY <1>3, <1>8, <2>1, <2>2, SameArray DEF CellsExact, RightCell
<1>10. ResourcesExact' BY <1>1, <1>2, <1>9, SameArray DEF ResourcesExact
<1>. QED BY <1>3, <1>4, <1>10 DEF ResourcesInv, Indices

\* A call that is refused before the target sees it.
LEMMA RefuseStep ==
  ASSUME ResourcesInv, NEW op, op \in {"write", "reset"}, NEW i, NEW v, Refuse(op, i, v),
         UNCHANGED array, ~IndexRight(op, i) \/ (op = "write" /\ ~ValueRight(v))
  PROVE  ResourcesInv'
<1>1. /\ answer'.op = op /\ answer'.index = i /\ answer'.value = v /\ answer'.err = "argument"
      /\ UNCHANGED <<cells, wrote, touched>>
  BY DEF Refuse, Answer
<1>2. CellsExact' BY <1>1, SameArray DEF ResourcesInv, ResourcesExact, CellsExact
<1>3. ResourcesExact' BY <1>1, <1>2, SameArray DEF ResourcesExact
<1>. QED BY <1>1, <1>3 DEF ResourcesInv, Indices

LEMMA ReadStep == ASSUME ResourcesInv, NEW i \in Int, Read(i) PROVE ResourcesInv'
<1>0. UNCHANGED <<array, cells, wrote, touched>> BY DEF Read
<1>1. /\ answer'.op = "read" /\ answer'.index = i
      /\ answer'.err = "argument" <=> ~Validate(i, TRUE)
      /\ answer'.err = "nil" => answer'.entries = [j \in Named(IndexOf(i)) |-> cells[j]]
  <2>1. CASE ~Validate(i, TRUE) /\ Answer("read", i, Absent, "argument", <<>>) BY <2>1 DEF Answer
  <2>2. CASE Validate(i, TRUE) /\ Answer("read", i, Absent, "rpc", <<>>) BY <2>2 DEF Answer
  <2>3. CASE /\ Validate(i, TRUE)
             /\ Answer("read", i, Absent, "nil", [j \in Named(IndexOf(i)) |-> cells[j]])
    BY <2>3 DEF Answer
  <2>. QED BY <2>1, <2>2, <2>3 DEF Read
<1>2. Validate(i, TRUE) <=> IndexRight("read", i) BY ValidateRight DEF ResourcesInv
<1>3. Validate(i, TRUE) => i >= -1 BY DEF Validate
<1>4. Validate(i, TRUE) => Named(IndexOf(i)) = {j \in DOMAIN cells : i \in {j, -1}}
  BY <1>3, OneCell, ResourcesAssumption DEF IndexOf, Named, ResourcesInv, Indices
<1>5. answer'.err = "nil" =>
        answer'.entries = [j \in {k \in DOMAIN cells : i \in {k, -1}} |-> cells[j]]
  BY <1>1, <1>4
<1>6. CellsExact' BY <1>0, SameArray DEF ResourcesInv, ResourcesExact, CellsExact
<1>7. ResourcesExact' BY <1>0, <1>1, <1>2, <1>5, <1>6, SameArray DEF ResourcesExact
<1>. QED BY <1>0, <1>7 DEF ResourcesInv, Indices

LEMMA OtherWritesStep ==
  ASSUME ResourcesInv, NEW i \in DOMAIN cells, OtherWrites(i) PROVE ResourcesInv'
<1>1. answer'.op = "none" /\ UNCHANGED array /\ touched' = touched \cup {i}
  BY DEF OtherWrites, ResourcesInv
<1>2. /\ DOMAIN cells' = DOMAIN cells /\ cells'[i] = Other
      /\ \A j \in DOMAIN cells \ {i} : cells'[j] = cells[j]
  BY DEF OtherWrites
<1>3. DOMAIN wrote' = DOMAIN wrote \ {i} /\ \A j \in DOMAIN wrote \ {i} : wrote'[j] = wrote[j]
  BY DEF OtherWrites
<1>4. CellsExact'
  BY <1>1, <1>2, <1>3, SameArray DEF ResourcesInv, ResourcesExact, CellsExact
<1>. QED BY <1>1, <1>2, <1>3, <1>4 DEF ResourcesInv, ResourcesExact, Indices

\* The writes of the three kinds: what is sent means what was asked.
LEMMA WriteStep ==
  ASSUME ResourcesInv, NEW i \in Int, NEW v \in Values(array.kind),
         WriteCounter(i, v) \/ WriteRegister(i, v) \/ WriteMeter(i, v)
  PROVE  ResourcesInv'
<1>0. /\ array \in Arrays /\ (Validate(i, FALSE) <=> IndexRight("write", i))
  BY ValidateRight DEF ResourcesInv, IndexRight
<1>1. CASE WriteCounter(i, v)
  <2> DEFINE m == [PacketCount |-> v.packets, ByteCount |-> v.bytes]
  <2>1. v \in [packets : 0..MaxRate, bytes : 0..MaxRate] BY <1>1 DEF WriteCounter, Values
  <2>2. m \in [PacketCount : Int, ByteCount : Int] BY <2>1, ResourcesAssumption
  <2>3. m # Absent BY <2>2, ResourcesAssumption
  <2>4. ValueRight(v) /\ Stored(m) = Meaning(v)
    BY <1>1, <2>3 DEF WriteCounter, ValueRight, Meaning, Stored
  <2>5. CASE Validate(i, FALSE)
    BY <1>1, <2>4, <2>5, ModifyStep DEF WriteCounter
  <2>6. CASE ~Validate(i, FALSE)
    BY <1>0, <1>1, <2>6, RefuseStep DEF WriteCounter
  <2>. QED BY <2>5, <2>6
<1>2. CASE WriteRegister(i, v)
  <2>1. v \in [number : 0..MaxRate, form : {"shortest", "padded", "mistyped"}]
    BY <1>2 DEF WriteRegister, Values
  <2>2. Normalized(v) = [number |-> v.number, form |-> "shortest"] BY <2>1 DEF Normalized
  <2>3. Normalized(v) \in [number : Int, form : {"shortest"}] BY <2>1, <2>2, ResourcesAssumption
  <2>4. Normalized(v) # Absent BY <2>3, ResourcesAssumption
  <2>5. (ValueRight(v) <=> v.form # "mistyped") /\ Stored(Normalized(v)) = Meaning(v)
    BY <1>2, <2>2, <2>4 DEF WriteRegister, ValueRight, Meaning, Stored
  <2>6. CASE Validate(i, FALSE) /\ v.form # "mistyped"
    BY <1>2, <2>5, <2>6, ModifyStep DEF WriteRegister
  <2>7. CASE ~(Validate(i, FALSE) /\ v.form # "mistyped")
    BY <1>0, <1>2, <2>5, <2>7, RefuseStep DEF WriteRegister
  <2>. QED BY <2>6, <2>7
<1>3. CASE WriteMeter(i, v)
  <2>0. array.kind = "meter" BY <1>3 DEF WriteMeter, SetMeter
  <2>1. v \in Configs BY <2>0 DEF Values
  <2>2. v # Absent BY <2>1, ConfigTyped, ResourcesAssumption
  <2>3. ValueRight(v) <=> ToProto(v) BY <1>0, <2>0, <2>1, ProtoSettable DEF ValueRight
  <2>4. Stored(MeterConfig(v)) = Meaning(v)
    BY <2>0, <2>1, <2>2, ConfigTyped DEF Stored, MeterConfig, Meaning
  <2>5. CASE Validate(i, FALSE) /\ ToProto(v)
    BY <1>3, <2>2, <2>3, <2>4, <2>5, ModifyStep DEF WriteMeter, SetMeter
  <2>6. CASE ~(Validate(i, FALSE) /\ ToProto(v))
    BY <1>0, <1>3, <2>2, <2>3, <2>6, RefuseStep DEF WriteMeter, SetMeter
  <2>. QED BY <2>5, <2>6
<1>. QED BY <1>1, <1>2, <1>3

LEMMA ResetStep == ASSUME ResourcesInv, NEW i \in Int, Reset(i) PROVE ResourcesInv'
<1>1. Stored(MeterConfig(Absent)) = Default BY DEF Stored, MeterConfig
<1>2. Validate(i, FALSE) <=> IndexRight("reset", i)
  BY ValidateRight DEF ResourcesInv, IndexRight
<1>3. CASE Validate(i, FALSE) BY <1>1, <1>3, ModifyStep DEF Reset, SetMeter
<1>4. CASE ~Validate(i, FALSE) BY <1>2, <1>4, RefuseStep DEF Reset, SetMeter
<1>. QED BY <1>3, <1>4

\* Whatever calls are made on an array and whoever else writes to it, its cells
\* hold what their callers asked for and nothing that is wrong for the array, a
\* call is refused exactly when its index or its value is wrong, and a read shows
\* the cells it asks for.
THEOREM ResourcesAreExact == ResourcesSpec => []ResourcesExact
<1>1. ResourcesInit => ResourcesInv
  BY DEF ResourcesInit, ResourcesInv, ResourcesExact, CellsExact
<1>2. ResourcesInv /\ [ResourcesNext]_avars => ResourcesInv'
  <2> SUFFICES ASSUME ResourcesInv, [ResourcesNext]_avars PROVE ResourcesInv'
    OBVIOUS
  <2>0. -2..MaxSize \subseteq Int BY ResourcesAssumption
  <2>1. ASSUME NEW i \in -2..MaxSize, Read(i) PROVE ResourcesInv'
    BY <2>0, <2>1, ReadStep
  <2>2. ASSUME NEW i \in -2..MaxSize, Reset(i) PROVE ResourcesInv'
    BY <2>0, <2>2, ResetStep
  <2>3. ASSUME NEW i \in -2..MaxSize, NEW v \in Values(array.kind),
               WriteCounter(i, v) \/ WriteRegister(i, v) \/ WriteMeter(i, v)
        PROVE  ResourcesInv'
    BY <2>0, <2>3, WriteStep
  <2>4. ASSUME NEW i \in DOMAIN cells, OtherWrites(i) PROVE ResourcesInv'
    BY <2>4, OtherWritesStep
  <2>5. CASE UNCHANGED avars
    <3>1. CellsExact' BY <2>5, SameArray DEF avars, ResourcesInv, ResourcesExact, CellsExact
    <3>2. ResourcesExact' BY <2>5, <3>1, SameArray DEF avars, ResourcesInv, ResourcesExact
    <3>. QED BY <2>5, <3>2 DEF avars, ResourcesInv, Indices
  <2>. QED BY <2>1, <2>2, <2>3, <2>4, <2>5 DEF ResourcesNext
<1>. QED BY <1>1, <1>2, PTL DEF ResourcesSpec, ResourcesInv

-----------------------------------------------------------------------------
(* Table entries *)

\* A set of natural numbers that is not empty has a least one.
LEMMA LeastNat ==
  ASSUME NEW T, T \subseteq Nat, T # {} PROVE \E n \in T : \A m \in T : n <= m
<1>1. PICK n \in T : \A m \in T : ~(<<m, n>> \in OpToRel(<, Nat))
  BY NatLessThanWellFounded, WFMin
<1>2. \A m \in T : <<m, n>> \in OpToRel(<, Nat) <=> m < n
  BY DEF OpToRel
<1>3. n \in Nat /\ \A m \in T : m \in Nat /\ ~(m < n) BY <1>1, <1>2
<1>. QED BY <1>3

\* Any set of match fields can be put in the order of IDs: the one with the least
\* ID, and then the others.
LEMMA OrderExists ==
  ASSUME NEW S, S \subseteq Fields
  PROVE  \E s \in [1..Cardinality(S) -> S] : InIDOrder(s)
<1> DEFINE Ordered(T) == \E s \in [1..Cardinality(T) -> T] : InIDOrder(s)
           Bad == {n \in Nat : \E T \in SUBSET Fields : Cardinality(T) = n /\ ~Ordered(T)}
<1>1. \A T \in SUBSET Fields : IsFiniteSet(T) /\ Cardinality(T) \in Nat
  BY EntryAssumption, FS_Subset, FS_CardinalityType
<1>2. SUFFICES ASSUME Bad # {} PROVE FALSE
  <2>1. S \in SUBSET Fields /\ Cardinality(S) \in Nat BY <1>1
  <2>. QED BY <1>2, <2>1
<1>3. PICK n \in Bad : \A m \in Bad : n <= m BY <1>2, LeastNat
<1>4. PICK T \in SUBSET Fields : Cardinality(T) = n /\ ~Ordered(T) OBVIOUS
<1>5. n \in Nat /\ IsFiniteSet(T) BY <1>1, <1>4
<1>6. n # 0
  <2>1. SUFFICES ASSUME n = 0 PROVE FALSE OBVIOUS
  <2>2. [i \in 1..0 |-> i] \in [1..Cardinality(T) -> T] BY <1>4, <2>1
  <2>3. InIDOrder([i \in 1..0 |-> i]) BY DEF InIDOrder
  <2>. QED BY <1>4, <2>2, <2>3
<1>7. PICK f \in T : \A g \in T : FieldID[f] <= FieldID[g]
  <2> DEFINE M == {FieldID[g] : g \in T}
  <2>1. T # {} BY <1>4, <1>6, FS_EmptySet
  <2>2. M \subseteq Nat /\ M # {} BY <2>1, EntryAssumption
  <2>3. PICK k \in M : \A m \in M : k <= m BY <2>2, LeastNat
  <2>. QED BY <2>3
<1>8. Cardinality(T \ {f}) = n - 1 BY <1>4, <1>5, FS_RemoveElement
<1>9. Ordered(T \ {f})
  <2>1. SUFFICES ASSUME ~Ordered(T \ {f}) PROVE FALSE OBVIOUS
  <2>2. n - 1 \in Nat /\ T \ {f} \in SUBSET Fields BY <1>5, <1>6
  <2>3. n - 1 \in Bad BY <1>8, <2>1, <2>2
  <2>4. n <= n - 1 BY <1>3, <2>3
  <2>. QED BY <1>5, <2>4
<1>10. PICK s \in [1..n - 1 -> T \ {f}] : InIDOrder(s) BY <1>8, <1>9
<1> DEFINE t == [i \in 1..n |-> IF i = 1 THEN f ELSE s[i - 1]]
<1>11. \A i \in 2..n : t[i] = s[i - 1] /\ i - 1 \in 1..n - 1 /\ s[i - 1] \in T \ {f}
  BY <1>5, <1>10
<1>12. t \in [1..n -> T] BY <1>5, <1>11
<1>13. InIDOrder(t)
  <2>1. SUFFICES ASSUME NEW i \in 1..n, NEW j \in 1..n, i < j
                 PROVE  FieldID[t[i]] < FieldID[t[j]]
    BY DEF InIDOrder
  <2>2. j \in 2..n /\ t[j] = s[j - 1] /\ t[j] \in T \ {f} /\ j - 1 \in 1..n - 1
    BY <1>5, <1>11, <2>1
  <2>3. CASE i = 1
    <3>1. t[i] = f BY <2>3
    <3>2. FieldID[f] <= FieldID[t[j]] /\ FieldID[f] # FieldID[t[j]]
      BY <1>7, <2>2, EntryAssumption
    <3>3. FieldID[f] \in Nat /\ FieldID[t[j]] \in Nat BY <2>2, EntryAssumption
    <3>. QED BY <3>1, <3>2, <3>3
  <2>4. CASE i # 1
    <3>1. t[i] = s[i - 1] /\ i - 1 \in 1..n - 1 BY <1>5, <1>11, <2>1, <2>4
    <3>2. DOMAIN s = 1..n - 1 /\ i - 1 < j - 1 BY <1>5, <1>10, <2>1
    <3>. QED BY <1>10, <2>2, <3>1, <3>2 DEF InIDOrder
  <2>. QED BY <2>3, <2>4
<1>. QED BY <1>4, <1>12, <1>13

\* Every call keeps the parts of the builder of their types.
EntryInv ==
  /\ types \in [Fields -> {"EXACT", "LPM", "TERNARY"}]
  /\ scope \in Scopes
  /\ \A f \in DOMAIN matches : matches[f] \in MatchValues
  /\ priority \in Int /\ timeout \in Int /\ isDefault \in BOOLEAN

LEMMA EntryStart == EntryInit => EntryInv
<1> SUFFICES ASSUME EntryInit PROVE EntryInv
  OBVIOUS
<1>1. DOMAIN matches = {} BY DEF EntryInit
<1>2. types \in [Fields -> {"EXACT", "LPM", "TERNARY"}] /\ scope \in Scopes BY DEF EntryInit
<1>3. priority \in Int /\ timeout \in Int BY DEF EntryInit
<1>4. isDefault \in BOOLEAN BY Zenon DEF EntryInit
<1>. QED BY <1>1, <1>2, <1>3, <1>4 DEF EntryInv

LEMMA EntryStep == EntryInv /\ [EntryNext]_evars => EntryInv'
<1> SUFFICES ASSUME EntryInv, [EntryNext]_evars PROVE EntryInv'
  OBVIOUS
<1>1. ASSUME NEW f, NEW v \in MatchValues, Match(f, v) PROVE EntryInv'
  BY <1>1 DEF Match, EntryInv, table
<1>2. ASSUME NEW a, NEW ps, Action(a, ps) PROVE EntryInv'
  BY <1>2 DEF Action, EntryInv, table
<1>3. ASSUME NEW p \in -1..1, Priority(p) PROVE EntryInv'
  BY <1>3 DEF Priority, EntryInv, table
<1>4. ASSUME NEW ns \in -1..1, IdleTimeout(ns) PROVE EntryInv'
  BY <1>4 DEF IdleTimeout, EntryInv, table
<1>5. CASE AsDefault BY <1>5 DEF AsDefault, EntryInv, table
<1>6. CASE UNCHANGED evars BY <1>6 DEF evars, EntryInv, table
<1>7. "ok" \in MatchValues BY DEF MatchValues
<1>. QED BY <1>1, <1>2, <1>3, <1>4, <1>5, <1>6, <1>7 DEF EntryNext

\* encodeMatches: a sequence in the order of IDs, of all fields that are encoded.
LEMMA EncodedInOrder ==
  InIDOrder(EncodedMatches) /\ {EncodedMatches[i] : i \in DOMAIN EncodedMatches} = Matched
<1>1. Matched \subseteq Fields BY DEF Matched
<1>2. EncodedMatches \in [1..Cardinality(Matched) -> Matched] /\ InIDOrder(EncodedMatches)
  BY <1>1, OrderExists DEF EncodedMatches
<1>3. IsFiniteSet(Matched) /\ Cardinality(Matched) \in Nat
  BY <1>1, EntryAssumption, FS_Subset, FS_CardinalityType
<1> DEFINE n == Cardinality(Matched)
           s == EncodedMatches
<1>4. \A i, j \in 1..n : s[i] = s[j] => i = j
  <2> SUFFICES ASSUME NEW i \in 1..n, NEW j \in 1..n, s[i] = s[j], i # j PROVE FALSE
    OBVIOUS
  <2>1. DOMAIN s = 1..n /\ s[i] \in Matched BY <1>2
  <2>2. FieldID[s[i]] \in Nat BY <1>1, <2>1, EntryAssumption
  <2>3. i < j \/ j < i BY <1>3
  <2>. QED BY <1>2, <2>1, <2>2, <2>3 DEF InIDOrder
<1>5. s \in Injection(1..n, Matched) BY <1>2, <1>4 DEF Injection, IsInjective
<1>6. IsFiniteSet(1..n) /\ Cardinality(1..n) = n BY <1>3, FS_Interval
<1>7. s \in Surjection(1..n, Matched) BY <1>3, <1>5, <1>6, FS_Injection
<1>8. \A f \in Matched : \E i \in 1..n : s[i] = f BY <1>7 DEF Surjection
<1>. QED BY <1>2, <1>8

\* The parts of a key: those of a default entry, or the matches and the priority.
LEMMA KeyParts ==
  ASSUME EntryInv, BuildKey.ok
  PROVE  /\ BuildKey = [ok |-> TRUE, default |-> isDefault, match |-> BuildKey.match,
                        priority |-> BuildKey.priority, timeout |-> 0, params |-> <<>>]
         /\ isDefault => BuildKey.match = <<>> /\ BuildKey.priority = 0
         /\ ~isDefault => /\ MatchesValid /\ PriorityValid
                          /\ BuildKey.match = EncodedMatches /\ BuildKey.priority = priority
<1>. USE DEF Refused, EntryInv
<1>1. CASE isDefault BY <1>1 DEF BuildKey
<1>2. CASE ~isDefault /\ MatchesValid /\ PriorityValid BY <1>2 DEF BuildKey
<1>3. CASE ~isDefault /\ ~(MatchesValid /\ PriorityValid) BY <1>3 DEF BuildKey
<1>. QED BY <1>1, <1>2, <1>3

LEMMA KeyWellFormed == ASSUME EntryInv, BuildKey.ok PROVE WellFormedKey(BuildKey)
<1>0. BuildKey.default = isDefault BY KeyParts
<1>1. CASE isDefault BY <1>0, <1>1, KeyParts DEF WellFormedKey
<1>2. CASE ~isDefault
  <2>1. /\ MatchesValid /\ PriorityValid /\ BuildKey.match = EncodedMatches
        /\ BuildKey.priority = priority
    BY <1>2, KeyParts
  <2>2. MatchedFields(BuildKey) = Matched BY <2>1, EncodedInOrder DEF MatchedFields
  <2>3. {f \in Fields : types[f] = "EXACT"} \subseteq Matched
    BY <2>1 DEF MatchesValid, Encodes, Matched
  <2>4. /\ priority \in Int /\ priority >= 0
        /\ priority > 0 <=> \E f \in Fields : types[f] = "TERNARY"
    BY <2>1 DEF PriorityValid, NeedsPriority, EntryInv
  <2>. QED BY <1>0, <1>2, <2>1, <2>2, <2>3, <2>4, EncodedInOrder DEF WellFormedKey
<1>. QED BY <1>1, <1>2 DEF EntryInv

\* An entry with another timeout and other parameters.
Entry(d, m, p, t, ps) ==
  [ok |-> TRUE, default |-> d, match |-> m, priority |-> p, timeout |-> t, params |-> ps]

With(e, t, ps) == [e EXCEPT !.timeout = t, !.params = ps]

LEMMA OtherParts ==
  ASSUME NEW d, NEW m, NEW p, NEW t, NEW ps, NEW t2, NEW ps2,
         NEW e, e = Entry(d, m, p, t, ps)
  PROVE  With(e, t2, ps2) = Entry(d, m, p, t2, ps2)
<1>. USE DEF Entry
<1>1. [Entry(d, m, p, t, ps) EXCEPT !.timeout = t2, !.params = ps2]
      = [[Entry(d, m, p, t, ps) EXCEPT !.timeout = t2] EXCEPT !.params = ps2]
  OBVIOUS
<1>2. [Entry(d, m, p, t, ps) EXCEPT !.timeout = t2] = Entry(d, m, p, t2, ps)
  <2>1. \A o : [[ok |-> o, default |-> d, match |-> m, priority |-> p, timeout |-> t, params |-> ps]
                  EXCEPT !.timeout = t2]
             = [ok |-> o, default |-> d, match |-> m, priority |-> p, timeout |-> t2, params |-> ps]
    OBVIOUS
  <2>. QED BY <2>1, Zenon
<1>3. [Entry(d, m, p, t2, ps) EXCEPT !.params = ps2] = Entry(d, m, p, t2, ps2)
  <2>1. \A o : [[ok |-> o, default |-> d, match |-> m, priority |-> p, timeout |-> t2, params |-> ps]
                  EXCEPT !.params = ps2]
             = [ok |-> o, default |-> d, match |-> m, priority |-> p, timeout |-> t2, params |-> ps2]
    OBVIOUS
  <2>. QED BY <2>1, Zenon
<1>4. [Entry(d, m, p, t, ps) EXCEPT !.timeout = t2, !.params = ps2]
      = Entry(d, m, p, t2, ps2)
  BY <1>1, <1>2, <1>3
<1>. QED BY <1>4, Zenon DEF With

\* The values of the action's parameters, in their order.
ParamValues == [i \in DOMAIN Params |-> params[Params[i]]]

\* What Build returns: the key with the timeout and the parameters.
LEMMA BuildParts ==
  ASSUME EntryInv, Build.ok
  PROVE  /\ BuildKey.ok /\ TimeoutValid /\ ActionValid
         /\ Build = Entry(isDefault, BuildKey.match, BuildKey.priority, timeout, ParamValues)
         /\ BuildKey = Entry(isDefault, BuildKey.match, BuildKey.priority, 0, <<>>)
<1>1. BuildKey.ok /\ TimeoutValid /\ action # "none" /\ ActionValid BY DEF Build, Refused
<1>2. Build = With(BuildKey, timeout, ParamValues) BY <1>1 DEF Build, With, ParamValues
<1>3. BuildKey = Entry(isDefault, BuildKey.match, BuildKey.priority, 0, <<>>)
  BY <1>1, KeyParts, Zenon DEF Entry
<1>4. ASSUME NEW d, NEW m, NEW p, BuildKey = Entry(d, m, p, 0, <<>>)
      PROVE  With(BuildKey, timeout, ParamValues) = Entry(d, m, p, timeout, ParamValues)
  BY <1>4, OtherParts
<1>. QED BY <1>1, <1>2, <1>3, <1>4, Zenon

\* Whatever calls were made on a builder, an entry or a key it builds is one the
\* P4Runtime specification allows for the table.
THEOREM BuiltIsWellFormed == EntrySpec => []BuiltWellFormed
<1>1. EntryInv => BuiltWellFormed
  <2> SUFFICES ASSUME EntryInv PROVE BuiltWellFormed
    OBVIOUS
  <2>1. ASSUME Build.ok PROVE WellFormed(Build)
    <3>1. /\ BuildKey.ok /\ TimeoutValid /\ ActionValid
          /\ Build.default = isDefault /\ Build.match = BuildKey.match
          /\ Build.priority = BuildKey.priority /\ Build.timeout = timeout
          /\ Build.params = ParamValues /\ BuildKey.default = isDefault
      BY <2>1, BuildParts DEF Entry
    <3>2. WellFormedKey(Build)
      BY <3>1, KeyWellFormed DEF WellFormedKey, MatchedFields, InIDOrder
    <3>3. /\ timeout \in Int /\ timeout >= 0
          /\ timeout > 0 => ~isDefault /\ "idle timeout" \in flags
      <4>1. CASE timeout = 0 BY <4>1
      <4>2. CASE timeout > 0 /\ ~isDefault /\ "idle timeout" \in flags
        <5>1. timeout \in Int BY DEF EntryInv
        <5>2. timeout > 0 BY <4>2, Zenon
        <5>3. timeout >= 0 BY <5>1, <5>2
        <5>. QED BY <4>2, <5>1, <5>3, Zenon
      <4>. QED BY <3>1, <4>1, <4>2 DEF TimeoutValid
    <3>4. /\ isDefault => scope # "TABLE_ONLY" /\ "const default" \notin flags
          /\ ~isDefault => scope # "DEFAULT_ONLY" /\ "const table" \notin flags
          /\ scope # "not on table" /\ "indirect" \notin flags
      BY <3>1 DEF ActionValid
    <3>5. DOMAIN ParamValues = DOMAIN Params /\ \A i \in DOMAIN ParamValues : ParamValues[i] = "ok"
      BY <3>1 DEF ActionValid, ParamValues, Range
    <3>. QED BY <3>1, <3>2, <3>3, <3>4, <3>5 DEF WellFormed
  <2>. QED BY <2>1, KeyWellFormed DEF BuiltWellFormed
<1>. QED BY <1>1, EntryStart, EntryStep, PTL DEF EntrySpec

\* What BuildKey deletes is what Build inserts, and its key has every field the
\* caller gave a value that does not match everything.
THEOREM KeyIsOfBuilt == EntrySpec => []KeyOfBuilt
<1>1. EntryInv => KeyOfBuilt
  <2> SUFFICES ASSUME EntryInv, Build.ok
               PROVE  /\ BuildKey = [Build EXCEPT !.timeout = 0, !.params = <<>>]
                      /\ ~isDefault =>
                           MatchedFields(Build) = {f \in DOMAIN matches : matches[f] # "any"}
    BY DEF KeyOfBuilt
  <2>1. BuildKey = [Build EXCEPT !.timeout = 0, !.params = <<>>]
    <3>1. ASSUME NEW d, NEW m, NEW p, Build = Entry(d, m, p, timeout, ParamValues)
          PROVE  With(Build, 0, <<>>) = Entry(d, m, p, 0, <<>>)
      BY <3>1, OtherParts
    <3>2. BuildKey = With(Build, 0, <<>>) BY <3>1, BuildParts, Zenon
    <3>. QED BY <3>2, Zenon DEF With
  <2>2. ASSUME ~isDefault PROVE MatchedFields(Build) = {f \in DOMAIN matches : matches[f] # "any"}
    <3>1. MatchesValid /\ Build.match = EncodedMatches
      BY <2>2, BuildParts, KeyParts DEF Entry
    <3>2. MatchedFields(Build) = Matched BY <3>1, EncodedInOrder DEF MatchedFields
    <3>3. DOMAIN matches \subseteq Fields
          /\ \A f \in DOMAIN matches : matches[f] \in {"ok", "any"}
      BY <3>1 DEF MatchesValid, Encodes
    <3>. QED BY <3>2, <3>3 DEF Matched
  <2>. QED BY <2>1, <2>2
<1>. QED BY <1>1, EntryStart, EntryStep, PTL DEF EntrySpec
=============================================================================

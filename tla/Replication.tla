---------------------------- MODULE Replication ----------------------------
(***************************************************************************)
(* pre/pre.go: the replicas of multicast groups and clone sessions, on     *)
(* their way to the target (validateReplicas, encodeReplicas) and back     *)
(* (decodeReplicas).                                                       *)
(*                                                                         *)
(* A port is nil, empty or one of Ports; instances and the other fields of *)
(* a group are passed through and left out. Clone sessions differ only in  *)
(* such fields, so one set of actions stands for both. The target is       *)
(* external: it stores what is written, and another controller may have    *)
(* stored anything.                                                        *)
(***************************************************************************)
EXTENDS Naturals, Sequences, FiniteSets

CONSTANTS
  IDs,         \* IDs a caller may use, zero among them
  Ports,       \* byte strings that name a port
  MaxEgress,   \* largest port number of the old field
  MaxReplicas, \* most replicas of a group
  MaxBackups   \* most backups of a replica

Nil == "nil"      \* a nil slice or message
Empty == "empty"  \* an empty byte string

ASSUME ReplicationAssumption ==
  /\ IDs \subseteq Nat /\ 0 \in IDs
  /\ Nil \notin Ports /\ Empty \notin Ports
  /\ MaxEgress \in Nat /\ MaxReplicas \in Nat /\ MaxBackups \in Nat

SeqsUpTo(S, n) == UNION {[1..k -> S] : k \in 0..n}

Replica == [Port : Ports \cup {Nil, Empty}, EgressPort : 0..MaxEgress,
            BackupReplicas : SeqsUpTo(Ports \cup {Nil, Empty}, MaxBackups)]

\* The protobuf message: a oneof of the old and the new port, or neither.
Proto == [kind : {"port"}, port : Ports \cup {Empty},
          backups : SeqsUpTo(Ports \cup {Nil, Empty}, MaxBackups)]
         \cup [kind : {"egress"}, port : 0..MaxEgress,
               backups : SeqsUpTo(Ports \cup {Nil, Empty}, MaxBackups)]
         \cup [kind : {"missing", Nil}, port : {Nil}, backups : {<<>>}]

HasPort(p) == p \notin {Nil, Empty}

\* One replica, exactly one of the two port fields, backups with ports.
ValidReplica(r) ==
  /\ ~(r.Port # Nil /\ r.EgressPort # 0)
  /\ r.Port # Empty
  /\ ~(r.Port = Nil /\ r.EgressPort = 0)
  /\ \A j \in DOMAIN r.BackupReplicas : HasPort(r.BackupReplicas[j])

ValidateReplicas(rs) == rs # <<>> /\ \A i \in DOMAIN rs : ValidReplica(rs[i])

\* writeMulticastGroup and writeCloneSession refuse an ID of zero first.
Accepted(id, rs) == id # 0 /\ ValidateReplicas(rs)

EncodeReplica(r) ==
  IF r.Port # Nil
  THEN [kind |-> "port", port |-> r.Port, backups |-> r.BackupReplicas]
  ELSE [kind |-> "egress", port |-> r.EgressPort, backups |-> r.BackupReplicas]

EncodeReplicas(rs) == [i \in DOMAIN rs |-> EncodeReplica(rs[i])]

\* What decodeReplicas accepts, and what it makes of it.
MutDecodable(w) ==
  /\ w.kind \in {"port", "egress"}
  /\ \A j \in DOMAIN w.backups : HasPort(w.backups[j])
Decodable(w) ==
  /\ \/ w.kind = "egress" /\ w.port # 0
     \/ w.kind = "port" /\ w.port # Empty
  /\ \A j \in DOMAIN w.backups : HasPort(w.backups[j])

DecodeReplica(w) ==
  [Port |-> IF w.kind = "port" THEN w.port ELSE Nil,
   EgressPort |-> IF w.kind = "egress" THEN w.port ELSE 0,
   BackupReplicas |-> w.backups]

AllDecodable(ws) == \A i \in DOMAIN ws : Decodable(ws[i])
DecodeReplicas(ws) == [i \in DOMAIN ws |-> DecodeReplica(ws[i])]

-----------------------------------------------------------------------------
VARIABLES
  groups,  \* the target's groups: replicas by ID, for the IDs in use
  written, \* history: what this client wrote last under each ID still its own
  reply    \* the last call's outcome, and the replicas by ID a Read returned

rvars == <<groups, written, reply>>

ReplicationInit ==
  groups = <<>> /\ written = <<>> /\ reply = [err |-> "nil", read |-> <<>>]

Put(f, id, v) == [k \in DOMAIN f \cup {id} |-> IF k = id THEN v ELSE f[k]]
Drop(f, id) == [k \in DOMAIN f \ {id} |-> f[k]]

Say(err, read) == reply' = [err |-> err, read |-> read]

\* InsertMulticastGroup and ModifyMulticastGroup; the target refuses to insert
\* a group that exists and to modify one that does not.
WriteGroup(kind, id, rs) ==
  \/ /\ ~Accepted(id, rs)
     /\ Say("argument", <<>>) /\ UNCHANGED <<groups, written>>
  \/ /\ Accepted(id, rs) /\ (kind = "insert") = (id \in DOMAIN groups)
     /\ Say("target", <<>>) /\ UNCHANGED <<groups, written>>
  \/ /\ Accepted(id, rs) /\ (kind = "modify") = (id \in DOMAIN groups)
     /\ groups' = Put(groups, id, EncodeReplicas(rs))
     /\ written' = Put(written, id, rs) /\ Say("nil", <<>>)

DeleteGroup(id) ==
  \/ /\ id = 0 \/ id \notin DOMAIN groups
     /\ Say(IF id = 0 THEN "argument" ELSE "target", <<>>) /\ UNCHANGED <<groups, written>>
  \/ /\ id # 0 /\ id \in DOMAIN groups
     /\ groups' = Drop(groups, id) /\ written' = Drop(written, id) /\ Say("nil", <<>>)

\* The IDs a Read selects: zero stands for all.
Selected(id) == {k \in DOMAIN groups : id = 0 \/ k = id}

\* One group that cannot be decoded fails the whole Read.
ReadGroups(id) ==
  /\ IF \A k \in Selected(id) : AllDecodable(groups[k])
     THEN Say("nil", [k \in Selected(id) |-> DecodeReplicas(groups[k])])
     ELSE Say("decode", <<>>)
  /\ UNCHANGED <<groups, written>>

\* Another controller, or an older one, stores a group of its own.
Foreign(id, ws) ==
  /\ id # 0 /\ groups' = Put(groups, id, ws) /\ written' = Drop(written, id)
  /\ UNCHANGED reply

ReplicationNext ==
  \/ \E id \in IDs, rs \in SeqsUpTo(Replica, MaxReplicas), kind \in {"insert", "modify"} :
       WriteGroup(kind, id, rs)
  \/ \E id \in IDs : DeleteGroup(id) \/ ReadGroups(id)
  \/ \E id \in IDs, ws \in SeqsUpTo(Proto, MaxReplicas) : Foreign(id, ws)

ReplicationSpec == ReplicationInit /\ [][ReplicationNext]_rvars

-----------------------------------------------------------------------------
(* Properties *)

\* What the client wrote can be read back as it was written, with the port field
\* the caller used, for as long as nobody else wrote the group. What a Read
\* returns can be written back and means the same to the target: every group
\* read is valid, unless it has no replicas at all, and whatever can be decoded
\* encodes to what the target holds.
ReplicasRoundTrip ==
  /\ \A k \in DOMAIN written :
       AllDecodable(groups[k]) /\ DecodeReplicas(groups[k]) = written[k]
  /\ \A k \in DOMAIN reply.read :
       reply.read[k] # <<>> => ValidateReplicas(reply.read[k])
  /\ \A k \in DOMAIN groups :
       AllDecodable(groups[k]) => EncodeReplicas(DecodeReplicas(groups[k])) = groups[k]
=============================================================================

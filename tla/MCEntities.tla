----------------------------- MODULE MCEntities -----------------------------
(***************************************************************************)
(* What is written to the target and read from it, for TLC: table entries, *)
(* multicast groups and clone sessions, and the array resources. They have *)
(* nothing to do with each other: a behaviour is of one.                   *)
(***************************************************************************)
EXTENDS TableEntry, Replication, Resources, TLC

CONSTANTS f1, f2, p1
\* The fields are declared in another order than that of their IDs.
MCFieldID == (f1 :> 2) @@ (f2 :> 1)
MCParams == <<p1>>

VARIABLE part  \* which of the three a behaviour is about

NoEntry == EntryInit /\ scope = "TABLE_ONLY" /\ flags = {} /\ types = [f \in Fields |-> "EXACT"]
NoArray == ResourcesInit /\ array = CHOOSE a \in Arrays : a.kind = "counter"

EntitiesInit ==
  \/ part = "entry" /\ EntryInit /\ ReplicationInit /\ NoArray
  \/ part = "group" /\ NoEntry /\ ReplicationInit /\ NoArray
  \/ part = "array" /\ NoEntry /\ ReplicationInit /\ ResourcesInit

EntitiesNext ==
  /\ UNCHANGED part
  /\ \/ part = "entry" /\ EntryNext /\ UNCHANGED <<rvars, avars>>
     \/ part = "group" /\ ReplicationNext /\ UNCHANGED <<evars, avars>>
     \/ part = "array" /\ ResourcesNext /\ UNCHANGED <<evars, rvars>>

EntitiesSpec == EntitiesInit /\ [][EntitiesNext]_<<part, evars, rvars, avars>>
=============================================================================

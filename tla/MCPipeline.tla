----------------------------- MODULE MCPipeline -----------------------------
(***************************************************************************)
(* The pipeline package for TLC. P4Info messages for PipelineIndex: two    *)
(* declarations of one kind with every choice of names, aliases and IDs,   *)
(* equal ones included, and one message with several kinds. A behaviour is *)
(* of the index or of the search of a message graph.                       *)
(***************************************************************************)
EXTENDS PipelineIndex, MessageGraph, TLC

Member(i, n) == [id |-> i, name |-> n, data |-> "member"]
Decl(i, n, alias, members, refs, direct) ==
  [id |-> i, name |-> n, alias |-> alias, data |-> "decl",
   members |-> members, refs |-> refs, direct |-> direct]

With(k, decls) == [Cleared EXCEPT !.decls[k] = decls]

\* The first declaration's keys may be taken by the second.
Pairs(k, alias, members) ==
  {With(k, <<Decl(1, "n1", a1, members, <<>>, 0), Decl(i, n, a2, <<>>, <<>>, 0)>>) :
     i \in IDs, n \in Names, a1 \in alias, a2 \in alias}

One == <<Member(1, "n1")>>
Both == <<Member(1, "n1"), Member(2, "n2")>>
Twins == <<Member(1, "n1"), Member(1, "n1")>>
Ref == <<[id |-> 1, data |-> "ref"]>>

Whole ==
  [sound |-> TRUE,
   decls |-> [k \in Kinds |->
     CASE k = "table" -> <<Decl(2, "n2", NoAlias, One, Ref, 0)>>
       [] k = "packetMetadata" -> <<Decl(1, "n1", NoAlias, Both, <<>>, 0)>>
       [] k = "directCounter" -> <<Decl(1, "n1", NoAlias, <<>>, <<>>, 2)>>
       [] k = "directMeter" -> <<Decl(1, "n1", NoAlias, <<>>, <<>>, 1)>>
       [] k = "digest" -> <<Decl(1, "n1", "n2", <<>>, <<>>, 0)>>
       [] OTHER -> <<>>]]

MCInfos ==
  Pairs("table", {NoAlias, "n2"}, One)
    \cup Pairs("action", {NoAlias}, Twins)
    \cup {Whole, [Whole EXCEPT !.sound = FALSE]}

Symmetry == Permutations(Callers)

VARIABLE part  \* which of the two a behaviour is about

EmptyIndex == message = Cleared /\ IndexInit
NoGraph == children = [m \in Messages |-> {}] /\ wrapped = {} /\ SearchInit

PipelineInit ==
  \/ part = "index" /\ Init /\ NoGraph
  \/ part = "graph" /\ GraphInit /\ EmptyIndex

PipelineNext ==
  /\ UNCHANGED part
  /\ \/ part = "index" /\ Next /\ UNCHANGED gvars
     \/ part = "graph" /\ GraphNext /\ UNCHANGED vars

PipelineSpec == PipelineInit /\ [][PipelineNext]_<<part, vars, gvars>>
=============================================================================

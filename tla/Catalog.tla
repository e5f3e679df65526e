------------------------------ MODULE Catalog ------------------------------
(***************************************************************************)
(* What the pipeline package promises of a Pipeline: "immutable after      *)
(* construction ... Returned messages and definitions are independent      *)
(* copies whose mutation does not change the Pipeline".                    *)
(*                                                                         *)
(* There are no pointers here. The catalog is a value fixed when it is     *)
(* published, a caller is given values, and changes only its own. In a     *)
(* definition the members are a list, and the accessors by name and by ID  *)
(* are positions in that list.                                             *)
(***************************************************************************)
EXTENDS Sequences

CONSTANTS Callers, Edited

VARIABLES
  published,
  catalog,   \* [find: key -> definition, tables: list of definitions]
  copies     \* the definitions each caller was given last

vars == <<published, catalog, copies>>

Init ==
  /\ ~published /\ catalog = [find |-> <<>>, tables |-> <<>>]
  /\ copies = [c \in Callers |-> <<>>]

Publish == ~published /\ published' /\ UNCHANGED copies

Give(c, defs) == copies' = [copies EXCEPT ![c] = defs] /\ UNCHANGED <<published, catalog>>

Find(c) == published /\ \E key \in DOMAIN catalog.find : Give(c, <<catalog.find[key]>>)
List(c) == published /\ Give(c, catalog.tables)
Miss(c) == published /\ Give(c, <<>>)

\* A caller changes a definition it was given, or a member of one.
EditDef(c, n) == Give(c, [copies[c] EXCEPT ![n].data = Edited])
EditMember(c, n, j) == Give(c, [copies[c] EXCEPT ![n].members[j].data = Edited])
EditRef(c, n, j) == Give(c, [copies[c] EXCEPT ![n].refs[j].data = Edited])

Next ==
  \/ Publish
  \/ \E c \in Callers :
       \/ Find(c) \/ List(c) \/ Miss(c)
       \/ \E n \in DOMAIN copies[c] :
            \/ EditDef(c, n)
            \/ \E j \in DOMAIN copies[c][n].members : EditMember(c, n, j)
            \/ \E j \in DOMAIN copies[c][n].refs : EditRef(c, n, j)

Spec == Init /\ [][Next]_vars
=============================================================================

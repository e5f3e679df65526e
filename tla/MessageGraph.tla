---------------------------- MODULE MessageGraph ----------------------------
(***************************************************************************)
(* validateMessageGraph of pipeline/message.go: a search of the messages   *)
(* reachable from a P4Info before it is cloned. Cloning would loop on a    *)
(* cycle and would make an empty message of a nil one.                     *)
(*                                                                         *)
(* A message is known by its pointer, so one may be shared by several      *)
(* fields. The messages in the fields, lists and maps of a message are its *)
(* children; protobuf ranges over fields and maps in any order. (A child   *)
(* that two fields of one message hold is met twice, and the second time   *)
(* it is done.) A oneof may hold a typed nil wrapper, which that range     *)
(* does not show. The message does not change while New reads it.          *)
(***************************************************************************)
EXTENDS Naturals, FiniteSets, Sequences

CONSTANTS
  Messages,  \* pointers of messages
  Root,      \* the P4Info
  NilMessage \* a nil pointer

ASSUME GraphAssumption ==
  IsFiniteSet(Messages) /\ Root \in Messages /\ NilMessage \notin Messages

VARIABLES
  children,  \* of each message
  wrapped,   \* messages with a typed nil wrapper in a oneof
  stack,     \* the active visits, each with the children it has yet to meet
  seen,      \* messages whose visit began
  done,      \* those whose visit ended without an error
  verdict,   \* "none" until the search ends, then "ok" or "error"
  count      \* how many times the fields of a message were read

gvars == <<children, wrapped, stack, seen, done, verdict, count>>

Pointers == Messages \cup {NilMessage}

SearchInit == stack = <<>> /\ seen = {} /\ done = {} /\ verdict = "none" /\ count = 0

GraphInit ==
  children \in [Messages -> SUBSET Pointers] /\ wrapped \in SUBSET Messages /\ SearchInit

\* An error ends every active visit.
Refuse == verdict' = "error" /\ stack' = <<>> /\ UNCHANGED count

Enter(m, callers) ==
  /\ stack' = Append(callers, [msg |-> m, rest |-> children[m]])
  /\ count' = count + 1 /\ UNCHANGED verdict

\* A nil pointer, a message whose visit is active, one whose visit is over, and a
\* new one.
Visit(m, callers) ==
  /\ \/ m \in {NilMessage} \cup (seen \ done) /\ Refuse /\ UNCHANGED seen
     \/ m \in done /\ stack' = callers /\ UNCHANGED <<seen, verdict, count>>
     \/ /\ m \notin {NilMessage} \cup seen
        /\ seen' = seen \cup {m}
        /\ IF m \in wrapped THEN Refuse ELSE Enter(m, callers)
  /\ UNCHANGED <<children, wrapped, done>>

Begin == verdict = "none" /\ stack = <<>> /\ Visit(Root, <<>>)

VisitChild(c) ==
  /\ stack # <<>> /\ c \in stack[Len(stack)].rest
  /\ Visit(c, [stack EXCEPT ![Len(stack)].rest = @ \ {c}])

MutMarked(m) == done
Marked(m) == done \cup {m}

\* The innermost visit met no error.
Complete ==
  /\ stack # <<>> /\ stack[Len(stack)].rest = {}
  /\ done' = Marked(stack[Len(stack)].msg)
  /\ stack' = SubSeq(stack, 1, Len(stack) - 1)
  /\ verdict' = IF Len(stack) = 1 THEN "ok" ELSE "none"
  /\ UNCHANGED <<children, wrapped, seen, count>>

GraphNext == Begin \/ Complete \/ \E c \in Pointers : VisitChild(c)

GraphSpec == GraphInit /\ [][GraphNext]_gvars

-----------------------------------------------------------------------------
(* Properties *)

\* The pointers that any number of steps lead to from a set: its least superset
\* that holds the children of its messages.
Closed(T) == \A m \in T \ {NilMessage} : children[m] \subseteq T
Reach(S) == {p \in Pointers : \A T \in SUBSET Pointers : S \subseteq T /\ Closed(T) => p \in T}

\* No message reachable from the P4Info is nil, wraps nil or contains itself.
Sound ==
  LET reached == Reach({Root})
  IN  /\ NilMessage \notin reached /\ reached \cap wrapped = {}
      /\ \A m \in reached : m \notin Reach(children[m])

\* A P4Info is accepted exactly when it is sound, whatever the order in which its
\* fields are met; messages that are merely shared are no reason to refuse it,
\* and however many paths lead to one it is searched once.
GraphExact ==
  /\ verdict = "ok" => Sound
  /\ verdict = "error" => ~Sound
  /\ verdict # "none" => count <= Cardinality(Reach({Root}))
=============================================================================

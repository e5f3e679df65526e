----------------------------- MODULE TableEntry -----------------------------
(***************************************************************************)
(* The Builder of tableentry/builder.go: calls that collect the parts of a *)
(* table entry in any order, and Build and BuildKey, which check them      *)
(* against the table's definition.                                         *)
(*                                                                         *)
(* What encodeField does with one value is the MatchField module; here a   *)
(* match value is "ok" (it is encoded), "any" (it matches everything) or   *)
(* "bad" (it is refused). Likewise a parameter's bytes fit or they do not. *)
(* Metadata is copied to the entry unread and left out.                    *)
(***************************************************************************)
EXTENDS Integers, FiniteSets, Functions

CONSTANTS
  Fields,    \* names of the table's match fields
  FieldID,   \* their IDs
  Params,    \* names of the action's parameters, in P4Info order
  Unknown    \* a name the pipeline does not have

ASSUME EntryAssumption ==
  /\ IsFiniteSet(Fields) /\ FieldID \in [Fields -> Nat]
  /\ \A f, g \in Fields : FieldID[f] = FieldID[g] => f = g
  /\ Unknown \notin Fields \cup Range(Params) /\ IsInjective(Params)

MatchValues == {"ok", "any", "bad"}
ParamNames == Range(Params) \cup {Unknown}
Scopes == {"TABLE_AND_DEFAULT", "TABLE_ONLY", "DEFAULT_ONLY", "not on table"}
Flags == {"const table", "const default", "indirect", "idle timeout"}

VARIABLES
  types,      \* the kind of each match field
  scope,      \* how the table refers to the one action of the pipeline
  flags,      \* what else the table is
  matches,    \* b.matches
  action,     \* b.action: none, the pipeline's action or another
  params,     \* its parameters
  priority, timeout, isDefault  \* b.priority, b.timeout, b.isDefault

table == <<types, scope, flags>>
evars == <<table, matches, action, params, priority, timeout, isDefault>>

\* RANGE and OPTIONAL fields differ from TERNARY ones in encodeField only.
EntryInit ==
  /\ types \in [Fields -> {"EXACT", "LPM", "TERNARY"}]
  /\ scope \in Scopes /\ flags \in {{}} \cup {{x} : x \in Flags}
  /\ matches = <<>> /\ action = "none" /\ params = <<>>
  /\ priority = 0 /\ timeout = 0 /\ isDefault = FALSE

-----------------------------------------------------------------------------
(* The calls *)

Match(f, v) ==
  /\ matches' = [g \in DOMAIN matches \cup {f} |-> IF g = f THEN v ELSE matches[g]]
  /\ UNCHANGED <<table, action, params, priority, timeout, isDefault>>

\* Replaces the action and all its parameters.
Action(a, ps) ==
  /\ action' = a /\ params' = ps
  /\ UNCHANGED <<table, matches, priority, timeout, isDefault>>

Priority(p) ==
  priority' = p /\ UNCHANGED <<table, matches, action, params, timeout, isDefault>>

IdleTimeout(ns) ==
  timeout' = ns /\ UNCHANGED <<table, matches, action, params, priority, isDefault>>

AsDefault ==
  isDefault' = TRUE /\ UNCHANGED <<table, matches, action, params, priority, timeout>>

-----------------------------------------------------------------------------
(* Build and BuildKey *)

Refused == [ok |-> FALSE, default |-> FALSE, match |-> <<>>, priority |-> 0,
            timeout |-> 0, params |-> <<>>]

\* encodeField's verdict: a value that matches everything is not EXACT.
Encodes(f) == matches[f] = "ok" \/ (matches[f] = "any" /\ types[f] # "EXACT")

\* encodeMatches: EXACT fields are required, other fields may be left out,
\* unknown fields are refused.
MutMatchesValid ==
  \A f \in Fields \cap DOMAIN matches : Encodes(f)
MatchesValid ==
  /\ \A f \in Fields : IF f \in DOMAIN matches THEN Encodes(f) ELSE types[f] # "EXACT"
  /\ DOMAIN matches \subseteq Fields

\* The order of the match fields of an entry.
InIDOrder(s) == \A i, j \in DOMAIN s : i < j => FieldID[s[i]] < FieldID[s[j]]

\* The fields with a value that is encoded, in the order of their IDs.
Matched == {f \in Fields \cap DOMAIN matches : matches[f] = "ok"}
EncodedMatches == CHOOSE s \in [1..Cardinality(Matched) -> Matched] : InIDOrder(s)

NeedsPriority == \E f \in Fields : types[f] = "TERNARY"
PriorityValid == IF NeedsPriority THEN priority > 0 ELSE priority = 0

MutBuildKey ==
  IF MatchesValid /\ PriorityValid
  THEN [Refused EXCEPT !.ok = TRUE, !.match = EncodedMatches, !.priority = priority,
                       !.default = isDefault]
  ELSE Refused
BuildKey ==
  IF isDefault THEN [Refused EXCEPT !.ok = TRUE, !.default = TRUE]
  ELSE IF MatchesValid /\ PriorityValid
  THEN [Refused EXCEPT !.ok = TRUE, !.match = EncodedMatches, !.priority = priority]
  ELSE Refused

\* validateIdleTimeout.
TimeoutValid ==
  timeout = 0 \/ (timeout > 0 /\ ~isDefault /\ "idle timeout" \in flags)

\* encodeAction: what of the table may be written, whether the action may be
\* used for it, and exactly its parameters.
ActionValid ==
  /\ IF isDefault THEN "const default" \notin flags ELSE "const table" \notin flags
  /\ "indirect" \notin flags
  /\ action = "known"
  /\ \/ scope = "TABLE_AND_DEFAULT"
     \/ scope = "TABLE_ONLY" /\ ~isDefault
     \/ scope = "DEFAULT_ONLY" /\ isDefault
  /\ \A p \in Range(Params) : p \in DOMAIN params /\ params[p] = "ok"
  /\ DOMAIN params \subseteq Range(Params)

Build ==
  IF BuildKey.ok /\ TimeoutValid /\ action # "none" /\ ActionValid
  THEN [BuildKey EXCEPT !.timeout = timeout, !.params = [i \in DOMAIN Params |-> params[Params[i]]]]
  ELSE Refused

-----------------------------------------------------------------------------
ParamSets == UNION {[S -> {"ok", "bad"}] : S \in SUBSET ParamNames}

EntryNext ==
  \/ \E f \in Fields, v \in MatchValues : Match(f, v)
  \/ Match(Unknown, "ok")
  \/ \E ps \in ParamSets : Action("known", ps)
  \/ Action("unknown", <<>>)
  \/ \E p \in -1..1 : Priority(p)
  \/ \E ns \in -1..1 : IdleTimeout(ns)
  \/ AsDefault

EntrySpec == EntryInit /\ [][EntryNext]_evars

-----------------------------------------------------------------------------
(* Properties *)

MatchedFields(e) == {e.match[i] : i \in DOMAIN e.match}

\* What the P4Runtime specification asks of an entry's key and of an entry.
WellFormedKey(e) ==
  IF e.default
  THEN e.match = <<>> /\ e.priority = 0
  ELSE /\ {f \in Fields : types[f] = "EXACT"} \subseteq MatchedFields(e)
       /\ InIDOrder(e.match)
       /\ e.priority >= 0 /\ (e.priority > 0 <=> \E f \in Fields : types[f] = "TERNARY")

WellFormed(e) ==
  /\ WellFormedKey(e)
  /\ e.timeout >= 0 /\ (e.timeout > 0 => ~e.default /\ "idle timeout" \in flags)
  /\ e.default => scope # "TABLE_ONLY" /\ "const default" \notin flags
  /\ ~e.default => scope # "DEFAULT_ONLY" /\ "const table" \notin flags
  /\ scope # "not on table" /\ "indirect" \notin flags
  /\ DOMAIN e.params = DOMAIN Params /\ \A i \in DOMAIN e.params : e.params[i] = "ok"

\* Whatever calls were made on the builder, in whatever order, an entry it
\* builds is one the P4Runtime specification allows for the table, and so is a
\* key: in particular a default entry carries no key parts left from before.
BuiltWellFormed ==
  /\ Build.ok => WellFormed(Build)
  /\ BuildKey.ok => WellFormedKey(BuildKey)

\* The key of what Build inserts is what BuildKey deletes, and it names every
\* field the caller matched on, so that an entry built is never wider than asked.
KeyOfBuilt ==
  Build.ok =>
    /\ BuildKey = [Build EXCEPT !.timeout = 0, !.params = <<>>]
    /\ ~isDefault => MatchedFields(Build) = {f \in DOMAIN matches : matches[f] # "any"}
=============================================================================

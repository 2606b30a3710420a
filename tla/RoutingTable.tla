---------------------------- MODULE RoutingTable ----------------------------
(***************************************************************************)
(* The routing table of specialists.py: what a configuration file loads    *)
(* as, which files are refused, and which specialist a target resolves to. *)
(*                                                                         *)
(* A file is what load_routing_table can tell of it: there is none, it is  *)
(* not a document of the table's schema, or it holds a table.  A table is  *)
(* the kinds of the specialists it defines and the sequence of its routes. *)
(* A repository is a spelling of its name; Fold is str.casefold.           *)
(***************************************************************************)
EXTENDS Integers, Sequences

CONSTANTS
  Names,      \* the names a specialist may have
  Default,    \* DEFAULT_SPECIALIST
  Spellings,  \* the spellings of repository names
  NoOrigin,   \* repository_name of a workspace without an origin remote
  Fold        \* Fold[s]: the spelling s casefolded

ASSUME RoutingAssumption ==
  /\ Default \in Names
  /\ NoOrigin \notin Spellings
  /\ Fold \in [Spellings -> Spellings]

Kinds == {"builtin", "external"}
Route == [repository : Spellings, specialist : Names]

\* pydantic's RoutingTable, as far as routing goes.
Table == [kinds : UNION {[N -> Kinds] : N \in SUBSET Names}, routes : Seq(Route)]

\* The table an absent file yields, and an empty one: the built-in generator alone.
DefaultTable == [kinds |-> [n \in {Default} |-> "builtin"], routes |-> << >>]

Key(t, i) == Fold[t.routes[i].repository]

\* The loop's seen holds the key of an earlier route.
Repeated(t, i) == \E j \in 1..i - 1 : Key(t, j) = Key(t, i)

\* _check_referential_integrity does not raise.
CheckReferentialIntegrity(t) ==
  /\ Default \in DOMAIN t.kinds /\ t.kinds[Default] = "builtin"
  /\ \A i \in DOMAIN t.routes :
       /\ t.routes[i].specialist \in DOMAIN t.kinds
       /\ ~Repeated(t, i)

\* A file: its table, if it has one that the schema accepts.
Absent    == [doc |-> "absent", table |-> DefaultTable]
Malformed == [doc |-> "malformed", table |-> DefaultTable]
FileOf(t) == [doc |-> "table", table |-> t]
File      == {Absent, Malformed} \cup {FileOf(t) : t \in Table}

\* load_routing_table returns, and what.  It is called anew for every use.
Loads(file) == file.doc = "absent" \/ (file.doc = "table" /\ CheckReferentialIntegrity(file.table))
Loaded(file) == file.table

Matching(t, repository) ==
  {i \in DOMAIN t.routes : repository # NoOrigin /\ Key(t, i) = Fold[repository]}

\* resolve: the name of the first route's specialist, or the default's.
Resolve(t, repository) ==
  LET M == Matching(t, repository) IN
  IF M = {} THEN Default
  ELSE t.routes[CHOOSE i \in M : \A j \in M : i <= j].specialist

\* isinstance(resolution.specialist, ExternalSpecialist)
IsExternal(t, repository) == t.kinds[Resolve(t, repository)] = "external"
=============================================================================

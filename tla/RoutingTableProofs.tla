------------------------- MODULE RoutingTableProofs -------------------------
(***************************************************************************)
(* What the checks on a routing table buy: of a table that loads, every    *)
(* target resolves to a specialist it defines, whatever the order of the   *)
(* routes and the spelling of the target.                                  *)
(***************************************************************************)
EXTENDS RoutingTable, TLAPS

\* No repository is routed twice.
RoutedOnce(t) ==
  \A i, j \in DOMAIN t.routes : Key(t, i) = Key(t, j) => i = j

\* Two tables with the same specialists and the same routes, in some order.
SameRoutes(t, u) ==
  /\ t.kinds = u.kinds
  /\ \A i \in DOMAIN t.routes : \E j \in DOMAIN u.routes : t.routes[i] = u.routes[j]
  /\ \A j \in DOMAIN u.routes : \E i \in DOMAIN t.routes : t.routes[i] = u.routes[j]

\* The positions of a table's routes.
LEMMA Positions ==
  ASSUME NEW t \in Table
  PROVE  /\ t.routes \in Seq(Route) /\ DOMAIN t.routes = 1..Len(t.routes)
         /\ Len(t.routes) \in Nat /\ DOMAIN t.routes \subseteq Nat
         /\ \A i \in DOMAIN t.routes : t.routes[i] \in Route
<1>1. t.routes \in Seq(Route)
  BY DEF Table
<1>2. QED
  BY <1>1

\* The loop of _check_referential_integrity, which only looks back, refuses exactly
\* the tables the comment above it speaks of: an undefined specialist, a repository
\* routed twice, a default that is not the built-in generator.
THEOREM IntegrityIsWhatItSays ==
  ASSUME NEW t \in Table
  PROVE  CheckReferentialIntegrity(t) <=>
           /\ Default \in DOMAIN t.kinds /\ t.kinds[Default] = "builtin"
           /\ \A i \in DOMAIN t.routes : t.routes[i].specialist \in DOMAIN t.kinds
           /\ RoutedOnce(t)
<1>1. ASSUME NEW i \in DOMAIN t.routes
      PROVE  Repeated(t, i) <=> \E j \in DOMAIN t.routes : j < i /\ Key(t, j) = Key(t, i)
  <2>1. i \in 1..Len(t.routes) /\ Len(t.routes) \in Nat /\ DOMAIN t.routes = 1..Len(t.routes)
    BY Positions
  <2>2. \A j : j \in 1..i - 1 <=> j \in 1..Len(t.routes) /\ j < i
    BY <2>1, SMT
  <2>3. QED
    BY <2>1, <2>2 DEF Repeated
<1>2. RoutedOnce(t) <=> \A i \in DOMAIN t.routes : ~Repeated(t, i)
  <2>1. ASSUME RoutedOnce(t), NEW i \in DOMAIN t.routes, Repeated(t, i) PROVE FALSE
    <3>1. PICK j \in DOMAIN t.routes : j < i /\ Key(t, j) = Key(t, i)
      BY <1>1, <2>1
    <3>2. j = i
      BY <3>1, <2>1 DEF RoutedOnce
    <3>3. i \in Nat
      BY Positions
    <3>4. QED
      BY <3>1, <3>2, <3>3, SMT
  <2>2. ASSUME \A i \in DOMAIN t.routes : ~Repeated(t, i),
               NEW i \in DOMAIN t.routes, NEW j \in DOMAIN t.routes, Key(t, i) = Key(t, j)
        PROVE  i = j
    <3>1. i \in Nat /\ j \in Nat
      BY Positions
    <3>2. ~(i < j) /\ ~(j < i)
      BY <1>1, <2>2
    <3>3. QED
      BY <3>1, <3>2, SMT
  <2>3. QED
    BY <2>1, <2>2 DEF RoutedOnce
<1>3. QED
  BY <1>2 DEF CheckReferentialIntegrity

\* In a table that loads at most one route matches a target.
LEMMA OneMatch ==
  ASSUME NEW t \in Table, CheckReferentialIntegrity(t), NEW repository
  PROVE  \A i, j \in Matching(t, repository) : i = j
BY IntegrityIsWhatItSays DEF RoutedOnce, Matching

\* ... and it is the one resolve finds.
LEMMA ResolvedByItsMatch ==
  ASSUME NEW t \in Table, CheckReferentialIntegrity(t), NEW repository,
         NEW i \in Matching(t, repository)
  PROVE  Resolve(t, repository) = t.routes[i].specialist
<1>1. \A k \in Matching(t, repository) : k = i
  BY OneMatch
<1>2. i \in Nat
  BY Positions DEF Matching
<1>3. (CHOOSE k \in Matching(t, repository) : \A j \in Matching(t, repository) : k <= j) = i
  <2>1. \A j \in Matching(t, repository) : i <= j
    BY <1>1, <1>2, SMT
  <2>2. QED
    BY <1>1, <2>1
<1>4. QED
  BY <1>3 DEF Resolve

\* A table that loads resolves every target to a specialist it defines: the lookup
\* table.specialists[...] in resolve cannot fail.
THEOREM ResolvesToDefined ==
  ASSUME NEW t \in Table, CheckReferentialIntegrity(t), NEW repository
  PROVE  Resolve(t, repository) \in DOMAIN t.kinds
<1>1. CASE Matching(t, repository) = {}
  BY <1>1 DEF Resolve, CheckReferentialIntegrity
<1>2. CASE Matching(t, repository) # {}
  <2>1. PICK i \in Matching(t, repository) : TRUE
    BY <1>2
  <2>2. Resolve(t, repository) = t.routes[i].specialist
    BY <2>1, ResolvedByItsMatch
  <2>3. i \in DOMAIN t.routes
    BY <2>1 DEF Matching
  <2>4. QED
    BY <2>2, <2>3 DEF CheckReferentialIntegrity
<1>3. QED
  BY <1>1, <1>2

\* "... the other taking whichever entry happened to be listed first": of a table that
\* loads the order of the routes does not matter.  (specialists.resolve)
THEOREM ResolveIgnoresOrder ==
  ASSUME NEW t \in Table, NEW u \in Table, SameRoutes(t, u),
         CheckReferentialIntegrity(t), CheckReferentialIntegrity(u), NEW repository
  PROVE  Resolve(t, repository) = Resolve(u, repository)
<1>1. ASSUME NEW i \in Matching(t, repository)
      PROVE  \E j \in Matching(u, repository) : t.routes[i] = u.routes[j]
  BY DEF SameRoutes, Matching, Key
<1>2. ASSUME NEW j \in Matching(u, repository)
      PROVE  \E i \in Matching(t, repository) : t.routes[i] = u.routes[j]
  BY DEF SameRoutes, Matching, Key
<1>3. CASE Matching(t, repository) = {}
  <2>1. Matching(u, repository) = {}
    BY <1>2, <1>3
  <2>2. QED
    BY <1>3, <2>1 DEF Resolve
<1>4. CASE Matching(t, repository) # {}
  <2>1. PICK i \in Matching(t, repository) : TRUE
    BY <1>4
  <2>2. PICK j \in Matching(u, repository) : t.routes[i] = u.routes[j]
    BY <1>1
  <2>3. Resolve(t, repository) = t.routes[i].specialist
    BY ResolvedByItsMatch
  <2>4. Resolve(u, repository) = u.routes[j].specialist
    BY ResolvedByItsMatch
  <2>5. QED
    BY <2>2, <2>3, <2>4
<1>5. QED
  BY <1>3, <1>4

\* Two tables that an operator may have meant to be the same: the same specialists,
\* and the same routes in some order, each repository in some spelling of its name.
SameUpToSpelling(t, u) ==
  /\ t.kinds = u.kinds
  /\ \A i \in DOMAIN t.routes : \E j \in DOMAIN u.routes :
       Key(t, i) = Key(u, j) /\ t.routes[i].specialist = u.routes[j].specialist
  /\ \A j \in DOMAIN u.routes : \E i \in DOMAIN t.routes :
       Key(t, i) = Key(u, j) /\ t.routes[i].specialist = u.routes[j].specialist

\* Tables that load and differ in the spelling and the order of their routes resolve
\* every target alike, in whatever spelling its origin has.  It takes both folds, that
\* of resolve and that of _check_referential_integrity: a check on the names as they
\* are written would load a table that routes one repository twice, and the order
\* would decide.  (specialists.resolve, RoutingTable._check_referential_integrity)
THEOREM ResolveIgnoresSpelling ==
  ASSUME NEW t \in Table, NEW u \in Table, SameUpToSpelling(t, u),
         CheckReferentialIntegrity(t), CheckReferentialIntegrity(u),
         NEW r \in Spellings, NEW s \in Spellings, Fold[r] = Fold[s]
  PROVE  Resolve(t, r) = Resolve(u, s)
<1>0. r # NoOrigin /\ s # NoOrigin
  BY RoutingAssumption
<1>1. ASSUME NEW i \in Matching(t, r)
      PROVE  \E j \in Matching(u, s) : t.routes[i].specialist = u.routes[j].specialist
  BY <1>0 DEF SameUpToSpelling, Matching
<1>2. ASSUME NEW j \in Matching(u, s)
      PROVE  \E i \in Matching(t, r) : t.routes[i].specialist = u.routes[j].specialist
  BY <1>0 DEF SameUpToSpelling, Matching
<1>3. CASE Matching(t, r) = {}
  <2>1. Matching(u, s) = {}
    BY <1>2, <1>3
  <2>2. QED
    BY <1>3, <2>1 DEF Resolve
<1>4. CASE Matching(t, r) # {}
  <2>1. PICK i \in Matching(t, r) : TRUE
    BY <1>4
  <2>2. PICK j \in Matching(u, s) : t.routes[i].specialist = u.routes[j].specialist
    BY <1>1
  <2>3. Resolve(t, r) = t.routes[i].specialist
    BY ResolvedByItsMatch
  <2>4. Resolve(u, s) = u.routes[j].specialist
    BY ResolvedByItsMatch
  <2>5. QED
    BY <2>2, <2>3, <2>4
<1>5. QED
  BY <1>3, <1>4
=============================================================================

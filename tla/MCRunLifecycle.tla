--------------------------- MODULE MCRunLifecycle ---------------------------
(***************************************************************************)
(* Small instances of RunLifecycle: one run with two gates, reviewed at    *)
(* its plan and at its release, whose repository is spelt in two ways, and *)
(* the routing tables that may be in place.                                *)
(***************************************************************************)
EXTENDS RunLifecycle

CONSTANTS r1

MCNames == {"default", "porter", "modernizer"}
MCSpellings == {"Billing", "billing"}
MCFold == [s \in MCSpellings |-> "billing"]
MCOrigin == [r \in Runs |-> "billing"]

Specialists == [n \in MCNames |-> IF n = "default" THEN "builtin" ELSE "external"]
RoutesTo(name) ==
  FileOf([kinds |-> Specialists, routes |-> << [repository |-> "Billing", specialist |-> name] >>])

\* No table; the target routed to a specialist; a table that does not load because it
\* routes the target twice, spelt differently.
Twice == FileOf([kinds |-> Specialists,
                 routes |-> << [repository |-> "Billing", specialist |-> "porter"],
                               [repository |-> "billing", specialist |-> "modernizer"] >>])
AnyFile == {Absent, RoutesTo("porter"), Twice}

NoFile == {Absent}
PorterOnly == {RoutesTo("porter")}
=============================================================================

---------------------------- MODULE MCBatchSave ----------------------------
EXTENDS BatchSave, TLC

CONSTANTS person, employee, other, left, right, p1, e1, o1

\* An employee is a person kept in another store; the third object refers
\* to the employee.
MCClassOf == (p1 :> person) @@ (e1 :> employee) @@ (o1 :> other)
MCStoreOf == (person :> left) @@ (employee :> right) @@ (other :> left)
MCIsA     == (person :> {person}) @@ (employee :> {employee, person}) @@ (other :> {other})
MCRefers  == (p1 :> None) @@ (e1 :> None) @@ (o1 :> e1)
MCFilters == {{}, {person}, {other}}
=============================================================================

----------------------------- MODULE MCContexts -----------------------------
EXTENDS Contexts

CONSTANTS traitable, person, plain, firm, both

\* `plain` is a person without history, `both` a person and a firm.
MCMro ==
    [c \in Class |-> CASE c = traitable -> <<traitable>>
                       [] c \in {person, firm} -> <<c, traitable>>
                       [] c = plain -> <<plain, person, traitable>>
                       [] c = both  -> <<both, person, firm, traitable>>]
MCLists == {{traitable}, {person}, {firm, both}}
MCSymmetry == Permutations(Store) \cup Permutations(Time)
=============================================================================

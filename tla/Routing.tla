------------------------------ MODULE Routing ------------------------------
(***************************************************************************)
(* internal/core/routing_filter.go, routing_key.go and the filter helpers  *)
(* of exchange.go and queue.go.  A key or a filter is the sequence of its  *)
(* tokens, what strings.Split(s, ".") returns: never empty.  Words are the *)
(* tokens the regular expressions accept; any other token (an empty one,   *)
(* one with a character they do not list) makes the string invalid.        *)
(***************************************************************************)
EXTENDS Naturals, Sequences, FiniteSets, SequencesExt

CONSTANT Words           \* the tokens over [A-Za-z0-9_-]

Wildcard == "*"

ASSUME RoutingAssumption == Wildcard \notin Words

ValidKey(key) == key # << >> /\ Range(key) \subseteq Words

ValidFilter(filter) ==
    filter # << >> /\ Range(filter) \subseteq Words \cup {Wildcard}

\* Defect: the tokens that the filter has, and no look at the length.
MatchPrefix(filter, key) ==
    \A i \in DOMAIN filter \cap DOMAIN key :
        filter[i] = Wildcard \/ filter[i] = key[i]

Match(filter, key) ==
    /\ Len(filter) = Len(key)
    /\ \A i \in DOMAIN filter : filter[i] = Wildcard \/ filter[i] = key[i]

\* Defect: only the first filter of a queue is tried.
MatchFirstFilter(filters, key) == filters # << >> /\ Match(Head(filters), key)

MatchFilters(filters, key) == \E f \in Range(filters) : Match(f, key)

validFilters(filters) == \A f \in Range(filters) : ValidFilter(f)

\* Defect: only the numbers of filters are compared.
equalNumbers(a, b) == Len(a) = Len(b)

\* Every filter of a is one of b; that the converse holds is left to the
\* equal lengths.
equalFilters(a, b) == Len(a) = Len(b) /\ Range(a) \subseteq Range(b)
----------------------------------------------------------------------------
\* What a filter stands for: the keys that come from it when a word takes
\* the place of every wildcard.
Denotes(filter) ==
    { [i \in DOMAIN filter |-> IF filter[i] = Wildcard THEN word[i] ELSE filter[i]]
        : word \in [DOMAIN filter -> Words] }

DenotedByAny(filters) == UNION { Denotes(f) : f \in Range(filters) }
============================================================================

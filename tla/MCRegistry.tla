----------------------------- MODULE MCRegistry -----------------------------
EXTENDS Registry

Parameters(durable, autoDelete, filters) ==
    [ IsDurable |-> durable, IsAutoDelete |-> autoDelete, MaxAttempts |-> 0,
      Filters |-> filters ]

AnyUser == <<"users", "*">>
NewUser == <<"users", "new">>
Users   == <<"users">>

\* Every kind of queue, and the one the exchange refuses.
Kinds == { Parameters(TRUE, FALSE, <<AnyUser>>),
           Parameters(FALSE, TRUE, <<Users, NewUser>>),
           Parameters(TRUE, TRUE, <<NewUser>>) }

TwoFilters == { Parameters(TRUE, FALSE, <<AnyUser>>),
                Parameters(TRUE, FALSE, <<Users>>) }

\* The second repeats a filter, so the third passes for it.
Repeating == { Parameters(TRUE, FALSE, <<AnyUser>>),
               Parameters(TRUE, FALSE, <<Users, Users>>),
               Parameters(TRUE, FALSE, <<Users, NewUser>>),
               Parameters(FALSE, FALSE, <<NewUser>>) }

AutoDelete == { Parameters(FALSE, TRUE, <<AnyUser>>) }

KeyNewUser == { NewUser }

\* The second is no valid key.
GoodAndBadKey == { NewUser, AnyUser }

Symmetry == Permutations(Consumers) \cup Permutations(Calls)

NamesToo == Symmetry \cup Permutations(QueueNames)
=============================================================================

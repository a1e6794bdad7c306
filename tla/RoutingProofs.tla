--------------------------- MODULE RoutingProofs ---------------------------
(***************************************************************************)
(* What Match of routing_filter.go and equalFilters of exchange.go compute *)
(* for every set of words and lists, filters and keys of every length.     *)
(***************************************************************************)
EXTENDS Routing, FiniteSetTheorems, TLAPS

\* A valid filter matches a valid key exactly when the key comes from the
\* filter by putting one word in the place of each wildcard: RoutingFilter.Match
\* (routing_filter.go 16-35) accepts one token per "*", never none or two.
THEOREM MatchIsDenotation ==
    ASSUME NEW filter \in Seq(Words \cup {Wildcard}),
           NEW key \in Seq(Words)
    PROVE  Match(filter, key) <=> key \in Denotes(filter)
<1>1. ASSUME Match(filter, key)
      PROVE  key \in Denotes(filter)
  <2>1. DOMAIN filter = 1..Len(filter) /\ DOMAIN key = DOMAIN filter
    BY <1>1 DEF Match
  <2>2. key \in [DOMAIN filter -> Words]
    BY <2>1
  <2>3. key = [i \in DOMAIN filter |-> IF filter[i] = Wildcard THEN key[i] ELSE filter[i]]
    BY <1>1, <2>1, <2>2 DEF Match
  <2> QED
    BY <2>2, <2>3 DEF Denotes
<1>2. ASSUME key \in Denotes(filter)
      PROVE  Match(filter, key)
  <2>1. PICK word \in [DOMAIN filter -> Words] :
          key = [i \in DOMAIN filter |-> IF filter[i] = Wildcard THEN word[i] ELSE filter[i]]
    BY <1>2 DEF Denotes
  <2>2. DOMAIN key = DOMAIN filter
    BY <2>1
  <2>3. Len(filter) = Len(key)
    BY <2>2
  <2> QED
    BY <2>1, <2>3 DEF Match
<1> QED
  BY <1>1, <1>2

\* A queue takes a message exactly when one of its filters stands for the
\* message's key (Queue.MatchFilters, queue.go 181-188).
THEOREM MatchFiltersIsDenotation ==
    ASSUME NEW filters \in Seq(Seq(Words \cup {Wildcard})),
           NEW key \in Seq(Words)
    PROVE  MatchFilters(filters, key) <=> key \in DenotedByAny(filters)
<1>1. \A f \in Range(filters) : f \in Seq(Words \cup {Wildcard})
  BY DEF Range
<1>2. \A f \in Range(filters) : Match(f, key) <=> key \in Denotes(f)
  BY <1>1, MatchIsDenotation
<1> QED
  BY <1>2 DEF MatchFilters, DenotedByAny
----------------------------------------------------------------------------
\* A list has at most as many different elements as its length, and as many
\* when none is repeated.
LEMMA DifferentElements ==
    ASSUME NEW S, NEW s \in Seq(S)
    PROVE  /\ IsFiniteSet(Range(s))
           /\ Cardinality(Range(s)) \in Nat
           /\ Cardinality(Range(s)) <= Len(s)
           /\ IsInjective(s) => Cardinality(Range(s)) = Len(s)
<1>1. Len(s) \in Nat /\ DOMAIN s = 1..Len(s)
  OBVIOUS
<1>2. IsFiniteSet(DOMAIN s) /\ Cardinality(DOMAIN s) = Len(s)
  <2>1. IsFiniteSet(1..Len(s)) /\ Cardinality(1..Len(s)) = IF 1 > Len(s) THEN 0 ELSE Len(s) - 1 + 1
    BY <1>1, FS_Interval
  <2> QED
    BY <1>1, <2>1
<1>3. s \in Surjection(DOMAIN s, Range(s))
  BY DEF Surjection, Range
<1>4. /\ IsFiniteSet(Range(s))
      /\ Cardinality(Range(s)) <= Cardinality(DOMAIN s)
      /\ Cardinality(Range(s)) = Cardinality(DOMAIN s) <=> s \in Injection(DOMAIN s, Range(s))
  BY <1>2, <1>3, FS_Surjection
<1>5. IsInjective(s) => s \in Injection(DOMAIN s, Range(s))
  BY <1>3 DEF Injection, Surjection
<1> QED
  BY <1>2, <1>4, <1>5, FS_CardinalityType

\* When the registered list a repeats no filter, equalFilters answers whether
\* the request b is as long and holds the same filters, in any order (exchange.go
\* 220-239).  When a repeats one it does not: see RegisteredAsAsked.
THEOREM EqualFiltersExact ==
    ASSUME NEW S, NEW a \in Seq(S), NEW b \in Seq(S), IsInjective(a)
    PROVE  equalFilters(a, b) <=> Len(a) = Len(b) /\ Range(a) = Range(b)
<1>1. /\ Cardinality(Range(a)) = Len(a)
      /\ IsFiniteSet(Range(b)) /\ Cardinality(Range(b)) <= Len(b)
      /\ Cardinality(Range(b)) \in Nat /\ Len(a) \in Nat /\ Len(b) \in Nat
  BY DifferentElements
<1>2. ASSUME equalFilters(a, b)
      PROVE  Range(a) = Range(b)
  <2>1. Len(a) = Len(b) /\ Range(a) \in SUBSET Range(b)
    BY <1>2 DEF equalFilters
  <2>2. /\ Cardinality(Range(a)) <= Cardinality(Range(b))
        /\ Cardinality(Range(b)) = Cardinality(Range(a)) => Range(b) = Range(a)
    BY <1>1, <2>1, FS_Subset
  <2> QED
    BY <1>1, <2>1, <2>2
<1>3. ASSUME Len(a) = Len(b), Range(a) = Range(b)
      PROVE  equalFilters(a, b)
  BY <1>3 DEF equalFilters
<1> QED
  BY <1>2, <1>3 DEF equalFilters
============================================================================

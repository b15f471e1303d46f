---------------------------- MODULE SearchProofs ----------------------------
(***************************************************************************)
(* What every listing shows and what it leaves out, for every entity,      *)
(* table, and query with filters the entity takes: any other fails.        *)
(***************************************************************************)
EXTENDS Search, TLAPS, WellFoundedInduction

Entities == DOMAIN entitiesSearchableFields

(* Nothing that can be searched is also enforced: the keys of extraFilters in   *)
(* UsersService.getAll and InvitationsService.getInvitations.                   *)
Enforceable == {"role", "status"}

LEMMA SearchableIsNotEnforced ==
  ASSUME NEW entity \in Entities, NEW fields
  PROVE  SearchableFields(entity, fields) \cap Enforceable = {}
  BY DEF Entities, entitiesSearchableFields, SearchableFields, Enforceable

(* The handler's filters are all in the clause, each as narrow as it was or     *)
(* narrower.                                                                    *)
LEMMA ImposedStays ==
  ASSUME NEW entity, NEW filters, NEW enforced, NEW key \in DOMAIN enforced
  PROVE  /\ key \in DOMAIN FilterFields(entity, filters, enforced)
         /\ \A value : value \in FilterFields(entity, filters, enforced)[key]
                         => value \in enforced[key]
<1>. DEFINE imposed == Enforced(filters, enforced)
<1>1. DOMAIN imposed = DOMAIN enforced
  BY DEF Enforced
<1>2. \A value : value \in imposed[key] => value \in enforced[key]
  BY DEF Enforced
<1>3. /\ key \in DOMAIN FilterFields(entity, filters, enforced)
      /\ FilterFields(entity, filters, enforced)[key] = imposed[key]
  BY <1>1 DEF FilterFields
<1>. QED
  BY <1>2, <1>3

(* A listing that does not fail shows no row the handler's own filters exclude, *)
(* whatever filters, fields and term the caller gives: the reach of the caller  *)
(* and, for invitations, the status.                                            *)
THEOREM EnforcedAlwaysHolds ==
  ASSUME NEW entity \in Entities, NEW query, NEW rows, NEW enforced,
         TakesFilters(entity, query.filters),
         DOMAIN enforced \subseteq Enforceable,
         NEW row \in Listed(entity, query, enforced, rows)
  PROVE  row \in rows /\ \A key \in DOMAIN enforced : row[key] \in enforced[key]
<1>. DEFINE where == FilterFields(entity, query.filters, enforced)
            fields == SearchableFields(entity, query.fields)
<1>1. row \in rows
  BY DEF Listed
<1>2. SUFFICES ASSUME NEW key \in DOMAIN enforced
               PROVE  row[key] \in enforced[key]
  BY <1>1
<1>3. key \notin fields
  BY SearchableIsNotEnforced
<1>4. key \in DOMAIN where
  BY ImposedStays
<1>5. row[key] \in where[key]
  <2>1. CASE fields # {}
    <3>1. PICK field \in fields : Alternative(row, where, field, query.term)
      BY <2>1 DEF Listed
    <3>. QED
      BY <3>1, <1>3, <1>4 DEF Alternative
  <2>2. CASE fields = {}
    BY <2>2, <1>4 DEF Listed
  <2>. QED
    BY <2>1, <2>2
<1>. QED
  BY <1>5, ImposedStays

-----------------------------------------------------------------------------
(* Of several filters for one key, there is a first and a last one. *)

LEMMA LeastNatural ==
  ASSUME NEW S \in SUBSET Nat, S # {}
  PROVE  \E n \in S : \A k \in S : n <= k
<1>1. PICK n \in S : \A k \in S : ~ (<<k, n>> \in OpToRel(<, Nat))
  BY NatLessThanWellFounded, WFMin
<1>2. \A k \in S : k < n => <<k, n>> \in OpToRel(<, Nat)
  BY <1>1 DEF OpToRel
<1>3. \A k \in S : ~ (k < n)
  BY <1>1, <1>2, Zenon
<1>4. n \in Nat /\ \A k \in S : k \in Nat
  OBVIOUS
<1>. QED
  BY <1>3, <1>4

LEMMA GreatestPlace ==
  ASSUME NEW filters \in Filters,
         NEW S \in SUBSET DOMAIN filters, S # {}
  PROVE  \E n \in S : \A k \in S : k <= n
<1>. DEFINE back == {Len(filters) - k : k \in S}
<1>1. /\ Len(filters) \in Nat
      /\ \A k \in S : k \in 1..Len(filters)
  BY DEF Filters
<1>2. back \subseteq Nat /\ back # {}
  BY <1>1
<1>3. PICK m \in back : \A k \in back : m <= k
  BY <1>2, LeastNatural
<1>4. PICK n \in S : m = Len(filters) - n
  BY <1>3
<1>5. \A k \in S : Len(filters) - n <= Len(filters) - k
  BY <1>3, <1>4
<1>. QED
  BY <1>1, <1>5

LEMMA FirstOfKey ==
  ASSUME NEW query, query.filters \in Filters, Given(query.filters, "role") # {}
  PROVE  LET first == CHOOSE i \in DOMAIN query.filters : IsRolesFilter(query.filters, i)
         IN IsRolesFilter(query.filters, first)
<1>1. /\ Given(query.filters, "role") \subseteq DOMAIN query.filters
      /\ DOMAIN query.filters \subseteq Nat
  BY DEF Given, Filters
<1>2. PICK i \in Given(query.filters, "role") : \A j \in Given(query.filters, "role") : i <= j
  BY <1>1, LeastNatural
<1>3. i \in DOMAIN query.filters /\ IsRolesFilter(query.filters, i)
  BY <1>1, <1>2 DEF IsRolesFilter
<1>. QED
  BY <1>3

LEMMA LastOfKey ==
  ASSUME NEW query, query.filters \in Filters, NEW key, Given(query.filters, key) # {}
  PROVE  LET last == CHOOSE i \in Given(query.filters, key) : IsLast(query.filters, i)
         IN last \in Given(query.filters, key) /\ IsLast(query.filters, last)
<1>1. /\ Given(query.filters, key) \subseteq DOMAIN query.filters
      /\ query.filters \in Filters
  BY DEF Given
<1>2. PICK i \in Given(query.filters, key) : \A j \in Given(query.filters, key) : j <= i
  BY <1>1, GreatestPlace
<1>3. query.filters[i].key = key
  BY <1>2 DEF Given
<1>4. IsLast(query.filters, i)
  BY <1>2, <1>3 DEF IsLast
<1>. QED
  BY <1>2, <1>4

-----------------------------------------------------------------------------
(* A filter for roles narrows the roles the handler enforces: what is listed    *)
(* has a role of the first such filter that is also within the caller's reach.  *)
THEOREM RolesAreIntersected ==
  ASSUME NEW entity \in Entities, NEW query, NEW rows, NEW enforced,
         query.filters \in Filters, TakesFilters(entity, query.filters),
         DOMAIN enforced \subseteq Enforceable, "role" \in DOMAIN enforced,
         NEW first, IsRolesFilter(query.filters, first),
         NEW row \in Listed(entity, query, enforced, rows)
  PROVE  row["role"] \in query.filters[first].values \cap enforced["role"]
<1>. DEFINE where == FilterFields(entity, query.filters, enforced)
            fields == SearchableFields(entity, query.fields)
            chosen == CHOOSE i \in DOMAIN query.filters : IsRolesFilter(query.filters, i)
<1>1. IsRolesFilter(query.filters, chosen)
  BY FirstOfKey DEF IsRolesFilter
<1>2. chosen = first
  <2>1. chosen \in Nat /\ first \in Nat
    BY <1>1 DEF IsRolesFilter, Given, Filters
  <2>2. chosen <= first /\ first <= chosen
    BY <1>1 DEF IsRolesFilter
  <2>. HIDE DEF chosen
  <2>. QED
    BY <2>1, <2>2
<1>3. "role" \in DOMAIN where /\ where["role"] = query.filters[first].values \cap enforced["role"]
  <2>1. /\ "role" \in DOMAIN Enforced(query.filters, enforced)
        /\ Enforced(query.filters, enforced)["role"]
             = query.filters[chosen].values \cap enforced["role"]
    BY <1>1 DEF Enforced, IsRolesFilter
  <2>. QED
    BY <2>1, <1>2 DEF FilterFields
<1>4. "role" \notin fields
  BY SearchableIsNotEnforced DEF Enforceable
<1>5. row["role"] \in where["role"]
  <2>1. CASE fields # {}
    <3>1. PICK field \in fields : Alternative(row, where, field, query.term)
      BY <2>1 DEF Listed
    <3>. QED
      BY <3>1, <1>3, <1>4 DEF Alternative
  <2>2. CASE fields = {}
    BY <2>2, <1>3 DEF Listed
  <2>. QED
    BY <2>1, <2>2
<1>. QED
  BY <1>3, <1>5

(* The reference definition: all that a caller may see and asked for. *)
Wanted(entity, query, enforced, row) ==
  /\ \A key \in DOMAIN enforced : row[key] \in enforced[key]
  /\ \A i \in DOMAIN query.filters : row[query.filters[i].key] \in query.filters[i].values
  /\ \E field \in SearchableFields(entity, query.fields) : row[field] \in query.term

(* Nothing is left out of a listing that does not fail: a row the caller may    *)
(* see, which satisfies every filter the caller gives and has the term in a     *)
(* field that is searched, is listed.                                           *)
THEOREM WantedIsListed ==
  ASSUME NEW entity \in Entities, NEW query, NEW rows, NEW enforced,
         query.filters \in Filters, TakesFilters(entity, query.filters),
         DOMAIN enforced \subseteq Enforceable,
         NEW row \in rows, Wanted(entity, query, enforced, row)
  PROVE  row \in Listed(entity, query, enforced, rows)
<1>. DEFINE where == FilterFields(entity, query.filters, enforced)
            imposed == Enforced(query.filters, enforced)
            asked == FilterableFields(entity, query.filters)
<1>1. PICK field \in SearchableFields(entity, query.fields) : row[field] \in query.term
  BY DEF Wanted
<1>2. \A key \in DOMAIN imposed : row[key] \in imposed[key]
  <2>. TAKE key \in DOMAIN imposed
  <2>1. key \in DOMAIN enforced
    BY DEF Enforced
  <2>2. CASE key = "role" /\ Given(query.filters, "role") # {}
    <3>. DEFINE first == CHOOSE i \in DOMAIN query.filters : IsRolesFilter(query.filters, i)
    <3>1. IsRolesFilter(query.filters, first)
      BY <2>2, FirstOfKey
    <3>2. first \in DOMAIN query.filters /\ query.filters[first].key = "role"
      BY <3>1 DEF IsRolesFilter, Given
    <3>3. row["role"] \in query.filters[first].values
      BY <3>2 DEF Wanted
    <3>4. imposed["role"] = query.filters[first].values \cap enforced["role"]
      BY <2>1, <2>2 DEF Enforced
    <3>. QED
      BY <2>1, <2>2, <3>3, <3>4 DEF Wanted
  <2>3. CASE ~ (key = "role" /\ Given(query.filters, "role") # {})
    <3>1. imposed[key] = enforced[key]
      BY <2>1, <2>3 DEF Enforced
    <3>. QED
      BY <2>1, <3>1 DEF Wanted
  <2>. QED
    BY <2>2, <2>3
<1>3. \A key \in DOMAIN asked : row[key] \in asked[key]
  <2>. TAKE key \in DOMAIN asked
  <2>. DEFINE last == CHOOSE i \in Given(query.filters, key) : IsLast(query.filters, i)
  <2>1. Given(query.filters, key) # {}
    BY DEF FilterableFields, Given
  <2>2. last \in DOMAIN query.filters /\ query.filters[last].key = key
    BY <2>1, LastOfKey DEF Given
  <2>3. asked[key] = query.filters[last].values
    BY DEF FilterableFields
  <2>. HIDE DEF last
  <2>. QED
    BY <2>2, <2>3 DEF Wanted
<1>4. \A key \in DOMAIN where : row[key] \in where[key]
  BY <1>2, <1>3 DEF FilterFields
<1>5. Alternative(row, where, field, query.term)
  BY <1>1, <1>4 DEF Alternative
<1>. QED
  BY <1>1, <1>5 DEF Listed
=============================================================================

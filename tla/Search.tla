------------------------------- MODULE Search -------------------------------
(***************************************************************************)
(* The where clause of a listing.  A filter is a key with the values it    *)
(* allows (In(values); Not(x) allows all others), a search term is the set *)
(* of the texts that contain it, and a row is a function from its columns. *)
(*                                                                         *)
(* What a caller gives: filters, a sequence of [key, values]; fields, the  *)
(* names of the columns to search; term.  What the handler enforces: a     *)
(* function from columns to the values allowed there.                      *)
(***************************************************************************)
EXTENDS Naturals, Sequences

entitiesFilterFields ==
  [User |-> {"createdAt", "status", "role"}, Invitation |-> {"createdAt", "status", "role"}]

entitiesSearchableFields ==
  [User |-> {"email", "username"}, Invitation |-> {"email"},
   Country |-> {"nameAr", "nameEn", "code", "nicCode"}]

(* The filters a caller can give, in the order of the query string. *)
Filters == Seq([key : STRING, values : SUBSET STRING])

(* An entity without filterable fields takes no filter: getFilterableFields     *)
(* reads includes of undefined at the first one, and the listing fails.  What   *)
(* follows speaks of listings that do not fail.                                 *)
TakesFilters(entity, filters) == filters = <<>> \/ entity \in DOMAIN entitiesFilterFields

-----------------------------------------------------------------------------
Given(filters, key) == {i \in DOMAIN filters : filters[i].key = key}

(* filters.find: the first filter for roles, whatever follows. *)
IsRolesFilter(filters, i) == i \in Given(filters, "role") /\ \A j \in Given(filters, "role") : i <= j

(* extractPermittedRoles: the first filter for roles narrows the enforced one. *)
Enforced(filters, enforced) ==
  [key \in DOMAIN enforced |->
     IF key = "role" /\ Given(filters, "role") # {}
       THEN filters[CHOOSE i \in DOMAIN filters : IsRolesFilter(filters, i)].values
              \cap enforced["role"]
       ELSE enforced[key]]

(* getFilterableFields, of filters the entity takes: of two for one key the     *)
(* last one stays.                                                              *)
IsFilterable(entity, filters, i) == filters[i].key \in entitiesFilterFields[entity]
IsLast(filters, i) == \A j \in Given(filters, filters[i].key) : j <= i
FilterableFields(entity, filters) ==
  [key \in {filters[i].key : i \in {j \in DOMAIN filters : IsFilterable(entity, filters, j)}} |->
     filters[CHOOSE i \in Given(filters, key) : IsLast(filters, i)].values]

(* Fault: what the caller gives overrides what the handler enforces. *)
FaultyFilterFields(entity, filters, enforced) ==
  LET asked == FilterableFields(entity, filters)
      imposed == Enforced(filters, enforced)
  IN [key \in DOMAIN asked \cup DOMAIN imposed |->
        IF key \in DOMAIN asked THEN asked[key] ELSE imposed[key]]

(* What the handler enforces overrides what the caller gives. *)
FilterFields(entity, filters, enforced) ==
  LET asked == FilterableFields(entity, filters)
      imposed == Enforced(filters, enforced)
  IN [key \in DOMAIN asked \cup DOMAIN imposed |->
        IF key \in DOMAIN imposed THEN imposed[key] ELSE asked[key]]

(* Fields that are given but cannot be searched leave nothing to search. *)
SearchableFields(entity, fields) ==
  IF fields # {} THEN fields \cap entitiesSearchableFields[entity]
                 ELSE entitiesSearchableFields[entity]

(* One alternative of the clause: the term replaces a filter of the same key. *)
Alternative(row, where, field, term) ==
  /\ \A key \in DOMAIN where \ {field} : row[key] \in where[key]
  /\ row[field] \in term

(* What a listing shows that does not fail. *)
Listed(entity, query, enforced, rows) ==
  LET where == FilterFields(entity, query.filters, enforced)
      fields == SearchableFields(entity, query.fields)
  IN {row \in rows :
        IF fields # {} THEN \E field \in fields : Alternative(row, where, field, query.term)
                       ELSE \A key \in DOMAIN where : row[key] \in where[key]}
=============================================================================

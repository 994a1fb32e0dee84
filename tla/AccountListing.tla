--------------------------- MODULE AccountListing ---------------------------
(***************************************************************************)
(* The columns of the account directory, the order a query lists accounts    *)
(* in, and the condition a cursor adds (crates/identity-core/directory.rs    *)
(* and crates/identity-postgres/account_directory.rs).                      *)
(*                                                                         *)
(* Abstractions.  A value is a number in the order the column sorts in,      *)
(* `Null` is SQL's.  email is displayName over again and is left out.       *)
(***************************************************************************)
EXTENDS Integers, FiniteSets, Sequences

CONSTANT Null  \* SQL NULL

ASSUME NullAssumption == Null \notin Int

-----------------------------------------------------------------------------
(***************************************************************************)
(* Fields.                                                                 *)
(***************************************************************************)
ProfileFields == {"displayName", "profileStatus"}
DepartmentFields == {"departmentStatus", "department", "departmentSubtree"}
BooleanFields == {"enabled", "memberActive", "hasLocalPassword"}
Sortable ==
  {"principalId", "login", "departmentStatus"} \cup ProfileFields \cup BooleanFields
Fields == Sortable \cup DepartmentFields

(* A status sorts as a text, with collation "C". *)
Collation ==
  <<"available", "claim_missing", "expired", "invalid_claim", "missing", "not_configured",
    "not_yet_valid", "unavailable">>
Text(status) == CHOOSE i \in 1 .. Len(Collation) : Collation[i] = status
Bool(b) == IF b THEN 1 ELSE 0

-----------------------------------------------------------------------------
(***************************************************************************)
(* What AccountQuery::parse makes of the fields to sort by, and which        *)
(* relations a parsed query needs.                                          *)
(***************************************************************************)
ById == [ field |-> "principalId", descending |-> FALSE ]

Ordering(sort) ==
  IF \E i \in 1 .. Len(sort) : sort[i].field = "principalId" THEN sort ELSE Append(sort, ById)

needs_profiles(query) == query.used \cap ProfileFields # {}
needs_departments(query) == query.used \cap DepartmentFields # {}

-----------------------------------------------------------------------------
(***************************************************************************)
(* The order of the rows, each of which gives every sortable field a value   *)
(* or Null.                                                                 *)
(***************************************************************************)
Precedes(a, b, descending) == IF descending THEN b < a ELSE a < b

(* ORDER BY ... NULLS LAST, in either direction. *)
Before(r, s, sort) ==
  \E i \in 1 .. Len(sort) :
    LET f == sort[i].field IN
    /\ \A j \in 1 .. i - 1 : r[sort[j].field] = s[sort[j].field]
    /\ r[f] # Null
    /\ s[f] # Null => Precedes(r[f], s[f], sort[i].descending)
    /\ r[f] # s[f]

(* after: the condition of a cursor at `position`. *)
after(row, position, sort) ==
  \E i \in 1 .. Len(sort) :
    LET f == sort[i].field IN
    /\ \A j \in 1 .. i - 1 : row[sort[j].field] = position[j]
    /\ position[i] # Null
    /\ row[f] # Null => Precedes(position[i], row[f], sort[i].descending)

(* The rows in the order of the query. *)
Sorted(rows, sort) ==
  [ i \in 1 .. Cardinality(rows) |->
      CHOOSE r \in rows : Cardinality({ s \in rows : Before(s, r, sort) }) = i - 1 ]
=============================================================================

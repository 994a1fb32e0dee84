----------------------------- MODULE MCDirectory -----------------------------
(* An instance of Directory for TLC, and the filters its parser is given. *)
EXTENDS Directory, AccountQuery

(* Two local accounts and one from the identity provider. *)
TwoLogins == (1 :> 2) @@ (2 :> 1) @@ (3 :> Null)

Asc(field) == [ field |-> field, descending |-> FALSE ]
Desc(field) == [ field |-> field, descending |-> TRUE ]
Where(field, operator, operands) ==
  Comparison([ field |-> field, operator |-> operator, values |-> operands ])

(* By login, with accounts that have none; by display name and department,   *)
(* which begin and end with the clock; one that names no source.            *)
AllOf(parts) == Composite("and", parts)
AnyOf(parts) == Composite("or", parts)
Named == Where("displayName", "=isnotnull=", {})
HasLogin == Where("login", "=isnotnull=", {})

FewRequests ==
  { [ wanted |-> Anyone, sort |-> <<Desc("login")>>, fields |-> {"login"}, source |-> FALSE,
      limit |-> 1 ],
    [ wanted |-> AllOf(<<Where("enabled", "==", {1}), AnyOf(<<Named, HasLogin>>)>>),
      sort |-> <<Asc("displayName")>>, fields |-> {"principalId"}, source |-> TRUE, limit |-> 1 ],
    [ wanted |-> AnyOf(<<Where("departmentSubtree", "==", {1}),
                       AllOf(<<HasLogin, Where("departmentStatus", "=out=",
                                             {Text("not_yet_valid"), Text("invalid_claim")})>>)>>),
      sort |-> <<Asc("departmentStatus")>>, fields |-> {"principalId"}, source |-> TRUE,
      limit |-> 1 ],
    [ wanted |-> Anyone, sort |-> <<Asc("displayName")>>, fields |-> {"login"}, source |-> FALSE,
      limit |-> 1 ] }

(* Parsed once for the whole run. *)
Understood == Queries(FewRequests)
FewQueries == Understood

(* Department 2 is below 1; a cycle is no tree. *)
Tree == [ kind |-> "snapshot",
          snapshot |-> [ parent |-> (1 :> Null) @@ (2 :> 1), memberships |-> {2} ] ]
Cycle == [ kind |-> "snapshot",
           snapshot |-> [ parent |-> (1 :> 2) @@ (2 :> 1) @@ (3 :> Null), memberships |-> {1} ] ]
FewClaims == { Tree, Cycle }

(* A reader of everything, and one of its own profile. *)
TwoPermissions == { [ logins |-> TRUE, profiles |-> "all" ],
                    [ logins |-> FALSE, profiles |-> "self_only" ] }
ShortPolicy == [ idle |-> 2, absolute |-> 3 ]

-----------------------------------------------------------------------------
(* Expressions of up to three levels over two conditions. *)
Atoms == { Where("enabled", "==", {1}), Where("login", "=lt=", {2}) }
Over(parts, most) ==
  { Composite(op, parts2) : op \in {"and", "or"},
                            parts2 \in UNION { [ 1 .. n -> parts ] : n \in 2 .. most } }
Flat == Atoms \cup Over(Atoms, 3)
Trees == Flat \cup Over(Flat, 2) \cup { Composite("or", <<a, Composite("and", <<b, c>>)>>) :
                                           a \in Atoms, b \in Atoms, c \in Over(Over(Atoms, 2), 2) }

(* A filter means what its text says: an expression of AND and OR, written   *)
(* with the fewest parentheses the documented precedence allows, is parsed   *)
(* back as itself, and is refused exactly when it nests or counts too much.  *)
ASSUME QueriesReadAsWritten ==
  \A e \in Trees :
    LET p == parse_filter(Written(e, 0)) IN
    IF Size(e) <= MaxNodes /\ Nesting(e, 0) <= MaxDepth THEN p.ok /\ p.tree = e ELSE ~p.ok
=============================================================================

---------------------------- MODULE AccountQuery ----------------------------
(***************************************************************************)
(* The language of the account directory: the filter grammar and its parser *)
(* (crates/identity-core/src/directory.rs), and what a parsed filter selects *)
(* (crates/identity-postgres/src/account_directory.rs).                     *)
(*                                                                         *)
(* Abstractions.  A comparison is one token: reading its field, operator    *)
(* and quoted operands, and the limits on their lengths and number, are     *)
(* left out.  "=icontains=" stands with the set of texts that contain its   *)
(* operand.                                                                 *)
(***************************************************************************)
EXTENDS AccountListing, SequencesExt

CONSTANTS
  MaxDepth,   \* parentheses inside one another a filter may have
  MaxNodes    \* conditions and connectives a filter may have

ASSUME AccountQueryAssumption == MaxDepth \in Nat /\ MaxNodes \in Nat

-----------------------------------------------------------------------------
Operators ==
  {"==", "!=", "=lt=", "=le=", "=gt=", "=ge=", "=icontains=", "=in=", "=out=", "=isnull=",
   "=isnotnull="}

(* The checks on one comparison: departments are only asked for membership,  *)
(* booleans only for equality.  A null test has the operand true, that is    *)
(* none of its own.                                                          *)
Comparable(c) ==
  /\ c.field \in Fields /\ c.operator \in Operators
  /\ c.field \notin Sortable => c.operator = "=="
  /\ c.field \in BooleanFields => c.operator \in {"==", "!="} /\ c.values \subseteq {0, 1}
  /\ c.operator \in {"=isnull=", "=isnotnull="} <=> c.values = {}

-----------------------------------------------------------------------------
(***************************************************************************)
(* The parser, a descent by precedence: "," at 0, ";" at 1, a group or a    *)
(* comparison at 2.  A parse is where the descent stands, with the tree it   *)
(* returned; it keeps the parser's count of nodes.                          *)
(***************************************************************************)
Comparison(c) == [ kind |-> "compare", compare |-> c ]
Mark(m) == [ kind |-> m ]
Composite(op, items) == [ kind |-> op, items |-> items ]

InvalidQuery == [ ok |-> FALSE ]
Parse(offset, nodes, tree) ==
  [ ok |-> TRUE, offset |-> offset, nodes |-> nodes, tree |-> tree ]

(* The token at the parser's offset is this one (eat). *)
At(raw, p, kind) == p.ok /\ p.offset <= Len(raw) /\ raw[p.offset].kind = kind

Separator(precedence) == IF precedence = 0 THEN "," ELSE ";"
Connective(precedence) == IF precedence = 0 THEN "or" ELSE "and"

RECURSIVE expression(_, _, _, _), items(_, _, _, _, _)

(* Parser::expression from parse p on. *)
expression(raw, p, precedence, depth) ==
  LET first == expression(raw, p, precedence + 1, depth)
      inner == expression(raw, [p EXCEPT !.offset = @ + 1], 0, depth + 1)
  IN CASE depth > MaxDepth -> InvalidQuery
       [] depth <= MaxDepth /\ precedence < 2 ->
            IF ~At(raw, first, Separator(precedence)) THEN first
            ELSE IF first.nodes = MaxNodes THEN InvalidQuery
            ELSE items(raw, [first EXCEPT !.nodes = @ + 1], <<first.tree>>, precedence, depth)
       [] depth <= MaxDepth /\ precedence = 2 /\ At(raw, p, "(") ->
            IF At(raw, inner, ")") THEN [inner EXCEPT !.offset = @ + 1] ELSE InvalidQuery
       [] OTHER ->
            IF /\ p.nodes < MaxNodes
               /\ At(raw, p, "compare")
               /\ Comparable(raw[p.offset].compare)
            THEN Parse(p.offset + 1, p.nodes + 1, raw[p.offset]) ELSE InvalidQuery

(* The loop over the operands of one connective, at its separator. *)
items(raw, p, read, precedence, depth) ==
  LET next == expression(raw, [p EXCEPT !.offset = @ + 1], precedence + 1, depth) IN
  IF ~next.ok THEN InvalidQuery
  ELSE IF At(raw, next, Separator(precedence))
  THEN items(raw, next, Append(read, next.tree), precedence, depth)
  ELSE [next EXCEPT !.tree = Composite(Connective(precedence), Append(read, next.tree))]

(* parse_filter: the whole text is one expression. *)
parse_filter(raw) ==
  LET p == expression(raw, Parse(1, 0, Null), 0, 0) IN
  IF raw # << >> /\ p.ok /\ p.offset = Len(raw) + 1 THEN p ELSE InvalidQuery

RECURSIVE FieldsOf(_)
FieldsOf(e) ==
  IF e.kind = "compare" THEN {e.compare.field}
  ELSE IF e.kind = "anyone" THEN {}
  ELSE UNION { FieldsOf(e.items[i]) : i \in 1 .. Len(e.items) }

-----------------------------------------------------------------------------
(***************************************************************************)
(* The grammar the documentation of AccountQuery::parse gives: the text of   *)
(* an expression, and the size the limits are about.                        *)
(***************************************************************************)
RECURSIVE Written(_, _), Size(_), Nesting(_, _)

Level(op) == IF op = "or" THEN 0 ELSE 1
Sign(op) == IF op = "or" THEN "," ELSE ";"

(* e as an operand of a connective that binds at `level`. *)
Written(e, level) ==
  IF e.kind = "compare" THEN <<e>>
  ELSE LET parts == [ i \in 1 .. Len(e.items) |->
                        IF i = 1 THEN Written(e.items[i], Level(e.kind) + 1)
                        ELSE <<Mark(Sign(e.kind))>>
                               \o Written(e.items[i], Level(e.kind) + 1) ]
           text == FlattenSeq(parts)
       IN IF Level(e.kind) < level THEN <<Mark("(")>> \o text \o <<Mark(")")>> ELSE text

Size(e) ==
  IF e.kind = "compare" THEN 1
  ELSE 1 + FoldSeq(+, 0, [ i \in 1 .. Len(e.items) |-> Size(e.items[i]) ])

Nesting(e, level) ==
  IF e.kind = "compare" THEN 0
  ELSE LET below == { Nesting(e.items[i], Level(e.kind) + 1) : i \in 1 .. Len(e.items) }
       IN (CHOOSE d \in below : \A x \in below : x <= d)
            + (IF Level(e.kind) < level THEN 1 ELSE 0)
-----------------------------------------------------------------------------
(***************************************************************************)
(* AccountQuery::parse.  A client has an expression of what it wants, or     *)
(* wants Anyone, and sends its text, with the fields to sort by, the fields  *)
(* to show, whether it names an identity provider as its source, and the    *)
(* size of a page.                                                          *)
(***************************************************************************)
Anyone == [ kind |-> "anyone" ]

Reads(request) == parse_filter(Written(request.wanted, 0))

Wanted(request) == IF request.wanted = Anyone THEN Anyone ELSE Reads(request).tree

UsedFields(request) ==
  request.fields \cup FieldsOf(Wanted(request))
    \cup { Ordering(request.sort)[i].field : i \in 1 .. Len(Ordering(request.sort)) }

Query(request) ==
  [ filter |-> Wanted(request), sort |-> Ordering(request.sort), used |-> UsedFields(request),
    source |-> request.source, limit |-> request.limit ]

Accepted(request) ==
  /\ request.limit >= 1
  /\ request.wanted # Anyone => Reads(request).ok
  /\ request.fields \subseteq Sortable
  /\ \A i, j \in 1 .. Len(request.sort) :
       /\ request.sort[i].field \in Sortable
       /\ request.sort[i].field = request.sort[j].field => i = j
  /\ LET query == Query(request) IN
     needs_profiles(query) \/ needs_departments(query) => query.source

(* The requests that are accepted, with their queries. *)
Queries(requests) == [ request \in { r \in requests : Accepted(r) } |-> Query(request) ]

-----------------------------------------------------------------------------
(***************************************************************************)
(* The SQL a filter becomes.  A row gives every sortable field a value or    *)
(* Null, and its account's departments and their ancestors.                 *)
(***************************************************************************)
Compares(row, c) ==
  LET v == row[c.field] IN
  CASE c.field = "department" ->
         row.departmentStatus = Text("available") /\ c.values \cap row.memberships # {}
    [] c.field = "departmentSubtree" ->
         row.departmentStatus = Text("available") /\ c.values \cap row.ancestors # {}
    [] c.operator = "=isnull=" -> v = Null
    [] c.operator = "=isnotnull=" -> v # Null
    [] c.operator \in {"==", "=in=", "=icontains="} -> v # Null /\ v \in c.values
    [] c.operator \in {"!=", "=out="} -> v # Null /\ v \notin c.values
    [] c.operator = "=lt=" -> v # Null /\ \E x \in c.values : v < x
    [] c.operator = "=le=" -> v # Null /\ \E x \in c.values : v <= x
    [] c.operator = "=gt=" -> v # Null /\ \E x \in c.values : v > x
    [] c.operator = "=ge=" -> v # Null /\ \E x \in c.values : v >= x

RECURSIVE filter(_, _)
filter(row, e) ==
  CASE e.kind = "anyone" -> TRUE
    [] e.kind = "compare" -> Compares(row, e.compare)
    [] e.kind = "and" -> \A i \in 1 .. Len(e.items) : filter(row, e.items[i])
    [] e.kind = "or" -> \E i \in 1 .. Len(e.items) : filter(row, e.items[i])

=============================================================================

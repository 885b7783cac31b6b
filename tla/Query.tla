------------------------------- MODULE Query -------------------------------
(***************************************************************************)
(* Queries of the data access layer: filter trees, ordering and paging,    *)
(* what each driver's converter makes of them, and what they ask for.      *)
(* An object is a function of field names; "id" is its primary key.        *)
(***************************************************************************)
EXTENDS Integers, Sequences, FiniteSets, Functions

CONSTANTS
  Filters,      \* filter trees, closed under operands:
                \*   [type |-> "compare", field, op, value]
                \*   [type |-> "and" or "or", operands |-> two filters or more],
                \*   as And() and Or() make them: they refuse to take fewer
  Bad,          \* a value that no field converts to its native type
  Contained,    \* pairs <<s, t>> of values, t having s as a substring
  DefaultSize,  \* what an Elasticsearch search returns at most by default
  None

\* ComparisonOperation: the operators, on a field and a value.
Holds(op, left, right) ==
  CASE op = "="  -> left = right
    [] op = "!=" -> left # right
    [] op = "<"  -> left < right
    [] op = "<=" -> left <= right
    [] op = ">"  -> left > right
    [] op = ">=" -> left >= right
    [] op = "like" -> <<right, left>> \in Contained

\* The meaning of a filter built with And(), Or() and Compare(): a comparison
\* relates the field, on the left, to the value, on the right.
Means(f, object) ==
  LET holds[g \in Filters] ==
        CASE g.type = "and" -> \A k \in DOMAIN g.operands : holds[g.operands[k]]
          [] g.type = "or"  -> \E k \in DOMAIN g.operands : holds[g.operands[k]]
          [] g.type = "compare" -> Holds(g.op, object[g.field], g.value)
  IN f = None \/ holds[f]

-----------------------------------------------------------------------------
(* The converters of the drivers.                                          *)

\* Every operator but LIKE is applied to the target first, the field second.
ConsulCompare(f, object) ==
  IF f.op = "like" THEN Holds(f.op, object[f.field], f.value)
                   ELSE Holds(f.op, f.value, object[f.field])

\* Match and range queries.
ElasticCompare(f, object) == Holds(f.op, object[f.field], f.value)

\* Assertions of the filter syntax of LDAP.
LdapCompare(f, object) == Holds(f.op, object[f.field], f.value)

ConsulOperators == {"=", "!=", "<", "<=", ">", ">=", "like"}
ElasticOperators == {"=", "<", "<=", ">", ">="}
\* The filter syntax of LDAP has no strict order and no inequality.
LdapOperators == {"=", "<=", ">=", "like"}

Operators(driver) ==
  CASE driver = "consul"   -> ConsulOperators
    [] driver = "elastic"  -> ElasticOperators
    [] driver = "openldap" -> LdapOperators

\* The comparisons that a visitor of the tree meets.
Leaves ==
  LET leaves[g \in Filters] ==
        IF g.type = "compare" THEN {g}
        ELSE UNION {leaves[g.operands[k]] : k \in DOMAIN g.operands}
  IN leaves

\* handle_compare() raises for a target that does not convert to the native type
\* of the field, and for an operator that the driver lacks.  handle_and() and
\* handle_or() would refuse fewer than two operands, which no filter has.
Builds(driver, f) == \A g \in Leaves[f] : g.op \in Operators(driver) /\ g.value # Bad

\* handle_and() and handle_or() over the comparisons.
Selects(driver, f, object) ==
  LET matches[g \in Filters] ==
        CASE g.type = "and" -> \A k \in DOMAIN g.operands : matches[g.operands[k]]
          [] g.type = "or"  -> \E k \in DOMAIN g.operands : matches[g.operands[k]]
          [] g.type = "compare" ->
               CASE driver = "consul"   -> ConsulCompare(g, object)
                 [] driver = "elastic"  -> ElasticCompare(g, object)
                 [] driver = "openldap" -> LdapCompare(g, object)
  IN f = None \/ matches[f]

-----------------------------------------------------------------------------
(* Query: filter, order, offset and limit, each possibly None.             *)

Everything(f) == [filter |-> f, order |-> None, offset |-> None, limit |-> None]
Offset(q) == IF q.offset = None THEN 0 ELSE q.offset
ByKey == [field |-> "id", desc |-> FALSE]

Precedes(a, b, order) ==
  IF order.desc THEN a[order.field] > b[order.field] ELSE a[order.field] < b[order.field]

\* The arrangements of a set of objects that respect an order, if there is one.
Arrangements(found, order) ==
  {s \in Bijection(1..Cardinality(found), found) :
     \A i, j \in DOMAIN s : i < j /\ order # None => ~Precedes(s[j], s[i], order)}

\* An offset other than zero orders by the primary key.
OrderOf(q) ==
  IF q.order # None THEN q.order ELSE IF Offset(q) # 0 THEN ByKey ELSE None

\* A slice that ends at the limit itself.
SliceToLimit(q, s) ==
  LET size == IF q.limit = None THEN Len(s) ELSE q.limit
  IN SubSeq(s, Offset(q) + 1, IF size < Len(s) THEN size ELSE Len(s))

\* slice(offset, offset + limit)
Slice(q, s) ==
  LET end == IF q.limit = None THEN Len(s) ELSE Offset(q) + q.limit
  IN SubSeq(s, Offset(q) + 1, IF end < Len(s) THEN end ELSE Len(s))

Refused(q) == Offset(q) < 0 \/ Offset(q) + (IF q.limit = None THEN 0 ELSE q.limit) < 0

\* Consul returns a directory in the order of its keys, and sorted() is stable.
ConsulLists(q, found) ==
  {Slice(q, s) : s \in {s \in Arrangements(found, OrderOf(q)) :
     \A i, j \in DOMAIN s : i < j =>
       \/ OrderOf(q) # None /\ Precedes(s[i], s[j], OrderOf(q))
       \/ Precedes(s[i], s[j], ByKey)}}

\* OpenLDAP returns entries in any order.
LdapLists(q, found) == {Slice(q, s) : s \in Arrangements(found, OrderOf(q))}

\* search_by_query() gives from, size and sort to the server.
ElasticLists(q, found) ==
  {Slice([q EXCEPT !.limit = IF @ = None THEN DefaultSize ELSE @], s) :
     s \in Arrangements(found, q.order)}
ElasticRefused(q) == Offset(q) < 0 \/ (q.limit # None /\ q.limit < 0)

Lists(driver, q, found) ==
  CASE driver = "consul"   -> ConsulLists(q, found)
    [] driver = "elastic"  -> ElasticLists(q, found)
    [] driver = "openldap" -> LdapLists(q, found)
=============================================================================

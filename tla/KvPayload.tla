----------------------------- MODULE KvPayload -----------------------------
(***************************************************************************)
(* KvPayload: dicts and lists nested in each other, reached by keys such   *)
(* as a>b[1]>c.  The payload is a function on the paths of its nodes: the  *)
(* key a[1]>c is the path <<"a", "1", "c">>, and a node is "{}" for a      *)
(* dict, "[]" for a list, or a scalar.  Changing a key may have to replace *)
(* what lies on its way, and an operation may fail on its way.             *)
(***************************************************************************)
EXTENDS Naturals, Sequences, FiniteSets, Functions

CONSTANTS
  Keys,       \* the paths that operations are called for
  Values,     \* the values set: payloads of their own, the value at <<>>
  Digit,      \* <<"0", "1", ...>>: the indexes of lists, and numbers
  Str, Other, \* scalars: strings with "" among them; floats and null
  Num,        \* Num[k]: the name "num_k"
  None,
  Begin,      \* payloads to begin with
  MaxCalls

VARIABLES
  payload,
  last,       \* the last call: its operation, key, value and result, and the
              \*   payload before it
  calls

vars == <<payload, last, calls>>

Number == Range(Digit)  \* scalars of type int
Container == {"{}", "[]"}
Index == Range(Digit)   \* no name of a key is a digit
Place(step) == CHOOSE n \in 1..Len(Digit) : Digit[n] = step

Top == <<>>
Prefix(p, i) == SubSeq(p, 1, i)
Parent(p) == SubSeq(p, 1, Len(p) - 1)
IsPrefix(p, q) == Len(p) <= Len(q) /\ SubSeq(q, 1, Len(p)) = p
Below(t, p) == {q \in DOMAIN t : IsPrefix(p, q)}
Children(t, p) == {q \in DOMAIN t : Len(q) = Len(p) + 1 /\ IsPrefix(p, q)}
Restricted(t, S) == [q \in S |-> t[q]]
Without(t, p) == Restricted(t, DOMAIN t \ Below(t, p))

\* The value at a path: the nodes below it, by the rest of their paths.
At(t, p) == [q \in {SubSeq(r, Len(p) + 1, Len(r)) : r \in Below(t, p)} |-> t[p \o q]]

\* The container that the i-th prefix of a path has to be.
Needed(p, i) == IF p[i + 1] \in Index THEN "[]" ELSE "{}"

\* Where the way to p is not as needed, and the first such place.
Off(t, p) == {i \in 0..(Len(p) - 1) :
                Prefix(p, i) \notin DOMAIN t \/ t[Prefix(p, i)] # Needed(p, i)}
FirstOff(t, p) == CHOOSE i \in Off(t, p) : \A j \in Off(t, p) : i <= j

Init ==
  /\ payload \in Begin
  /\ last = [op |-> "none", key |-> Top, value |-> <<>>, result |-> "ok", before |-> payload]
  /\ calls = 0

-----------------------------------------------------------------------------
(* set()                                                                   *)

\* Where a dict is needed, a string or a list is replaced by one, and anything
\* else that is no dict raises; where a list is needed, it replaces anything.
SetRaises(t, p) ==
  /\ Off(t, p) # {}
  /\ LET i == FirstOff(t, p)  node == Prefix(p, i) IN
     node \in DOMAIN t /\ Needed(p, i) = "{}" /\ t[node] \in Number \cup Other

\* The elements that a list is extended by, up to the index in p.
Fill(t, p) ==
  LET padding == UNION {{Append(Prefix(p, i - 1), Digit[n]) :
                           n \in {m \in 1..Len(Digit) : m < Place(p[i])}} :
                        i \in {j \in 1..Len(p) : p[j] \in Index}}
  IN [q \in padding \ DOMAIN t |-> ""]

\* t with the nodes of u, at the paths that both have too.
Over(t, u) == [q \in DOMAIN t \cup DOMAIN u |-> IF q \in DOMAIN u THEN u[q] ELSE t[q]]

SetTree(t, p, value) ==
  LET i == IF Off(t, p) = {} THEN Len(p) ELSE FirstOff(t, p)
      cleared == Without(t, Prefix(p, i))
      way == [q \in {Prefix(p, k) : k \in i..(Len(p) - 1)} |-> Needed(p, Len(q))]
      nodes == [q \in {p \o r : r \in DOMAIN value} |-> value[SubSeq(q, Len(p) + 1, Len(q))]]
  IN Over(Over(Over(cleared, Fill(cleared, p)), way), nodes)

Call(op, p, value, result, t) ==
  /\ calls < MaxCalls /\ calls' = calls + 1
  /\ payload' = t
  /\ last' = [op |-> op, key |-> p, value |-> value, result |-> result, before |-> payload]

Set(p, value) ==
  IF SetRaises(payload, p) THEN Call("set", p, value, "error", payload)
  ELSE Call("set", p, value, "ok", SetTree(payload, p, value))

-----------------------------------------------------------------------------
(* delete()                                                                *)

\* A node on the way that is not the container needed raises; one that is not
\* there means that the key does not exist.
DeleteResult(t, p, force) ==
  LET i == FirstOff(t, p) IN
  IF Off(t, p) # {} /\ Prefix(p, i) \in DOMAIN t THEN "error"
  ELSE IF p \notin DOMAIN t THEN "absent"
  ELSE IF p[Len(p)] \in Index \/ t[p] \notin Container \/ force \/ Children(t, p) = {}
  THEN "ok" ELSE "error"

\* Mutant of DeleteTree: an element of a list is taken out, and those behind it
\* move up.
DeleteTreeShifts(t, p) ==
  IF p[Len(p)] \in Index
  THEN LET size == Cardinality(Children(t, Parent(p)))
           From(n) == At(t, Append(Parent(p), Digit[n + 1]))
           Moves(u, n) == Over(u, [q \in {Append(Parent(p), Digit[n]) \o r :
                                            r \in DOMAIN From(n)} |->
                                     From(n)[SubSeq(q, Len(p) + 1, Len(q))]])
           moved[n \in (Place(p[Len(p)]) - 1)..(size - 1)] ==
             IF n < Place(p[Len(p)])
             THEN Without(Without(t, p), Append(Parent(p), Digit[size]))
             ELSE Moves(moved[n - 1], n)
       IN moved[size - 1]
  ELSE Without(t, p)

\* The last element of a list is taken out, and one before it set to "".
DeleteTree(t, p) ==
  IF p[Len(p)] \in Index /\ Place(p[Len(p)]) < Cardinality(Children(t, Parent(p)))
  THEN Over(Without(t, p), [q \in {p} |-> ""])
  ELSE Without(t, p)

Delete(p, force) ==
  LET result == DeleteResult(payload, p, force) IN
  Call("delete", p, <<>>, result, IF result = "ok" THEN DeleteTree(payload, p) ELSE payload)

-----------------------------------------------------------------------------
\* add_num_keys(): for each list in a dict, its length, by its name.
AddNumKeys ==
  LET lists == {q \in DOMAIN payload \ {Top} :
                  payload[q] = "[]" /\ payload[Parent(q)] = "{}"}
      name(q) == Append(Parent(q), Num[q[Len(q)]])
      over == {name(q) : q \in lists}
      kept == Restricted(payload, {q \in DOMAIN payload : \A r \in over : ~IsPrefix(r, q)})
  IN Call("num", Top, <<>>, "ok",
          Over(kept, [r \in over |->
            LET q == CHOOSE q \in lists : name(q) = r
            IN Digit[Cardinality(Children(payload, q)) + 1]]))

Next ==
  \/ \E p \in Keys : \/ \E value \in Values : Set(p, value)
                     \/ \E force \in BOOLEAN : Delete(p, force)
  \/ AddNumKeys

Spec == Init /\ [][Next]_vars

-----------------------------------------------------------------------------
(* Reading.                                                                *)

\* get(): an exception for the index of a key that is not there, on the way, and
\* for that of a number, at the end.
GetRaises(t, p) ==
  /\ Off(t, p) # {}
  /\ LET i == FirstOff(t, p)  node == Prefix(p, i) IN
     /\ Needed(p, i) = "[]"
     /\ IF i + 1 < Len(p) THEN node \notin DOMAIN t
                          ELSE node \in DOMAIN t /\ t[node] \in Number \cup Other

\* get_keys(): strings and numbers in dicts and lists, but not in a list of a list.
GetKeys(t) ==
  {p \in DOMAIN t : t[p] \in Str \cup Number
     /\ \A i \in 1..(Len(p) - 1) : p[i] \in Index => p[i + 1] \notin Index}

\* get_keys(recurse=False): the elements of lists as they are, and all scalars.
ShallowGetKeys(t) ==
  {p \in DOMAIN t \ {Top} :
     /\ \A i \in 1..(Len(p) - 1) : p[i] \notin Index
     /\ p[Len(p)] \in Index \/ t[p] \notin Container}

\* get(recurse=False): an exception for a name in what is no dict.
ShallowGetRaises(t, p) ==
  /\ Off(t, p) # {}
  /\ Needed(p, FirstOff(t, p)) = "{}" /\ Prefix(p, FirstOff(t, p)) \in DOMAIN t

\* search() below the key p for a name and a value, or None for any value: then
\* all that is below a container of that name is found too.
Search(t, p, name, v) ==
  LET Named(q) == \/ q[Len(q)] = name
                  \/ q[Len(q)] \in Index /\ q[Len(q) - 1] = name
      In(q) == \E i \in Len(p)..(Len(q) - 1) : q[i] = name
  IN {q \in Below(t, p) \ {p} :
        /\ t[q] \in Str \cup Number
        /\ \A i \in (Len(p) + 1)..(Len(q) - 1) : q[i] \in Index => q[i + 1] \notin Index
        /\ IF v = None THEN Named(q) \/ In(q) ELSE Named(q) /\ t[q] = v}

\* ConfStore.compare(): keys that are new, deleted and updated.
Compare(t, u) ==
  [new |-> GetKeys(u) \ GetKeys(t), deleted |-> GetKeys(t) \ GetKeys(u),
   updated |-> {p \in GetKeys(t) \cap GetKeys(u) : t[p] # u[p]}]

\* ConfStore.copy() to a payload that is empty.
Copy(t) ==
  LET copied[S \in SUBSET GetKeys(t)] ==
        IF S = {} THEN [q \in {Top} |-> "{}"]
        ELSE LET p == CHOOSE p \in S : TRUE IN SetTree(copied[S \ {p}], p, At(t, p))
  IN copied[GetKeys(t)]

-----------------------------------------------------------------------------
(* Properties.                                                             *)

\* The first step in which two paths differ is of the same kind in both: a
\* change at one does not replace a container that the other goes through.
Apart(p, q) ==
  \E i \in 1..(IF Len(p) < Len(q) THEN Len(p) ELSE Len(q)) :
    /\ p[i] # q[i] /\ Prefix(p, i - 1) = Prefix(q, i - 1)
    /\ (p[i] \in Index) = (q[i] \in Index)

ListInList(t, p) == p \in DOMAIN t /\ t[p] = "[]" /\ p[Len(p)] \in Index

\* What the last call has to have done.
DoneAsAsked ==
  LET t == payload  old == last.before  p == last.key IN
  /\ last.result # "ok" => t = old
  /\ last.op # "num" =>
       /\ \A q \in DOMAIN old : Apart(p, q) => q \in DOMAIN t /\ t[q] = old[q]
       /\ \A q \in DOMAIN t \ DOMAIN old :
            IsPrefix(q, p) \/ IsPrefix(p, q) \/ t[q] = ""
  /\ last.op = "set" /\ last.result = "ok" =>
       ~GetRaises(t, p) /\ p \in DOMAIN t /\ At(t, p) = last.value
  /\ last.op = "delete" /\ last.result = "ok" =>
       IF p \in DOMAIN t THEN t[p] = "" ELSE \A q \in DOMAIN t : ~IsPrefix(p, q)

(* A set() that returns is read back, a delete() leaves nothing or "" in   *)
(* the middle of a list, other keys are not touched unless they go through *)
(* a container that had to be replaced, and an operation that raises has   *)
(* changed nothing.  Every key listed, and every key found by search(),    *)
(* can be read and is a scalar, lists have no gaps, and a copy by key has  *)
(* all keys with their values: at most "" is added, for an element of a    *)
(* list that has no key.                                                   *)
PayloadKept ==
  /\ DoneAsAsked
  /\ \A p \in GetKeys(payload) : ~GetRaises(payload, p) /\ Off(payload, p) = {}
  /\ \A p \in DOMAIN payload \ {Top} :
       /\ payload[Parent(p)] = IF p[Len(p)] \in Index THEN "[]" ELSE "{}"
       /\ p[Len(p)] \in Index => Place(p[Len(p)]) <= Cardinality(Children(payload, Parent(p)))
  /\ GetKeys(payload) \cap {p \in DOMAIN payload : \A i \in 1..(Len(p) - 1) : p[i] \notin Index}
       \subseteq ShallowGetKeys(payload)
  /\ \A p \in ShallowGetKeys(payload) : ~ShallowGetRaises(payload, p)
  /\ \A p \in Keys \cap DOMAIN payload, name \in DOMAIN Num :
       LET found == Search(payload, p, name, None) IN
       ListInList(payload, p) \/
         /\ found \subseteq GetKeys(payload)
         /\ \A v \in {payload[q] : q \in found} :
              Search(payload, p, name, v) \subseteq found
  /\ LET copy == Copy(payload)  diff == Compare(payload, copy) IN
     /\ diff.deleted = {} /\ diff.updated = {}
     /\ \A p \in diff.new : copy[p] = ""
=============================================================================

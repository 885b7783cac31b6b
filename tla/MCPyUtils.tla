------------------------------ MODULE MCPyUtils ------------------------------
(***************************************************************************)
(* The utilities of py-utils, each on a small instance of its own.         *)
(***************************************************************************)
EXTENDS PyUtils, TLC

CONSTANTS q1, q2, n1, n2

MCProcess == {q1, q2}
MCNode == {n1, n2}

MCActivityId == {"a1", "a2"}
MCPercent == {0, 50, 99}

\* Two bundles of one id, at different paths.
MCBundle == {"b1", "b2"}
MCIdOf == [b \in MCBundle |-> "id"]
\* A call for no component returns early.
MCSelections == {<<>>, <<"csm", "motr">>}

\* Two orders of the same nodes, and a list that is shorter.
MCServerLists == {<<n1>>, <<n1, n2>>, <<n2, n1>>}
\* Keys that config sets in a cluster only, and keys that it always sets.
MCKafkaCuts ==
  [server |-> {{"min.isr", "listeners"}, {"broker.id", "zookeeper.connect", "min.isr"}},
   zoo |-> {{<<"server", 2>>}, {<<"dataDir">>, <<"server", 1>>}}]

MCConsulServers == "c1" :> {n1} @@ "c2" :> {n1, n2}
MCConsulPath == "c1" :> "/etc/consul.d" @@ "c2" :> "/opt"

MCLdapHosts == {1, 3}
\* The data and an entry that config adds again, and one that it does not.
MCLdapStuck ==
  {"root", "Policies", "passwordDefault", "module ppolicy", "overlay syncprov"}

-----------------------------------------------------------------------------
(* The calls made to the data access layer: objects have the fields f, g.  *)

Object(i, f, g) == [id |-> i, f |-> f, g |-> g]
Compare(field, op, value) == [type |-> "compare", field |-> field, op |-> op, value |-> value]
FZero == Compare("f", "=", 0)
FLike == Compare("f", "like", 1)
FBelow == Compare("f", "<", 1)
FBad == Compare("f", "=", Bad)
FOr == [type |-> "or", operands |-> <<Compare("id", "=", 2), FZero>>]
FAnd == [type |-> "and", operands |-> <<FZero, FLike>>]

MCFilters == {FZero, FLike, FBelow, FBad, FOr, FAnd} \cup {Compare("id", "=", i) : i \in 1..3}

Store(object, valid) == [op |-> "store", valid |-> valid, id |-> object.id, object |-> object]
Update(filter, field, value, valid) ==
  [op |-> "update", valid |-> valid, filter |-> filter, field |-> field, value |-> value]
Delete(filter) == [op |-> "delete", valid |-> TRUE, filter |-> filter]
Get(filter, order, offset, limit) ==
  [op |-> "get", valid |-> TRUE,
   query |-> [filter |-> filter, order |-> order, offset |-> offset, limit |-> limit]]

\* Objects that are there, that are not and that the model refuses; filters that
\* a driver cannot build; pages in the middle, past the end and of negative size.
Common ==
  {Store(Object(1, 1, 1), TRUE), Store(Object(3, 0, 1), TRUE),
   Update(FZero, "g", 1, TRUE),
   [op |-> "update_by_id", valid |-> TRUE, id |-> 1, field |-> "f", value |-> 1],
   Delete(FOr), Delete(FZero), Delete(FBad),
   [op |-> "delete_by_id", valid |-> TRUE, id |-> 1],
   [op |-> "count", valid |-> TRUE, filter |-> FOr],
   Get(FZero, None, None, None), Get(FAnd, None, None, None), Get(FBad, None, None, None),
   Get(None, None, 1, 1), Get(None, [field |-> "g", desc |-> TRUE], 0, 2),
   Get(None, [field |-> "f", desc |-> FALSE], 2, None), Get(FZero, None, 0, -1)}
Checked == {Store(Object(1, 1, 1), FALSE), Update(FZero, "g", 1, FALSE)}

\* Consul is not asked for ranges: see ReadsMeant of DataStore.
MCRequests ==
  [consul |-> Common \cup Checked,
   elastic |-> Common \cup Checked \cup {Get(FBelow, None, None, None)},
   openldap |-> Common \cup {Get(FBelow, None, None, None)}]

MCDrivers == DOMAIN MCRequests
MCPresent == 1 :> Object(1, 0, 1) @@ 2 :> Object(2, 0, 0) @@ 3 :> None
MCContained == {<<0, 0>>, <<1, 1>>, <<0, 1>>}

-----------------------------------------------------------------------------
(* Payloads: keys a, a[1], a[0]>b[1] and so on.                            *)

Scalar(v) == [q \in {<<>>} |-> v]

MCPayloadKeys ==
  {<<"a">>, <<"a", "1">>, <<"a", "b">>, <<"a", "1", "b">>,
   <<"a", "0", "b", "1">>, <<"b">>, <<"b", "a", "b">>}
MCPayloadValues ==
  {Scalar("s"), Scalar("2"), Scalar("1.5"),
   (<<>> :> "[]" @@ <<"0">> :> "{}" @@ <<"0", "b">> :> "t"),
   (<<>> :> "{}" @@ <<"b">> :> "t")}
MCDigit == <<"0", "1", "2", "3">>
MCStr == {"", "s", "t"}
MCNum == [a |-> "num_a", b |-> "num_b"]
MCPayload ==
  {Scalar("{}"),
   (<<>> :> "{}" @@ <<"a">> :> "[]" @@ <<"a", "0">> :> "s" @@ <<"a", "1">> :> "{}"
    @@ <<"a", "1", "b">> :> "2" @@ <<"a", "2">> :> "t")}

\* A key that is a file for some and a directory for others, and two files.
MCFileKey == {<<"a">>, <<"a", "b">>, <<"c">>}
MCFileStart == <<"a", "b">> :> "w" @@ <<"c">> :> "w"

-----------------------------------------------------------------------------
(* Calls of the conf command on two files, and one on a file that is not   *)
(* there.                                                                  *)

Conf(op, second, args) ==
  [op |-> op, url |-> "f", second |-> second, args |-> args, force |-> FALSE,
   defaults |-> None, below |-> {"a", "t"}, value |-> None]

MCConfCalls ==
  {Conf("usage", None, None),
   Conf("set", None, <<<<"a", "v">>, <<"a", "w">>>>), Conf("set", None, <<<<"a", "w">>, <<"b">>>>),
   [Conf("set", None, <<<<"e", "v">>>>) EXCEPT !.url = "g"],
   Conf("delete", None, <<"a", "t">>), Conf("delete", None, <<"x">>),
   [Conf("delete", None, <<"t", "x">>) EXCEPT !.force = TRUE],
   Conf("merge", "g", None), Conf("merge", "g", <<"a", "c">>), Conf("merge", "new", <<"c">>),
   [Conf("merge", "f", <<"a">>) EXCEPT !.url = "g"],
   Conf("copy", "g", <<"a", "x">>), Conf("copy", "new", None), Conf("compare", "g", None),
   Conf("diff", "g", None), Conf("diff", "g", <<"a">>),
   Conf("get", None, <<"a", "x">>), [Conf("get", None, <<"a", "x">>) EXCEPT !.defaults = <<"d">>],
   [Conf("get", None, <<"a", "x">>) EXCEPT !.defaults = <<"d", "d">>],
   Conf("get_keys", None, None), [Conf("search", None, None) EXCEPT !.value = "v"],
   Conf("addnumkeys", None, None)}

MCConfStart ==
  "f" :> ("a" :> "v" @@ "t" :> "tree") @@ "new" :> Absent
  @@ "g" :> ("a" :> "w" @@ "c" :> "v" @@ "e" :> "")
MCNumOf == "t" :> "num_t"
MCConfKeys == {"a", "c", "e", "t", "num_t"}
MCConfValues == {"", "v", "w", "tree", "num"}

-----------------------------------------------------------------------------
\* Hosts that lack a package, the file of the prerequisites, or the network;
\* configurations that lack keys or the nodes of a storage set.
AllKeys ==
  {"cluster", "hostname", "user", "secret", "count", "nodes", "base_dn", "install_dir",
   "data_dir", "interfaces", "fqdn", "config_path", "data_path"}
Given(keys, cluster, count, nodes) ==
  [keys |-> keys, cluster |-> cluster, count |-> count, sets |-> nodes]

MCHosts ==
  {{"prereqs_file", "rpms", "pip3s", "files", "network", "plugin_removed"},
   {"pip3s", "network"}, {"prereqs_file", "rpms", "pip3s"}}
MCInputs ==
  {Given(AllKeys, "c2", 2, {1}), Given(AllKeys, "c2", 2, {0, 1}),
   Given(AllKeys \ {"data_dir"}, "c1", 1, {0}),
   Given(AllKeys \ {"cluster", "secret", "config_path"}, "c1", 1, {0})}

\* A change of the endpoints, and a change of the backend.
MCDeployed == [backend |-> "kafka", endpoints |-> [kafka |-> "k1", other |-> None]]
MCChangeSets ==
  {[backend |-> None,
    entries |-> {[prefix |-> "changed", backend |-> "kafka", value |-> "k2"]}],
   [backend |-> "other",
    entries |-> {[prefix |-> "new", backend |-> "other", value |-> "k2"]}]}

-----------------------------------------------------------------------------
(* Requests to the REST server.                                            *)

Event(component, source, keys, valid) ==
  [op |-> "iem", json |-> TRUE, keys |-> keys, component |-> component, source |-> source,
   valid |-> valid, n |-> 1]
Whole == {"component", "source", "arguments"}
Post(op, type, n, valid) ==
  [op |-> op, json |-> TRUE, keys |-> {"messages"}, type |-> type, valid |-> valid, n |-> n]
Fetch(op, group, types) ==
  [op |-> op, keys |-> {"consumer_group", "component"}, group |-> group, types |-> types]
Hook(url, json) == [op |-> "webhook", json |-> json, url |-> url]

\* Events of two components and readers of two; lists and readers of two groups; the
\* audit log with a webhook; and requests that are refused one way or the other.
MCBatches ==
  {<<Event("S3", "S", Whole, TRUE), Event("SSPL", "H", Whole, TRUE),
     Event("SSPL", "Z", Whole, TRUE), Fetch("events", "S3", {"IEM"}),
     Fetch("events", "CSM", {"IEM"})>>,
   <<Post("send", "alerts", 2, TRUE), Post("send", "IEM", 1, TRUE),
     Post("send", "alerts", 1, FALSE), Fetch("receive", "g", {"alerts"}),
     Fetch("receive", "h", {"IEM", "alerts"}), Fetch("events", "g", {"IEM"})>>,
   <<Post("audit", "", 2, TRUE), Hook("u", TRUE), Hook(None, FALSE),
     Post("audit", "", 1, FALSE), [Post("audit", "", 1, TRUE) EXCEPT !.keys = {}]>>,
   <<[Fetch("receive", "g", {"alerts"}) EXCEPT !.keys = {}],
     [Fetch("events", "g", {"IEM"}) EXCEPT !.keys = {}],
     [Event("A", "S", Whole, TRUE) EXCEPT !.json = FALSE],
     Event("A", "S", {"component"}, TRUE), Event("B", "S", {"component", "source"}, TRUE),
     Event("C", "S", Whole, FALSE)>>}

=============================================================================

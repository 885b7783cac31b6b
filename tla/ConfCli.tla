------------------------------- MODULE ConfCli -------------------------------
(***************************************************************************)
(* The conf command: each call is a process that loads a configuration     *)
(* file, and for some commands a second one, works on the copies in        *)
(* memory, and saves the first if the command says so.  Saving opens the   *)
(* file, which empties it, and writes it.  Calls overlap, and end anywhere.*)
(***************************************************************************)
EXTENDS Naturals, Sequences, Functions

CONSTANTS
  Process,    \* the shells that give commands
  Start,      \* Start[u]: what the file u holds at first, or Absent
  Commands,   \* the calls that are made
  NumOf,      \* NumOf[k]: the key that addnumkeys sets for the list at k
  Tree,       \* a value that is a dict or a list with elements
  Falsy,      \* values that Python takes for false
  Absent, Blank, None,
  ConfKeys, ConfValues, \* what a file may hold
  MaxRuns     \* bound on the commands given

VARIABLES
  file,       \* file[u]: its keys and values, Absent, or Blank: empty
  cli,        \* cli[p]: the command of p and where it is
  shared,     \* processes whose file another one opened or wrote since they did so
              \*   last, or since they loaded it
  runs

vars == <<file, cli, shared, runs>>

EINVAL == 22
Idle == [step |-> "idle"]
Working == {"second", "run", "save", "write"}
TwoFiles == {"diff", "merge", "compare", "copy"}

Init ==
  /\ file = Start
  /\ cli = [p \in Process |-> Idle]
  /\ shared = {}
  /\ runs = 0

-----------------------------------------------------------------------------
(* main()                                                                  *)

Ends(p, status, out) ==
  cli' = [cli EXCEPT ![p].step = "ended", ![p].status = status, ![p].out = out]

\* A file that is not there is made; one that is empty is not JSON.
Reads(u) == IF file[u] = Absent THEN [k \in {} |-> None] ELSE file[u]
Made(u) == file' = [file EXCEPT ![u] = Reads(u)]

\* parse_args() ends the process by itself; a command that is left out is
\* found missing after the load only.
Refuse(p, c) ==
  /\ c.op = "usage" /\ runs < MaxRuns /\ cli[p].step \in {"idle", "ended", "killed"}
  /\ cli' = [cli EXCEPT ![p] = [step |-> "ended", cmd |-> c, data |-> None, other |-> None,
                                base |-> Reads(c.url), status |-> 2, out |-> None]]
  /\ shared' = shared \ {p}
  /\ runs' = runs + 1
  /\ UNCHANGED file

Load(p, c) ==
  /\ c.op # "usage" /\ runs < MaxRuns /\ cli[p].step \in {"idle", "ended", "killed"}
  /\ Made(c.url)
  /\ cli' = [cli EXCEPT ![p] =
       [step |-> IF Reads(c.url) = Blank THEN "ended"
                 ELSE IF c.op \in TwoFiles THEN "second" ELSE "run",
        cmd |-> c, data |-> Reads(c.url), other |-> None, base |-> Reads(c.url),
        status |-> EINVAL, out |-> None]]
  /\ shared' = shared \ {p}
  /\ runs' = runs + 1

LoadSecond(p) ==
  /\ cli[p].step = "second"
  /\ LET u == cli[p].cmd.second
     IN  /\ Made(u)
         /\ IF Reads(u) = Blank
            THEN Ends(p, EINVAL, None)
            ELSE cli' = [cli EXCEPT ![p].step = "run", ![p].other = Reads(u)]
  /\ UNCHANGED <<shared, runs>>

\* The process is killed.
Kill(p) ==
  /\ cli[p].step \in Working
  /\ cli' = [cli EXCEPT ![p].step = "killed"]
  /\ UNCHANGED <<file, shared, runs>>

-----------------------------------------------------------------------------
(* The commands, on what was loaded.                                       *)

Runs(p, op) == cli[p].step = "run" /\ cli[p].cmd.op = op /\ UNCHANGED <<file, shared, runs>>
Saves(p, data) == cli' = [cli EXCEPT ![p].step = "save", ![p].data = data]

\* The keys of two dicts, those in both with what the first has.
Over(new, old) ==
  [k \in DOMAIN new \cup DOMAIN old |-> IF k \in DOMAIN new THEN new[k] ELSE old[k]]

\* What a list of pairs sets, the last pair of a key last.
LastOf(pairs, k) ==
  CHOOSE i \in DOMAIN pairs :
    pairs[i][1] = k /\ \A j \in DOMAIN pairs : pairs[j][1] = k => j <= i
Given(pairs) == [k \in {pair[1] : pair \in Range(pairs)} |-> pairs[LastOf(pairs, k)][2]]

\* A part without a delimiter is a pair of one.
Set(p) ==
  /\ Runs(p, "set")
  /\ LET pairs == cli[p].cmd.args
     IN  IF \E i \in DOMAIN pairs : Len(pairs[i]) = 1
         THEN Ends(p, EINVAL, None)
         ELSE Saves(p, Over(Given(pairs), cli[p].data))

AddNumKeys(p) ==
  /\ Runs(p, "addnumkeys")
  /\ LET data == cli[p].data
     IN  Saves(p, Over([n \in {NumOf[k] : k \in DOMAIN NumOf \cap DOMAIN data} |-> "num"], data))

\* Without --force a key that has keys below it is an error; a key that is not
\* there is none, but if no key is there nothing is saved.
Delete(p) ==
  /\ Runs(p, "delete")
  /\ LET keys == cli[p].cmd.args
         data == cli[p].data
         left == [j \in DOMAIN data \ Range(keys) |-> data[j]]
         there == \E i \in DOMAIN keys : keys[i] \in DOMAIN data
     IN  IF /\ ~cli[p].cmd.force
            /\ \E i \in DOMAIN keys : keys[i] \in DOMAIN data /\ data[keys[i]] = Tree
         THEN Ends(p, EINVAL, None)
         ELSE IF there THEN Saves(p, left) ELSE Ends(p, 0, None)

\* The keys to merge are those given, which must be in the source, or all of the
\* source; a value that Python takes for false fails the merge (ConfStore.merge()).
MergeKeys(c, source) == IF c.args = None THEN DOMAIN source ELSE Range(c.args)
MergeOver(p) ==
  /\ Runs(p, "merge")
  /\ LET source == cli[p].other
     IN  Saves(p, Over([k \in MergeKeys(cli[p].cmd, source) \cap DOMAIN source |-> source[k]],
                       cli[p].data))
Merge(p) ==
  /\ Runs(p, "merge")
  /\ LET source == cli[p].other
         keys == MergeKeys(cli[p].cmd, source)
     IN  IF \E k \in keys : k \notin DOMAIN source \/ source[k] \in Falsy
         THEN Ends(p, EINVAL, None)
         ELSE IF keys \subseteq DOMAIN cli[p].data
              THEN Ends(p, 0, None)
              ELSE Saves(p, Over(cli[p].data, [k \in keys |-> source[k]]))

\* The keys are set in the copy of the target that this process has in memory.
Copy(p) ==
  /\ Runs(p, "copy")
  /\ LET source == cli[p].data
         keys == IF cli[p].cmd.args = None THEN DOMAIN source ELSE Range(cli[p].cmd.args)
         copied == [k \in keys |-> IF k \in DOMAIN source THEN source[k] ELSE None]
     IN  cli' = [cli EXCEPT ![p].step = "ended", ![p].status = 0,
                            ![p].other = Over(copied, cli[p].other)]

Compare(p) ==
  /\ Runs(p, "compare")
  /\ LET one == cli[p].data
         two == cli[p].other
         deleted == DOMAIN one \ DOMAIN two
     IN  Ends(p, 0, [new |-> DOMAIN two \ DOMAIN one, deleted |-> deleted,
                     updated |-> {k \in DOMAIN one \ deleted : one[k] # two[k]}])

\* ConfCli.get(): a default for each key, if there are defaults.
Value(data, c, i) ==
  IF c.args[i] \in DOMAIN data THEN data[c.args[i]]
  ELSE IF c.defaults = None THEN None ELSE c.defaults[i]
Get(p) ==
  /\ Runs(p, "get")
  /\ LET c == cli[p].cmd
     IN  IF c.defaults # None /\ Len(c.defaults) # Len(c.args)
         THEN Ends(p, EINVAL, None)
         ELSE Ends(p, 0, [i \in DOMAIN c.args |-> Value(cli[p].data, c, i)])

\* The keys of both files, or the values of the keys given, are compared as text.
Diff(p) ==
  /\ Runs(p, "diff")
  /\ LET c == cli[p].cmd
     IN  Ends(p, 0, IF c.args = None
                    THEN DOMAIN cli[p].data # DOMAIN cli[p].other
                    ELSE \E i \in DOMAIN c.args :
                           Value(cli[p].data, c, i) # Value(cli[p].other, c, i))

GetKeys(p) == Runs(p, "get_keys") /\ Ends(p, 0, DOMAIN cli[p].data)

\* The keys below a parent that have the name, and the value if one is given.
Search(p) ==
  /\ Runs(p, "search")
  /\ LET c == cli[p].cmd
     IN  Ends(p, 0, {k \in c.below \cap DOMAIN cli[p].data :
                       c.value = None \/ cli[p].data[k] = c.value})

-----------------------------------------------------------------------------
(* Conf.save(): JsonKvStore.dump() opens the file and writes it.           *)

Writes(p) ==
  shared' = (shared \ {p}) \cup {q \in Process \ {p} :
                                   cli[q] # Idle /\ cli[q].cmd.url = cli[p].cmd.url}

Open(p) ==
  /\ cli[p].step = "save"
  /\ file' = [file EXCEPT ![cli[p].cmd.url] = Blank]
  /\ cli' = [cli EXCEPT ![p].step = "write"]
  /\ Writes(p)
  /\ UNCHANGED runs

Write(p) ==
  /\ cli[p].step = "write"
  /\ file' = [file EXCEPT ![cli[p].cmd.url] = cli[p].data]
  /\ Ends(p, 0, None)
  /\ Writes(p)
  /\ UNCHANGED runs

Next ==
  \E p \in Process :
    \/ \E c \in Commands : Refuse(p, c) \/ Load(p, c)
    \/ LoadSecond(p) \/ Kill(p)
    \/ Set(p) \/ AddNumKeys(p) \/ Delete(p) \/ Merge(p) \/ Copy(p)
    \/ Compare(p) \/ Get(p) \/ Diff(p) \/ GetKeys(p) \/ Search(p)
    \/ Open(p) \/ Write(p)

Spec == Init /\ [][Next]_vars

-----------------------------------------------------------------------------
(* Properties                                                              *)

\* What a command makes of the first file, given the second: the last value set
\* for a key counts, a key with keys below it is kept unless it is forced out,
\* and a merge adds keys and changes none.
Meant(c, base, other) ==
  CASE c.op = "set" ->
         LET last(k) == CHOOSE i \in DOMAIN c.args :
               c.args[i][1] = k /\ \A j \in DOMAIN c.args : c.args[j][1] = k => j <= i
             keys == {c.args[i][1] : i \in DOMAIN c.args}
         IN  [k \in DOMAIN base \cup keys |-> IF k \in keys THEN c.args[last(k)][2] ELSE base[k]]
    [] c.op = "delete" ->
         [k \in {k \in DOMAIN base : \/ \A i \in DOMAIN c.args : c.args[i] # k
                                     \/ base[k] = Tree /\ ~c.force} |-> base[k]]
    [] c.op = "merge" ->
         [k \in DOMAIN base \cup MergeKeys(c, other) |->
            IF k \in DOMAIN base THEN base[k] ELSE other[k]]
    [] c.op = "addnumkeys" ->
         [k \in DOMAIN base \cup {NumOf[j] : j \in DOMAIN NumOf \cap DOMAIN base} |->
            IF \E j \in DOMAIN NumOf \cap DOMAIN base : NumOf[j] = k THEN "num" ELSE base[k]]
    [] OTHER -> base

\* Commands overlap, and the one that writes its file last wins, of what it loaded
\* itself: if it exits with 0, the file is what the command is for, made of that.  One
\* that exits with an error has left its file alone, though some of its keys were
\* worked on before the error, and one that is killed has changed nothing or left the
\* file empty, unless another command opened or wrote the file since (main(), lines
\* 357-366).  copy is for nothing that is kept: it changes the target in memory and
\* does not save it (lines 150-155), so its file stays as it was, and the target too.
\* The lists of compare, applied to the first file, give the keys of the second.
CommandLands ==
  \A p \in Process : cli[p] # Idle /\ p \notin shared =>
    LET me == cli[p]
    IN  /\ me.step = "ended" =>
             Reads(me.cmd.url) = IF me.status = 0 THEN Meant(me.cmd, me.base, me.other)
                                 ELSE me.base
        /\ me.step = "killed" => Reads(me.cmd.url) \in {me.base, Blank}
        /\ me.step = "ended" /\ me.status = 0 /\ me.cmd.op = "compare" =>
             DOMAIN me.other = (DOMAIN me.base \cup me.out.new) \ me.out.deleted

(* The inductive invariant.  Files and what is loaded of them are dicts    *)
(* over ConfKeys and ConfValues; a command has made of what it loaded what *)
(* it is for, and the file is as it left it, unless it is shared.          *)
Dict == UNION {[keys -> ConfValues] : keys \in SUBSET ConfKeys}

TypeInv ==
  /\ file \in [DOMAIN Start -> Dict \cup {Absent, Blank}]
  /\ cli = [p \in Process |-> cli[p]]
  /\ \A p \in Process : cli[p] # Idle =>
       LET me == cli[p]
       IN  /\ me = [step |-> me.step, cmd |-> me.cmd, data |-> me.data, other |-> me.other,
                    base |-> me.base, status |-> me.status, out |-> me.out]
           /\ me.step \in Working \cup {"ended", "killed"} /\ me.cmd \in Commands
           /\ me.base \in Dict \cup {Blank}

WorkInv(me) ==
  /\ me.step \in Working => me.base \in Dict
  /\ me.step \in {"second", "run"} => me.data = me.base
  /\ me.step = "second" => me.cmd.op \in TwoFiles
  /\ me.step = "run" /\ me.cmd.op \in TwoFiles => me.other \in Dict
  /\ me.step \in {"save", "write"} =>
       /\ me.cmd.op # "compare" /\ me.data \in Dict
       /\ me.data = Meant(me.cmd, me.base, me.other)
  /\ me.step = "ended" /\ me.status = 0 /\ me.cmd.op = "compare" =>
       DOMAIN me.other = (DOMAIN me.base \cup me.out.new) \ me.out.deleted

FileInv(me) ==
  Reads(me.cmd.url) \in
    CASE me.step \in {"second", "run", "save"} -> {me.base}
      [] me.step = "write" -> {Blank}
      [] me.step = "ended" -> {IF me.status = 0 THEN Meant(me.cmd, me.base, me.other) ELSE me.base}
      [] me.step = "killed" -> {me.base, Blank}

CliInv ==
  /\ TypeInv
  /\ \A p \in Process : cli[p] # Idle =>
       WorkInv(cli[p]) /\ (p \notin shared => FileInv(cli[p]))
=============================================================================

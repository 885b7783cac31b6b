--------------------------- MODULE SupportBundle ---------------------------
(***************************************************************************)
(* Support bundles: generate() makes the directory of the bundle, notes    *)
(* In-Progress in a JSON file under an index of the configuration store,   *)
(* collects the archives of the components, packs them and notes the       *)
(* result.  Every process has a cache of the file of its own, which        *)
(* save() writes out whole.  The directory is target_path/bundle_id, and   *)
(* the status is that of the node and the id, at whatever path.            *)
(***************************************************************************)
EXTENDS Naturals, FiniteSets, Sequences

CONSTANTS
  Process,
  Bundle,       \* bundles, each a directory
  IdOf,         \* IdOf[b]: its id; bundles at different paths may have the same
  Selections,   \* sequences of components that a call may be for (one may be empty)
  MaxCrashes,
  None

VARIABLES
  file,         \* file[i]: the status stored for an id, or None; or Empty
  cache,        \* cache[p]: SB_INDEX of the process: the same, None if not loaded
  dirs,         \* bundle directories that exist
  parts,        \* parts[b]: the components collected
  archive,      \* archive[b]: the components in the archive, None without one
  call,         \* call[p]: the call of generate() that p is in
  packed,       \* packed[b]: how often an archive was made there
  answered,     \* answered[p]: what get_status() answered last
  crashes

vars == <<file, cache, dirs, parts, archive, packed, call, answered, crashes>>
disk == <<dirs, parts, archive, packed>>

Id == {IdOf[b] : b \in Bundle}
Empty == None
Idle == [step |-> "idle", bundle |-> None, todo |-> <<>>, status |-> None]

Init ==
  /\ file = [i \in Id |-> None]
  /\ cache = [p \in Process |-> None]
  /\ dirs = {} /\ parts = [b \in Bundle |-> {}] /\ archive = [b \in Bundle |-> None]
  /\ call = [p \in Process |-> Idle]
  /\ packed = [b \in Bundle |-> 0]
  /\ answered = [p \in Process |-> None]
  /\ crashes = 0

At(p, step) == call[p].step = step
Goto(p, step) == call' = [call EXCEPT ![p].step = step]
End(p) == call' = [call EXCEPT ![p] = Idle]

-----------------------------------------------------------------------------
(* generate(): _generate_bundle() up to the components.                    *)

\* os.makedirs() is the only guard against a bundle that is there already.
MakeDirIf(p, b, list, free) ==
  /\ At(p, "idle") /\ free
  /\ dirs' = dirs \cup {b}
  /\ call' = [call EXCEPT ![p] = [Idle EXCEPT !.step = "load", !.bundle = b,
                                              !.todo = list]]
  /\ UNCHANGED <<file, cache, parts, archive, packed, answered, crashes>>

MakeDirExistOk(p, b, list) == MakeDirIf(p, b, list, packed[b] < 2)
MakeDir(p, b, list) == MakeDirIf(p, b, list, b \notin dirs)

\* Conf.load(skip_reload=True): only the first time in a process.  A file
\* that another process has just opened for writing cannot be parsed.
LoadOnce(p) ==
  /\ At(p, "load")
  /\ IF cache[p] = None /\ file = Empty
     THEN End(p) /\ UNCHANGED cache
     ELSE /\ cache' = [cache EXCEPT ![p] = IF @ = None THEN file ELSE @]
          /\ Goto(p, "begin")
  /\ UNCHANGED <<file, disk, answered, crashes>>

\* Conf.set() and Conf.save(), which opens the file and writes the cache.
SetStatus(p, status) == cache' = [cache EXCEPT ![p][IdOf[call[p].bundle]] = status]

Begin(p) ==
  /\ At(p, "begin")
  /\ SetStatus(p, "In-Progress") /\ file' = Empty
  /\ Goto(p, "save")
  /\ UNCHANGED <<disk, answered, crashes>>

\* Without components the call returns, and In-Progress is what stays.
Save(p) ==
  /\ At(p, "save") \/ At(p, "saveEnd")
  /\ file' = cache[p]
  /\ IF At(p, "saveEnd") \/ call[p].todo = <<>> THEN End(p) ELSE Goto(p, "collect")
  /\ UNCHANGED <<cache, disk, answered, crashes>>

-----------------------------------------------------------------------------
(* ComponentsBundle.init().                                                *)

\* _exc_components_cmd(): the first command of a component, whose failure is
\* only logged.  The copies of the manifest before it may raise, and so does a
\* component that has no entry: _generate_bundle() logs the latter and answers
\* as if the bundle was made.
Collect(p) ==
  /\ At(p, "collect") /\ call[p].todo # <<>>
  /\ \/ /\ \/ parts' = [parts EXCEPT ![call[p].bundle] = @ \cup {Head(call[p].todo)}]
           \/ UNCHANGED parts
        /\ call' = [call EXCEPT ![p].todo = Tail(@)]
     \/ End(p) /\ UNCHANGED parts
  /\ UNCHANGED <<file, cache, dirs, archive, packed, answered, crashes>>

\* The summary and the archive, then the clean-up of the directories whether
\* the archive was made or not.
PackSetting(p, failed) ==
  /\ At(p, "collect") /\ call[p].todo = <<>>
  /\ LET b == call[p].bundle IN
     /\ \/ /\ archive' = [archive EXCEPT ![b] = parts[b]]
           /\ packed' = [packed EXCEPT ![b] = @ + 1]
           /\ call' = [call EXCEPT ![p].step = "reload", ![p].status = "Success"]
        \/ /\ UNCHANGED <<archive, packed>>
           /\ call' = [call EXCEPT ![p].step = "reload", ![p].status = failed]
     /\ parts' = [parts EXCEPT ![b] = {}]
  /\ UNCHANGED <<file, cache, dirs, answered, crashes>>

PackAlwaysFine(p) == PackSetting(p, "Success")
Pack(p) == PackSetting(p, "Failed")

\* Conf.load(fail_reload=False) drops the cache and reads the file again; an
\* exception is only logged.
Reload(p) ==
  /\ At(p, "reload")
  /\ IF file = Empty THEN End(p) /\ UNCHANGED cache
     ELSE cache' = [cache EXCEPT ![p] = file] /\ Goto(p, "end")
  /\ UNCHANGED <<file, disk, answered, crashes>>

Finish(p) ==
  /\ At(p, "end")
  /\ SetStatus(p, call[p].status) /\ file' = Empty
  /\ Goto(p, "saveEnd")
  /\ UNCHANGED <<disk, answered, crashes>>

-----------------------------------------------------------------------------
\* get_status(): from the cache, loaded once in the life of the process.
GetStatus(p, i) ==
  /\ At(p, "idle") /\ (cache[p] # None \/ file # Empty)
  /\ LET seen == IF cache[p] = None THEN file ELSE cache[p] IN
     /\ cache' = [cache EXCEPT ![p] = seen]
     /\ answered' = [answered EXCEPT ![p] = <<i, seen[i]>>]
  /\ UNCHANGED <<file, disk, call, crashes>>

\* A process dies and is started again.
Crash(p) ==
  /\ crashes < MaxCrashes /\ crashes' = crashes + 1
  /\ End(p)
  /\ cache' = [cache EXCEPT ![p] = None]
  /\ answered' = [answered EXCEPT ![p] = None]
  /\ UNCHANGED <<file, disk>>

Next ==
  \E p \in Process :
    \/ \E b \in Bundle, list \in Selections : MakeDir(p, b, list)
    \/ \E i \in Id : GetStatus(p, i)
    \/ LoadOnce(p) \/ Begin(p) \/ Save(p) \/ Collect(p) \/ Pack(p) \/ Reload(p)
    \/ Finish(p) \/ Crash(p)

Spec == Init /\ [][Next]_vars

-----------------------------------------------------------------------------
(* Properties.                                                             *)

(* Whatever processes write over each other's view of the file, and        *)
(* wherever they die: a status of success for an id, in the file, in a     *)
(* cache or in an answer, means that an archive was made for a bundle of   *)
(* that id, if not by the call one asks about then by one at another path; *)
(* and an archive is made once, so that no later call replaces it.         *)
Archived(i) == \E b \in Bundle : IdOf[b] = i /\ archive[b] # None

SuccessIsReal ==
  /\ \A b \in Bundle : packed[b] <= 1
  /\ \A i \in Id :
       (\/ file # Empty /\ file[i] = "Success"
        \/ \E p \in Process : \/ cache[p] # None /\ cache[p][i] = "Success"
                              \/ answered[p] = <<i, "Success">>)
         => Archived(i)

-----------------------------------------------------------------------------
(* Why SuccessIsReal holds: a process has Success to write only when it    *)
(* has packed the archive, archives stay, and no two calls have the same   *)
(* directory.                                                              *)

Components == UNION {{list[i] : i \in DOMAIN list} : list \in Selections}
Statuses == {"In-Progress", "Success", "Failed"}
Views == [Id -> Statuses \cup {None}]
Saving == {"begin", "save", "collect", "reload", "end", "saveEnd"}
Calls == [step : {"load"} \cup Saving, bundle : Bundle, todo : Seq(Components),
          status : Statuses \cup {None}]

TypeOK ==
  /\ file \in Views \cup {Empty} /\ cache \in [Process -> Views \cup {None}]
  /\ dirs \in SUBSET Bundle /\ packed \in [Bundle -> {0, 1}]
  /\ parts \in [Bundle -> SUBSET Components]
  /\ archive \in [Bundle -> (SUBSET Components) \cup {None}]
  /\ call \in [Process -> Calls \cup {Idle}]
  /\ answered \in [Process -> Id \X (Statuses \cup {None}) \cup {None}]

\* The successes that a view tells of are real.
Real(view) == \A i \in Id : view[i] = "Success" => Archived(i)

ProcessInv(p) ==
  /\ call[p].step \in Saving => cache[p] # None
  /\ call[p] # Idle /\ call[p].status = "Success" => archive[call[p].bundle] # None
  /\ cache[p] # None => Real(cache[p])
  /\ \A i \in Id : answered[p] = <<i, "Success">> => Archived(i)

\* A call has the directory for itself, and makes its archive last.
Early == {"load", "begin", "save", "collect"}
OneCallEach ==
  /\ \A b \in Bundle \ dirs : packed[b] = 0
  /\ \A p \in Process : call[p] # Idle =>
       /\ call[p].bundle \in dirs
       /\ call[p].step \in Early => packed[call[p].bundle] = 0
       /\ \A q \in Process \ {p} : call[q] # Idle => call[q].bundle # call[p].bundle

BundleInv ==
  /\ TypeOK
  /\ OneCallEach
  /\ file # Empty => Real(file)
  /\ \A p \in Process : ProcessInv(p)
=============================================================================

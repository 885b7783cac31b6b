------------------------------ MODULE DirStore ------------------------------
(***************************************************************************)
(* A configuration kept in a directory: DirKvStore and DirKvPayload behind *)
(* a ConfCache.  A key a>b is the file b in the directory a, written by    *)
(* set() at once; save() of changed data lists all keys, reads their       *)
(* values one after the other and writes them back, while other processes  *)
(* change the files.                                                       *)
(***************************************************************************)
EXTENDS Naturals, Sequences, FiniteSets

CONSTANTS
  Process,
  Key,        \* sequences of names
  Value,      \* strings of one length
  Start,      \* what the directory holds: key -> value
  None,
  MaxCalls, MaxCrashes

VARIABLES
  tree,       \* the directory: node -> Dir, or the contents of a file
  dirty,      \* dirty[p]: ConfCache._dirty
  call,       \* call[p]: the operation p is in
  meant,      \* what the calls that returned have made of each key
  risk,       \* keys that calls have changed at the same time, or left half-way
  calls, crashes

vars == <<tree, dirty, call, meant, risk, calls, crashes>>

Dir == "/"
Top == <<>>
Idle == [op |-> "none"]

\* The directory that a node is in, and those on the way to it.
Above(n) == {SubSeq(n, 1, i) : i \in 0..(Len(n) - 1)}
Parent(n) == SubSeq(n, 1, Len(n) - 1)

IsDir(t, n) == n \in DOMAIN t /\ t[n] = Dir
IsFile(t, n) == n \in DOMAIN t /\ t[n] # Dir
Put(t, n, content) == [m \in DOMAIN t \cup {n} |-> IF m = n THEN content ELSE t[m]]

\* get(), which raises for a directory; get_keys().
Content(t, k) == IF k \in DOMAIN t THEN t[k] ELSE None
GetKeys(t) == {k \in Key : IsFile(t, k)}

Init ==
  /\ tree = [n \in {Top} \cup UNION {{SubSeq(k, 1, i) : i \in 1..Len(k)} : k \in DOMAIN Start} |->
               IF n \in DOMAIN Start THEN Start[n] ELSE Dir]
  /\ dirty = [p \in Process |-> FALSE]
  /\ call = [p \in Process |-> Idle]
  /\ meant = [k \in Key |-> IF k \in DOMAIN Start THEN Start[k] ELSE None]
  /\ risk = {} /\ calls = 0 /\ crashes = 0

-----------------------------------------------------------------------------
(* The calls, with the keys that they touch (touch) and those of them that *)
(* others in progress touch too (shared).                                  *)

Touched(p) == IF call[p] = Idle THEN {} ELSE call[p].touch

\* p goes on with c, which touches the keys T.
Touch(p, c, T) ==
  call' = [q \in Process |->
    CASE q = p -> [c EXCEPT !.touch = T,
                            !.shared = T \cap UNION {Touched(r) : r \in Process \ {p}}]
      [] q # p /\ call[q] # Idle -> [call[q] EXCEPT !.shared = @ \cup (T \cap Touched(q))]
      [] OTHER -> call[q]]

Enter(p, op, step, k, v) ==
  /\ call[p] = Idle /\ calls < MaxCalls /\ calls' = calls + 1
  /\ Touch(p, [op |-> op, step |-> step, key |-> k, vals |-> [x \in {k} |-> v],
               todo |-> {}, linked |-> TRUE, touch |-> {}, shared |-> {}],
           IF op = "save" THEN {} ELSE {k})
  /\ UNCHANGED <<tree, dirty, meant, risk, crashes>>

Go(p, step) == call' = [call EXCEPT ![p].step = step]

\* The call returns, having made w of the keys; or it raises.
Return(p, w) ==
  /\ call' = [call EXCEPT ![p] = Idle]
  /\ meant' = [k \in Key |-> IF k \in DOMAIN w THEN w[k] ELSE meant[k]]
  /\ risk' = (risk \ DOMAIN w) \cup call[p].shared
  /\ dirty' = [dirty EXCEPT ![p] = call[p].op # "save"]

Raise(p) ==
  /\ call' = [call EXCEPT ![p] = Idle]
  /\ risk' = risk \cup call[p].shared
  /\ UNCHANGED <<meant, dirty>>

-----------------------------------------------------------------------------
(* set(), by itself and for each key of save().                            *)

Set(p, k, v) == Enter(p, "set", "mkdir", k, v)

MakeDirs(p) ==
  LET way == Above(call[p].key) IN
  /\ call[p] # Idle /\ call[p].step = "mkdir"
  /\ IF \E n \in way : IsFile(tree, n)
     THEN Raise(p) /\ UNCHANGED tree
     ELSE /\ tree' = [n \in DOMAIN tree \cup way |-> IF n \in way THEN Dir ELSE tree[n]]
          /\ Go(p, "open") /\ UNCHANGED <<meant, risk, dirty>>
  /\ UNCHANGED <<calls, crashes>>

Open(p) ==
  LET k == call[p].key IN
  /\ call[p] # Idle /\ call[p].step = "open"
  /\ IF IsDir(tree, k) \/ ~IsDir(tree, Parent(k))
     THEN Raise(p) /\ UNCHANGED tree
     ELSE /\ tree' = Put(tree, k, "")
          /\ call' = [call EXCEPT ![p].step = "write", ![p].linked = TRUE]
          /\ UNCHANGED <<meant, risk, dirty>>
  /\ UNCHANGED <<calls, crashes>>

\* Nothing is seen of what is written to a file deleted since, and a value None
\* raises, with the file empty.
Write(p) ==
  LET c == call[p]  k == c.key  v == c.vals[k] IN
  /\ c # Idle /\ c.step = "write"
  /\ IF v \notin {None, ""} /\ c.linked THEN tree' = Put(tree, k, v) ELSE UNCHANGED tree
  /\ CASE v = None -> Raise(p)
       [] v # None /\ c.op = "set" -> Return(p, c.vals)
       [] OTHER -> Go(p, "next") /\ UNCHANGED <<meant, risk, dirty>>
  /\ UNCHANGED <<calls, crashes>>

-----------------------------------------------------------------------------
(* delete(): the node is looked at, and then removed.                      *)

Delete(p, k) == Enter(p, "delete", "look", k, None)

\* A directory is not removed: without force delete() raises, and with force it
\* calls shutil.rmtree(), of a module that the file does not import.
Look(p) ==
  LET c == call[p] IN
  /\ c # Idle /\ c.step = "look"
  /\ CASE c.key \notin DOMAIN tree -> Return(p, [k \in c.touch |-> None])
       [] IsDir(tree, c.key) -> Raise(p)
       [] OTHER -> Go(p, "remove") /\ UNCHANGED <<meant, risk, dirty>>
  /\ UNCHANGED <<tree, calls, crashes>>

\* The file that p has removed is no longer the one that others write to.  It
\* raises if there is no file any more.
Removes(p, gone) ==
  LET c == call[p]
      after == [q \in Process |->
                  IF q # p /\ call[q] # Idle /\ call[q].key \in gone
                  THEN [call[q] EXCEPT !.linked = FALSE] ELSE call[q]]
  IN
  /\ c # Idle /\ c.step = "remove"
  /\ IF IsFile(tree, c.key)
     THEN /\ tree' = [n \in DOMAIN tree \ gone |-> tree[n]]
          /\ call' = [after EXCEPT ![p] = Idle]
          /\ meant' = [k \in Key |-> IF k \in c.touch THEN None ELSE meant[k]]
          /\ risk' = (risk \ c.touch) \cup c.shared
          /\ dirty' = [dirty EXCEPT ![p] = TRUE]
     ELSE Raise(p) /\ UNCHANGED tree
  /\ UNCHANGED <<calls, crashes>>

\* Mutant of RemoveNode: what is removed is the directory of the key.
RemoveKeyDir(p) ==
  Removes(p, {n \in DOMAIN tree : Parent(call[p].key) = SubSeq(n, 1, Len(call[p].key) - 1)})

RemoveNode(p) == Removes(p, {call[p].key})

-----------------------------------------------------------------------------
(* save()                                                                  *)

\* Nothing is done unless the data has changed; else all keys are listed.
Save(p) == dirty[p] /\ Enter(p, "save", "list", Top, None)

List(p) ==
  /\ call[p] # Idle /\ call[p].step = "list"
  /\ Touch(p, [call[p] EXCEPT !.step = "read", !.vals = <<>>, !.todo = GetKeys(tree)],
           GetKeys(tree))
  /\ UNCHANGED <<tree, dirty, meant, risk, calls, crashes>>

\* A file that is gone by now reads as None, or fails to be opened.
Read(p) ==
  LET c == call[p]  left == c.todo \ DOMAIN c.vals IN
  /\ c # Idle /\ c.step = "read"
  /\ IF left = {} THEN Go(p, "next") /\ UNCHANGED <<meant, risk, dirty>>
     ELSE \E k \in left :
            \/ /\ ~IsDir(tree, k)
               /\ call' = [call EXCEPT ![p].vals = Put(c.vals, k, Content(tree, k))]
               /\ UNCHANGED <<meant, risk, dirty>>
            \/ ~IsFile(tree, k) /\ Raise(p)
  /\ UNCHANGED <<tree, calls, crashes>>

WriteNext(p) ==
  LET c == call[p] IN
  /\ c # Idle /\ c.step = "next"
  /\ IF c.todo = {} THEN Return(p, <<>>)
     ELSE \E k \in c.todo :
            /\ call' = [call EXCEPT ![p].key = k, ![p].todo = c.todo \ {k}, ![p].step = "mkdir"]
            /\ UNCHANGED <<meant, risk, dirty>>
  /\ UNCHANGED <<tree, calls, crashes>>

-----------------------------------------------------------------------------
\* The process ends within a call: what it touches is left as it is.
Crash(p) ==
  /\ call[p] # Idle /\ crashes < MaxCrashes /\ crashes' = crashes + 1
  /\ call' = [call EXCEPT ![p] = Idle]
  /\ risk' = risk \cup call[p].touch
  /\ dirty' = [dirty EXCEPT ![p] = FALSE]
  /\ UNCHANGED <<tree, meant, calls>>

Next ==
  \E p \in Process :
    \/ \E k \in Key : \/ \E v \in Value : Set(p, k, v)
                      \/ Delete(p, k)
    \/ MakeDirs(p) \/ Open(p) \/ Write(p) \/ Look(p) \/ RemoveNode(p)
    \/ Save(p) \/ List(p) \/ Read(p) \/ WriteNext(p) \/ Crash(p)

Spec == Init /\ [][Next]_vars

-----------------------------------------------------------------------------
(* Properties.                                                             *)

(* A key that calls have not changed side by side, and that no call was    *)
(* interrupted at, holds what the last call that returned has made of it:  *)
(* a call that raises changes none, and so does a delete() of a directory, *)
(* forced or not, and a save(), which writes all keys.  (Beside a save()   *)
(* both may be lost: a set() is overwritten, and what is deleted comes     *)
(* back.)  A file or a directory is in a directory.                        *)
KeysSettled ==
  /\ \A k \in Key \ risk :
       (\A p \in Process : k \notin Touched(p)) =>
         IF IsDir(tree, k) THEN meant[k] = None ELSE Content(tree, k) = meant[k]
  /\ \A n \in DOMAIN tree \ {Top} : IsDir(tree, Parent(n))

-----------------------------------------------------------------------------
(* Why they hold.  A key that is not at risk, and that nobody shares or is *)
(* about to write, is settled.  Whoever is alone with a key finds it as it *)
(* has left it: the file that it has opened, or the value that it has read.*)

Name == UNION {{k[i] : i \in DOMAIN k} : k \in Key}

TreeInv ==
  /\ tree = [n \in DOMAIN tree |-> tree[n]]
  /\ \A n \in DOMAIN tree : /\ n \in Seq(Name) /\ tree[n] \in Value \cup {"", Dir}
                            /\ \A m \in Above(n) : IsDir(tree, m)

Settled(k) == IF IsDir(tree, k) THEN meant[k] = None ELSE Content(tree, k) = meant[k]
Shares(c, k) == c # Idle /\ k \in c.shared
Writes(c, k) == c # Idle /\ c.step = "write" /\ c.key = k

SettledInv ==
  \A k \in Key \ risk :
    (\A p \in Process : ~Shares(call[p], k) /\ ~Writes(call[p], k)) => Settled(k)

CallType(c) ==
  /\ c = [op |-> c.op, step |-> c.step, key |-> c.key, vals |-> c.vals, todo |-> c.todo,
          linked |-> c.linked, touch |-> c.touch, shared |-> c.shared]
  /\ c.touch \subseteq Key /\ c.shared \subseteq c.touch
  /\ c.step \notin {"list", "read", "next"} => c.key \in c.touch
  /\ c.op = "set" => /\ c.step \in {"mkdir", "open", "write"}
                     /\ DOMAIN c.vals = {c.key} /\ c.vals[c.key] \in Value
  /\ c.op = "delete" => /\ c.step \in {"look", "remove"} /\ c.touch = {c.key}
  /\ c.op = "save" => /\ c.step \in {"list", "read", "next", "mkdir", "open", "write"}
                      /\ c.step = "list" => c.touch = {}
                      /\ c.step = "read" => c.todo = c.touch
                      /\ c.step \notin {"list", "read"} =>
                           c.touch \subseteq DOMAIN c.vals /\ c.todo \subseteq c.touch
                      /\ c.step # "list" =>
                           \A k \in DOMAIN c.vals : c.vals[k] \in Value \cup {"", None}
  /\ c.op \in {"set", "delete", "save"}

\* What a call that is alone with k knows of it.
Alone(c, k) ==
  /\ Writes(c, k) => c.linked /\ IsFile(tree, k) /\ tree[k] = ""
  /\ c.op = "save" =>
       /\ IsFile(tree, k)
       /\ k \in DOMAIN c.vals =>
            IF Writes(c, k) THEN c.vals[k] # None /\ (k \notin risk => c.vals[k] = meant[k])
                            ELSE c.vals[k] = tree[k]

CallInv(c) ==
  /\ CallType(c)
  /\ c.step = "write" /\ c.linked => IsFile(tree, c.key)
  /\ \A k \in c.touch \ c.shared : Alone(c, k)

DirInv ==
  /\ TreeInv /\ SettledInv
  /\ meant = [k \in Key |-> meant[k]] /\ call = [p \in Process |-> call[p]]
  /\ \A p \in Process : call[p] # Idle => CallInv(call[p])
  /\ \A p, q \in Process : p # q => Touched(p) \cap Touched(q) \subseteq
                                     IF call[p] = Idle THEN {} ELSE call[p].shared
=============================================================================

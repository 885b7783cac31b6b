----------------------------- MODULE ConfStore -----------------------------
(***************************************************************************)
(* ConfStore, ConfCache and the KvStore backends below them: processes     *)
(* load configurations under an index, change the copy in memory, and save *)
(* it back as a whole.  A dump opens the file for writing, which empties   *)
(* it, and then writes it: a process may die in between.                   *)
(*                                                                         *)
(* Keys are leaf keys (KvPayload's nesting is left out), and None stands   *)
(* for a key that is absent or null, which get() and get_keys() do not     *)
(* tell apart.                                                             *)
(***************************************************************************)
EXTENDS Naturals

CONSTANTS
  Proc,      \* processes, each with its own Conf singleton
  Index,     \* the indexes a process loads configurations under
  Url,       \* backend stores
  Key, Value,
  None,      \* no value; also: index not loaded, no dump under way
  Falsy,     \* the values Python takes for false ("" and 0)
  Kind,      \* Kind[u]: "json", "yaml" (or toml), "ini" or "dict"
  UrlOf      \* UrlOf[p][i]: what p loads under i

ASSUME ConstantsAssumption ==
  /\ None \notin Value /\ None \notin Url /\ None \notin Index
  /\ Falsy \subseteq Value
  /\ Kind \in [Url -> {"json", "yaml", "ini", "dict"}]
  /\ UrlOf \in [Proc -> [Index -> Url]]

VARIABLES
  disk,      \* disk[u]: what the file holds, or for a dict the text of its URL
  torn,      \* stores emptied by a dump that did not finish
  loaded,    \* loaded[p]: the indexes in ConfStore._cache
  data,      \* data[p][i]: the KvPayload of the index
  parser,    \* parser[p][u]: IniKvStore._config, shared by its payloads
  dirty,     \* dirty[p]: the indexes with ConfCache._dirty set
  dumped,    \* dumped[p]: DictKvStores whose _store_path dump() replaced
  dumping    \* dumping[p]: the index whose file p has emptied, or None

vars == <<disk, torn, loaded, data, parser, dirty, dumped, dumping>>

Config == [Key -> Value \cup {None}]
Empty == [k \in Key |-> None]

TypeOK ==
  /\ disk \in [Url -> Config]
  /\ torn \subseteq Url
  /\ loaded \in [Proc -> SUBSET Index]
  /\ data \in [Proc -> [Index -> Config]]
  /\ parser \in [Proc -> [Url -> Config]]
  /\ dirty \in [Proc -> SUBSET Index]
  /\ dumped \in [Proc -> SUBSET Url]
  /\ dumping \in [Proc -> Index \cup {None}]

Init ==
  /\ disk \in [Url -> Config]
  /\ torn = {}
  /\ loaded = [p \in Proc |-> {}]
  /\ data = [p \in Proc |-> [i \in Index |-> Empty]]
  /\ parser = [p \in Proc |-> [u \in Url |-> Empty]]
  /\ dirty = [p \in Proc |-> {}]
  /\ dumped = [p \in Proc |-> {}]
  /\ dumping = [p \in Proc |-> None]

\* The payload behind an index: an IniKvPayload holds the store's parser.
Payload(p, i) ==
  LET u == UrlOf[p][i]
  IN  IF Kind[u] = "ini" THEN parser[p][u] ELSE data[p][i]

\* get_keys()
Keys(c) == {k \in Key : c[k] # None}

\* c overridden by the values d has for the keys in S.
Overlay(c, d, S) == [k \in Key |-> IF k \in S THEN d[k] ELSE c[k]]

SetPayload(p, i, c) ==
  LET u == UrlOf[p][i]
  IN  IF Kind[u] = "ini"
      THEN parser' = [parser EXCEPT ![p][u] = c] /\ UNCHANGED data
      ELSE data' = [data EXCEPT ![p][i] = c] /\ UNCHANGED parser

\* ConfCache.set() or delete(): the payload becomes c, and the cache is dirty.
Change(p, i, c) ==
  /\ SetPayload(p, i, c)
  /\ dirty' = [dirty EXCEPT ![p] = @ \cup {i}]
  /\ UNCHANGED <<disk, torn, loaded, dumped, dumping>>

-----------------------------------------------------------------------------
(* Operations                                                              *)

\* Whether the store can be read: JSON cannot be parsed from an empty file,
\* and after a dump DictKvStore hands a dict to json.loads().
Readable(p, u) ==
  /\ Kind[u] = "json" => u \notin torn
  /\ Kind[u] = "dict" => u \notin dumped[p]

\* What a store that can be read loads: ConfigParser.read() adds to what the
\* parser holds already.
Read(p, u) ==
  IF Kind[u] = "ini" THEN Overlay(parser[p][u], disk[u], Keys(disk[u]))
                     ELSE disk[u]

\* load(): an index loaded before is skipped or refused, with no effect, or
\* loaded again into a new and clean ConfCache.  A store that cannot be read
\* makes it raise before anything has changed.
Load(p, i, skipReload, failReload) ==
  LET u == UrlOf[p][i]
  IN  /\ dumping[p] = None
      /\ i \in loaded[p] => ~skipReload /\ ~failReload
      /\ Readable(p, u)
      /\ loaded' = [loaded EXCEPT ![p] = @ \cup {i}]
      /\ SetPayload(p, i, Read(p, u))
      /\ dirty' = [dirty EXCEPT ![p] = @ \ {i}]
      /\ UNCHANGED <<disk, torn, dumped, dumping>>

\* Mutant of Set: the cache is not marked dirty.
SetClean(p, i, k, v) ==
  /\ dumping[p] = None /\ i \in loaded[p]
  /\ data' = [data EXCEPT ![p][i][k] = v]
  /\ UNCHANGED <<disk, torn, loaded, parser, dirty, dumped, dumping>>

Set(p, i, k, v) ==
  /\ dumping[p] = None /\ i \in loaded[p]
  /\ Change(p, i, [Payload(p, i) EXCEPT ![k] = v])

\* delete() marks the cache dirty even when there was nothing to delete.
Delete(p, i, k) ==
  /\ dumping[p] = None /\ i \in loaded[p]
  /\ Change(p, i, [Payload(p, i) EXCEPT ![k] = None])

\* copy() sets every key of the list, or every key of the source.
Copy(p, src, dst, S) ==
  /\ dumping[p] = None /\ {src, dst} \subseteq loaded[p]
  /\ S \subseteq Keys(Payload(p, src)) /\ S # {}
  /\ Change(p, dst, Overlay(Payload(p, dst), Payload(p, src), S))

\* merge() sets the keys the destination lacks, and refuses a list with a key
\* whose value in the source is false.
Merge(p, src, dst, S) ==
  LET new == S \ Keys(Payload(p, dst))
  IN  /\ dumping[p] = None /\ {src, dst} \subseteq loaded[p]
      /\ \/ S = Keys(Payload(p, src))
         \/ \A k \in S : Payload(p, src)[k] \notin Falsy \cup {None}
      /\ new # {}
      /\ Change(p, dst, Overlay(Payload(p, dst), Payload(p, src), new))

\* save() of a dirty index begins with opening the file, which empties it; a
\* DictKvStore keeps the payload's dict instead.
BeginSave(p, i) ==
  LET u == UrlOf[p][i]
  IN  /\ dumping[p] = None /\ i \in loaded[p] /\ i \in dirty[p]
      /\ IF Kind[u] = "dict"
         THEN /\ dumped' = [dumped EXCEPT ![p] = @ \cup {u}]
              /\ dirty' = [dirty EXCEPT ![p] = @ \ {i}]
              /\ UNCHANGED <<disk, torn, dumping>>
         ELSE /\ disk' = [disk EXCEPT ![u] = Empty]
              /\ torn' = torn \cup {u}
              /\ dumping' = [dumping EXCEPT ![p] = i]
              /\ UNCHANGED <<dumped, dirty>>
      /\ UNCHANGED <<loaded, data, parser>>

EndSave(p) ==
  LET i == dumping[p]
      u == UrlOf[p][i]
  IN  /\ i # None
      /\ disk' = [disk EXCEPT ![u] = Payload(p, i)]
      /\ torn' = torn \ {u}
      /\ dirty' = [dirty EXCEPT ![p] = @ \ {i}]
      /\ dumping' = [dumping EXCEPT ![p] = None]
      /\ UNCHANGED <<loaded, data, parser, dumped>>

\* The process dies and starts again with nothing loaded.
Crash(p) ==
  /\ loaded' = [loaded EXCEPT ![p] = {}]
  /\ data' = [data EXCEPT ![p] = [i \in Index |-> Empty]]
  /\ parser' = [parser EXCEPT ![p] = [u \in Url |-> Empty]]
  /\ dirty' = [dirty EXCEPT ![p] = {}]
  /\ dumped' = [dumped EXCEPT ![p] = {}]
  /\ dumping' = [dumping EXCEPT ![p] = None]
  /\ UNCHANGED <<disk, torn>>

Next ==
  \E p \in Proc :
    \/ \E i \in Index :
         \/ \E skip, fail \in BOOLEAN : Load(p, i, skip, fail)
         \/ \E k \in Key : Delete(p, i, k) \/ \E v \in Value : Set(p, i, k, v)
         \/ \E j \in Index \ {i}, S \in SUBSET Key : Copy(p, i, j, S) \/ Merge(p, i, j, S)
         \/ BeginSave(p, i)
    \/ EndSave(p)
    \/ Crash(p)

Spec == Init /\ [][Next]_vars

-----------------------------------------------------------------------------
(* Properties                                                              *)

\* Whether payload c says what a store of some kind holds.  An INI payload may
\* say more: a reload keeps what was set before and not saved.
Agrees(kind, c, d) ==
  IF kind = "ini" THEN \A k \in Keys(d) : c[k] = d[k] ELSE c = d

\* A loaded index that is not dirty is what its file holds, so that save()
\* may skip it (ConfCache.dump(), conf_cache.py lines 49-53).
CleanIsSaved ==
  \A p \in Proc : \A i \in loaded[p] \ dirty[p] :
    LET u == UrlOf[p][i]
    IN  Kind[u] # "dict" => Agrees(Kind[u], Payload(p, i), disk[u])

-----------------------------------------------------------------------------
(* The condition and the inductive invariant of ConfStoreProofs.           *)

\* No store is loaded twice.
Private ==
  \A p, q \in Proc : \A i, j \in Index :
    UrlOf[p][i] = UrlOf[q][j] => p = q /\ i = j

\* A file is emptied only for an index that is loaded and dirty until the
\* file is written.
DumpingIsDirty ==
  \A p \in Proc : dumping[p] # None => dumping[p] \in loaded[p] \cap dirty[p]
=============================================================================

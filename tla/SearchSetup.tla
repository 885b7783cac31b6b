---------------------------- MODULE SearchSetup ----------------------------
(***************************************************************************)
(* The phases of elasticsearch_setup on a node.  post_install takes the    *)
(* security plugin and its section of elasticsearch.yml away; config keeps *)
(* a backup of the file, or starts again from the backup, and appends the  *)
(* entries of the cluster; cleanup puts the backup back.  Files are copied *)
(* and written in place: a phase killed in the middle leaves them torn.    *)
(***************************************************************************)
EXTENDS Naturals

CONSTANTS MaxPhases, None

VARIABLES
  plugin,     \* the directory of the plugin is there
  file,       \* elasticsearch.yml: all of the shipped text?  the section of the
              \*   plugin?  how many times the entries of the cluster?
  bkp,        \* elasticsearch.yml.bkp: the same, or None
  rsyslog,    \* rsyslog.conf loads omelasticsearch
  step,       \* the next step of the phase under way
  done,       \* the phase that completed last
  lost,       \* a kill tore the only copy of the shipped text
  halfway,    \* a post_install ended between the plugin and its section
  phases

vars == <<plugin, file, bkp, rsyslog, step, done, lost, halfway, phases>>

Torn == [shipped |-> FALSE, security |-> FALSE, entries |-> 0]

Init ==
  /\ plugin = TRUE
  /\ file = [shipped |-> TRUE, security |-> TRUE, entries |-> 0]
  /\ bkp = None /\ rsyslog = FALSE
  /\ step = "idle" /\ done = "none"
  /\ lost = FALSE /\ halfway = FALSE /\ phases = 0

Enter(next) ==
  /\ step = "idle" /\ phases < MaxPhases
  /\ phases' = phases + 1 /\ step' = next /\ done' = "none"

Complete(phase) == step' = "idle" /\ done' = phase

-----------------------------------------------------------------------------
(* post_install().                                                         *)

PostInstall ==
  /\ Enter("section")
  /\ plugin' = FALSE
  /\ UNCHANGED <<file, bkp, rsyslog, lost, halfway>>

\* The file is read, opened for writing and written without the section.
OpenFile ==
  /\ step = "section"
  /\ file' = [file EXCEPT !.shipped = FALSE]
  /\ step' = IF file.shipped THEN "unsection" ELSE "unsectionTorn"
  /\ UNCHANGED <<plugin, bkp, rsyslog, done, lost, halfway, phases>>

WriteSection ==
  /\ step \in {"unsection", "unsectionTorn"}
  /\ file' = [file EXCEPT !.security = FALSE, !.shipped = (step = "unsection")]
  /\ Complete("post_install")
  /\ UNCHANGED <<plugin, bkp, rsyslog, lost, halfway, phases>>

-----------------------------------------------------------------------------
(* config(), which validate() lets run when the plugin is gone.            *)

Config ==
  /\ ~plugin
  /\ Enter(IF bkp = None THEN "backup" ELSE "restore")
  /\ UNCHANGED <<plugin, file, bkp, rsyslog, lost, halfway>>

\* config() that always begins with what the file is.
BeginCopyAlways ==
  /\ step \in {"backup", "restore"} /\ bkp' = Torn /\ step' = "backing"
  /\ UNCHANGED <<plugin, file, rsyslog, done, lost, halfway, phases>>

\* copyfile() empties its target first.
BeginCopy ==
  \/ /\ step = "backup" /\ bkp' = Torn /\ step' = "backing"
     /\ UNCHANGED <<plugin, file, rsyslog, done, lost, halfway, phases>>
  \/ /\ step = "restore" /\ file' = Torn /\ step' = "restoring"
     /\ UNCHANGED <<plugin, bkp, rsyslog, done, lost, halfway, phases>>

EndCopy ==
  \/ /\ step = "backing" /\ bkp' = file /\ step' = "append"
     /\ UNCHANGED <<plugin, file, rsyslog, done, lost, halfway, phases>>
  \/ /\ step = "restoring" /\ file' = bkp /\ step' = "append"
     /\ UNCHANGED <<plugin, bkp, rsyslog, done, lost, halfway, phases>>

\* get_config_entries() and the entries, at the end of the file.
Append ==
  /\ step = "append"
  /\ file' = [file EXCEPT !.entries = @ + 1]
  /\ step' = "rsyslog"
  /\ UNCHANGED <<plugin, bkp, rsyslog, done, lost, halfway, phases>>

\* The module is loaded once; a restart that fails is only logged.
LoadModule ==
  /\ step = "rsyslog"
  /\ rsyslog' = TRUE
  /\ Complete("config")
  /\ UNCHANGED <<plugin, file, bkp, lost, halfway, phases>>

-----------------------------------------------------------------------------
(* cleanup(): nothing without a backup.                                    *)

Cleanup ==
  /\ IF bkp = None
     THEN /\ step = "idle" /\ phases < MaxPhases /\ phases' = phases + 1
          /\ step' = "idle" /\ done' = "cleanup"
     ELSE Enter("putBack")
  /\ UNCHANGED <<plugin, file, bkp, rsyslog, lost, halfway>>

BeginPutBack ==
  /\ step = "putBack"
  /\ file' = Torn /\ step' = "puttingBack"
  /\ UNCHANGED <<plugin, bkp, rsyslog, done, lost, halfway, phases>>

EndPutBack ==
  /\ step = "puttingBack"
  /\ file' = bkp /\ step' = "deleteBkp"
  /\ UNCHANGED <<plugin, bkp, rsyslog, done, lost, halfway, phases>>

DeleteBkp ==
  /\ step = "deleteBkp"
  /\ bkp' = None
  /\ Complete("cleanup")
  /\ UNCHANGED <<plugin, file, rsyslog, lost, halfway, phases>>

\* A phase is killed.
Fail ==
  /\ step # "idle"
  /\ step' = "idle"
  /\ lost' = (lost \/ step = "backing" \/ (step = "unsection" /\ bkp = None))
  /\ halfway' = (halfway \/ step \in {"section", "unsection", "unsectionTorn"})
  /\ UNCHANGED <<plugin, file, bkp, rsyslog, done, phases>>

Next ==
  \/ PostInstall \/ OpenFile \/ WriteSection
  \/ Config \/ BeginCopy \/ EndCopy \/ Append \/ LoadModule
  \/ Cleanup \/ BeginPutBack \/ EndPutBack \/ DeleteBkp \/ Fail

Spec == Init /\ [][Next]_vars

-----------------------------------------------------------------------------
(* Properties.                                                             *)

(* However often the phases run and wherever they are killed, short of     *)
(* tearing the only copy: after config the file is all there, with the     *)
(* entries of the cluster once, after cleanup it is all there without      *)
(* them; the section of the security plugin is in neither, unless a        *)
(* post_install ended before it took the section away.                     *)
EntriesOnce ==
  /\ ~lost /\ done \in {"config", "cleanup"} =>
       file.shipped /\ file.entries = (IF done = "config" THEN 1 ELSE 0)
  /\ ~halfway /\ done = "config" => ~file.security

-----------------------------------------------------------------------------
(* Why EntriesOnce holds: until a kill tears the only copy, the backup is  *)
(* whole or there is none and the file is, and the steps between know      *)
(* which.                                                                  *)

Text == [shipped : BOOLEAN, security : BOOLEAN, entries : Nat]
Whole(text, n) == text.shipped /\ text.entries = n
Editing == {"section", "unsection", "unsectionTorn"}
Configuring == {"backup", "backing", "restore", "restoring", "append", "rsyslog"}

TypeOK ==
  /\ file \in Text /\ bkp \in Text \cup {None}
  /\ plugin \in BOOLEAN /\ lost \in BOOLEAN /\ halfway \in BOOLEAN
  /\ step # "idle" => done = "none"
  /\ step = "backup" => bkp = None
  /\ step \in {"backing", "restore", "restoring", "append", "rsyslog", "putBack",
              "puttingBack", "deleteBkp"} => bkp # None

CopyKept ==
  ~lost =>
    /\ bkp = None => /\ file.entries = 0 /\ step # "unsectionTorn"
                     /\ file.shipped \/ step = "unsection"
    /\ bkp # None /\ step # "backing" => Whole(bkp, 0)
    /\ step \in {"backing", "append", "deleteBkp"} => Whole(file, 0)
    /\ step = "rsyslog" => Whole(file, 1)
    /\ done = "config" => Whole(file, 1) /\ bkp # None
    /\ done = "cleanup" => Whole(file, 0)

SectionGone ==
  /\ step \in Editing => ~plugin
  /\ ~halfway =>
       /\ step \in Configuring \/ done = "config" \/ bkp # None => ~plugin
       /\ ~plugin /\ step \notin Editing => ~file.security
       /\ bkp # None => ~bkp.security

SearchInv == TypeOK /\ CopyKept /\ SectionGone
=============================================================================

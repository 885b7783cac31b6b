---------------------------- MODULE MCConfLock ----------------------------
(***************************************************************************)
(* Small instances of ConfLock.  The durations are those of the callers:   *)
(* all alike (the default, as in the tests), or one of them much shorter.  *)
(***************************************************************************)
EXTENDS ConfLock

CONSTANTS D,        \* the duration everybody passes,
          Short,    \* except these processes,
          ShortD    \* who pass this one

MCDuration == [p \in Proc |-> IF p \in Short THEN ShortD ELSE D]
=============================================================================

-------------------------- MODULE MCMessageChannel --------------------------
(* Instances of MessageChannel: receivers of every type in a group with      *)
(* manual acknowledgement and one with auto_ack, and REST requests.          *)
EXTENDS MessageChannel, TLC

CONSTANTS g1, g2, r1, r2, r3

\* r1 and r2 share a group and acknowledge, r3 does not.
Both == LET manual == [types |-> Type, group |-> g1, auto |-> FALSE]
            auto == [types |-> Type, group |-> g2, auto |-> TRUE]
        IN  r1 :> {manual} @@ r2 :> {manual} @@ r3 :> {auto}

NoRequest == [r \in Receiver |-> {}]

\* The REST server: one consumer, auto_ack, a type named by each request.
Rest == [r \in Receiver |-> {[types |-> {t}, group |-> g1, auto |-> TRUE] : t \in Type}]

\* Senders and types are interchangeable.
Symmetry == Permutations(Sender) \cup Permutations(Type)
=============================================================================

---------------------------- MODULE MCTopicAdmin ----------------------------
(* Instances of TopicAdmin: two processes of one thread each, or one.        *)
EXTENDS TopicAdmin, TLC

CONSTANTS th1, th2, pr1, pr2

TwoProcesses == [th \in {th1, th2} |-> IF th = th1 THEN pr1 ELSE pr2]
OneProcess == [th \in Thread |-> pr1]

\* Message types are interchangeable, and so are processes with their threads.
Swap == th1 :> th2 @@ th2 :> th1 @@ pr1 :> pr2 @@ pr2 :> pr1
Same == [x \in {th1, th2, pr1, pr2} |-> x]
Symmetry == {p @@ q : p \in Permutations(Topic), q \in {Swap, Same}}
=============================================================================

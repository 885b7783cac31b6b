--------------------------- MODULE DecisionProofs ---------------------------
(***************************************************************************)
(* What an answer of get_resource_group_status() means, for any number of  *)
(* resources, monitors, alerts and calls.                                  *)
(***************************************************************************)
EXTENDS Decision, TLAPS

\* The part of TypeOK that the argument needs.
CallsOK ==
  /\ call \in [Monitor -> Call]
  /\ window \in [Monitor -> [failed : SUBSET Resource, fine : SUBSET Resource]]

\* A status call under way has no answer yet, and has seen every resource it has
\* passed in a state that was not failed.
PassedWereFine(m) ==
  call[m].op = "status" /\ call[m].step # "ended" =>
    /\ call[m].step = "status"
    /\ call[m].clean => \A i \in 1..(call[m].at - 1) : call[m].group[i] \in window[m].fine

AnswerTrue(m) ==
  Answered(m) =>
    /\ call[m].result = "failed" => Range(call[m].group) \cap window[m].failed # {}
    /\ call[m].clean /\ call[m].result # "failed" => Range(call[m].group) \subseteq window[m].fine

Sound(m) ==
  /\ call[m].step # "ended" => call[m].at <= Len(call[m].group)
  /\ PassedWereFine(m)
  /\ AnswerTrue(m)

Inv == CallsOK /\ \A m \in Monitor : Sound(m)

\* The window of a call that is not beginning only grows.
LEMMA WindowGrows ==
  ASSUME CallsOK, Observe, NEW m \in Monitor,
         ~(call[m].step = "ended" /\ call'[m].step # "ended")
  PROVE  /\ window[m].failed \subseteq window'[m].failed
         /\ window[m].fine \subseteq window'[m].fine
BY DEF Observe, Both, CallsOK

\* A call under way sees every state that follows.
LEMMA WindowSees ==
  ASSUME CallsOK, Observe, NEW m \in Monitor, call[m].step # "ended", NEW r \in Resource
  PROVE  /\ Failed(r)' => r \in window'[m].failed
         /\ Fine(r)' => r \in window'[m].fine
BY DEF Observe, Both, Seen

\* The window stays well typed.
LEMMA WindowType ==
  ASSUME CallsOK, Observe
  PROVE  window' \in [Monitor -> [failed : SUBSET Resource, fine : SUBSET Resource]]
BY DEF Observe, Both, Seen, CallsOK

\* A monitor whose call does not change stays sound: its window only grows.
LEMMA OthersKeep ==
  ASSUME Inv, Observe, NEW m \in Monitor, call'[m] = call[m]
  PROVE  Sound(m)'
<1>1. /\ window[m].failed \subseteq window'[m].failed
      /\ window[m].fine \subseteq window'[m].fine
  BY WindowGrows DEF Inv
<1> QED
  BY <1>1 DEF Inv, CallsOK, Sound, PassedWereFine, AnswerTrue, Answered, Range

\* A step that changes the call of m at most, and leaves that one sound.
LEMMA OneCall ==
  ASSUME Inv, Observe, NEW m \in Monitor, NEW c \in Call,
         call' = [call EXCEPT ![m] = c], Sound(m)'
  PROVE  Inv'
<1>1. CallsOK'
  BY WindowType DEF Inv, CallsOK
<1>2. ASSUME NEW n \in Monitor PROVE Sound(n)'
  <2>1. CASE n = m
    BY <2>1
  <2>2. CASE n # m
    BY <2>2, OthersKeep DEF Inv, CallsOK
  <2> QED
    BY <2>1, <2>2
<1> QED
  BY <1>1, <1>2 DEF Inv

\* The group of a call is a sequence of resources.
LEMMA GroupType ==
  ASSUME NEW c \in Call
  PROVE  c.group \in Seq(Resource)
<1>1. c.group \in Group \cup {<<>>}
  BY DEF Call
<1>2. <<>> \in Seq(Resource)
  OBVIOUS
<1>3. Group \subseteq Seq(Resource)
  BY ConstantsAssumption
<1> QED
  BY <1>1, <1>2, <1>3

\* A call of which a request has failed.
Unclean(c) == [c EXCEPT !.clean = FALSE]

LEMMA AcknowledgedType ==
  ASSUME NEW c \in Call
  PROVE  Acknowledged(c) \in Call
<1> DEFINE a == c.at + 1
           s == IF c.at = Len(c.group) THEN "ended" ELSE "status"
<1>1. a \in Nat \ {0} /\ s \in Steps
  BY DEF Call, Steps
<1>2. Acknowledged(c) = [c EXCEPT !.at = a, !.keys = {}, !.step = s]
  BY DEF Acknowledged
<1> HIDE DEF a, s
<1> QED
  BY <1>1, <1>2 DEF Call

LEMMA AcknowledgedFields ==
  ASSUME NEW c \in Call
  PROVE  LET d == Acknowledged(c)
         IN  /\ d.op = c.op /\ d.at = c.at + 1 /\ d.group = c.group /\ d.clean = c.clean
             /\ d.step = IF c.at = Len(c.group) THEN "ended" ELSE "status"
<1> DEFINE t == IF c.at = Len(c.group) THEN "ended" ELSE "status"
<1>1. Acknowledged(c) = [c EXCEPT !.at = c.at + 1, !.keys = {}, !.step = t]
  BY DEF Acknowledged
<1> HIDE DEF t
<1>2. Acknowledged(c).op = c.op /\ Acknowledged(c).group = c.group
  BY <1>1 DEF Call
<1>3. Acknowledged(c).at = c.at + 1 /\ Acknowledged(c).clean = c.clean
  BY <1>1 DEF Call
<1>4. Acknowledged(c).step = t
  BY <1>1 DEF Call
<1> QED
  BY <1>2, <1>3, <1>4 DEF t

\* What the loop of get_resource_group_status() makes of a call.
LEMMA StatusesType ==
  ASSUME NEW c \in Call, NEW s \in Action \cup {"ok"}
  PROVE  Statuses(c, s) \in Call
<1> DEFINE a == c.at + 1
           n == c.seen \cup {s}
           t == IF "resolved" \in n THEN "resolved" ELSE "ok"
<1>1. /\ a \in Nat \ {0} /\ n \in SUBSET (Action \cup {"ok"})
      /\ t \in Action \cup {"ok", None} /\ s \in Action \cup {"ok", None}
      /\ "ended" \in Steps
  BY DEF Call, Steps, Action
<1>2. \/ Statuses(c, s) = [c EXCEPT !.step = "ended", !.result = s]
      \/ Statuses(c, s) = [c EXCEPT !.at = a, !.seen = n]
      \/ Statuses(c, s) = [c EXCEPT !.at = a, !.seen = n, !.step = "ended", !.result = t]
  BY DEF Statuses
<1> HIDE DEF a, n, t
<1> QED
  BY <1>1, <1>2 DEF Call

\* On to the next resource of an acknowledgement.
LEMMA AcknowledgedKeeps ==
  ASSUME Inv, Observe, NEW m \in Monitor, NEW c, c \in {call[m], Unclean(call[m])},
         call[m].op # "status", call[m].step # "ended",
         call' = [call EXCEPT ![m] = Acknowledged(c)]
  PROVE  Inv'
<1>0. call[m] \in Call
  BY DEF Inv, CallsOK
<1>1. /\ c \in Call /\ c.op = call[m].op /\ c.at = call[m].at /\ c.group = call[m].group
      /\ c.group \in Seq(Resource) /\ call[m].at <= Len(c.group)
  <2>1. c \in Call /\ c.op = call[m].op /\ c.at = call[m].at /\ c.group = call[m].group
    BY <1>0 DEF Unclean, Call
  <2> QED
    BY <2>1, GroupType DEF Inv, Sound
<1>2. Acknowledged(c) \in Call
  BY <1>1, AcknowledgedType
<1>3. Sound(m)'
  <2>1. call'[m] = Acknowledged(c)
    BY DEF Inv, CallsOK
  <2>2. /\ call'[m].op # "status" /\ call'[m].at = c.at + 1 /\ call'[m].group = c.group
        /\ call'[m].step = IF c.at = Len(c.group) THEN "ended" ELSE "status"
    BY <1>1, <2>1, AcknowledgedFields
  <2> QED
    BY <1>1, <2>2 DEF Sound, PassedWereFine, AnswerTrue, Answered, Call
<1> QED
  BY <1>2, <1>3, OneCall

\* The heart of the matter: a status read by a call under way is one its window
\* has seen.
LEMMA StatusesKeep ==
  ASSUME Inv, Observe, NEW m \in Monitor, call[m].op = "status", call[m].step = "status",
         NEW c, NEW s \in Action \cup {"ok"}, UNCHANGED events,
         \/ /\ c = call[m]
            /\ s \in Newest(Target(m)) \/ (s = "ok" /\ Newest(Target(m)) = {})
         \/ c = Unclean(call[m]) /\ s = "ok",
         call' = [call EXCEPT ![m] = Statuses(c, s)]
  PROVE  Inv'
<1>0. /\ c \in Call /\ c.group = call[m].group /\ c.at = call[m].at
      /\ c.op = "status" /\ c.step = "status"
      /\ c.clean => call[m].clean /\ c = call[m]
  <2>1. call[m] \in Call
    BY DEF Inv, CallsOK
  <2>2. CASE c = call[m]
    BY <2>1, <2>2
  <2>3. CASE c = Unclean(call[m])
    <3>1. ~c.clean
      BY <2>1, <2>3 DEF Unclean, Call
    <3> QED
      BY <2>1, <2>3, <3>1 DEF Unclean, Call
  <2> QED
    BY <2>2, <2>3
<1>1. c \in Call /\ c.group \in Seq(Resource) /\ c.at \in 1..Len(c.group)
  <2>1. c \in Call
    BY <1>0
  <2>2. c.group \in Seq(Resource) /\ c.at \in Nat \ {0}
    BY <2>1, GroupType DEF Call
  <2>3. c.at <= Len(c.group)
    BY <1>0 DEF Inv, Sound
  <2> QED
    BY <2>1, <2>2, <2>3
<1>2. PICK r \in Resource : r = Target(m) /\ r = c.group[c.at]
  BY <1>0, <1>1 DEF Target
<1>3. Statuses(c, s) \in Call
  BY <1>1, StatusesType
<1>4. call'[m] = Statuses(c, s) /\ call' = [call EXCEPT ![m] = Statuses(c, s)]
  BY <1>0 DEF Inv, CallsOK
<1>5. /\ window[m].failed \subseteq window'[m].failed
      /\ window[m].fine \subseteq window'[m].fine
  BY WindowGrows DEF Inv
<1>6. Newest(r)' = Newest(r)
  BY DEF Newest, Selected
<1>7. s = "failed" => r \in window'[m].failed
  BY <1>2, <1>6, WindowSees DEF Inv, Failed
<1>8. c.clean /\ s # "failed" => r \in window'[m].fine
  <2> SUFFICES ASSUME c.clean, s # "failed" PROVE r \in window'[m].fine
    OBVIOUS
  <2>1. Newest(r) # {"failed"}
    <3>1. ~Unclean(call[m]).clean
      BY DEF Inv, CallsOK, Call, Unclean
    <3>2. s \in Newest(r) \/ (s = "ok" /\ Newest(r) = {})
      BY <1>2, <3>1
    <3> QED
      BY <3>2
  <2> QED
    BY <2>1, <1>6, WindowSees DEF Inv, Fine
<1>9. CASE s = "failed"
  <2>1. Statuses(c, s) = [c EXCEPT !.step = "ended", !.result = s]
    BY <1>9 DEF Statuses
  <2>2. call'[m].group = c.group /\ call'[m].step = "ended" /\ call'[m].result = s
    BY <1>1, <1>4, <2>1 DEF Call
  <2>3. r \in Range(c.group)
    BY <1>1, <1>2 DEF Range
  <2>4. Sound(m)'
    BY <1>7, <1>9, <2>2, <2>3 DEF Sound, PassedWereFine, AnswerTrue, Range
  <2> QED
    BY <2>4, <1>3, <1>4, OneCall
<1>10. CASE s # "failed"
  <2>1. c.clean => \A i \in 1..c.at : c.group[i] \in window'[m].fine
    <3>1. c.clean => \A i \in 1..(c.at - 1) : c.group[i] \in window[m].fine
      BY <1>0 DEF Inv, Sound, PassedWereFine
    <3> QED
      BY <1>1, <1>2, <1>5, <1>8, <1>10, <3>1
  <2>2. CASE c.at < Len(c.group)
    <3>1. Statuses(c, s) = [c EXCEPT !.at = c.at + 1, !.seen = c.seen \cup {s}]
      BY <1>10, <2>2 DEF Statuses
    <3>2. /\ call'[m].group = c.group /\ call'[m].step = "status"
          /\ call'[m].at = c.at + 1 /\ call'[m].clean = c.clean
      BY <1>0, <1>1, <1>4, <3>1 DEF Call
    <3>3. Sound(m)'
      BY <2>1, <2>2, <3>2, <1>1 DEF Sound, PassedWereFine, AnswerTrue, Answered
    <3> QED
      BY <3>3, <1>3, <1>4, OneCall
  <2>3. CASE c.at = Len(c.group)
    <3> DEFINE t == IF "resolved" \in c.seen \cup {s} THEN "resolved" ELSE "ok"
    <3>0. t # "failed"
      OBVIOUS
    <3>1. Statuses(c, s) = [c EXCEPT !.at = c.at + 1, !.seen = c.seen \cup {s},
                                     !.step = "ended", !.result = t]
      BY <1>1, <1>10, <2>3 DEF Statuses
    <3> HIDE DEF t
    <3>2. /\ call'[m].group = c.group /\ call'[m].step = "ended"
          /\ call'[m].result # "failed" /\ call'[m].clean = c.clean
      <4>1. call'[m].group = c.group /\ call'[m].step = "ended" /\ call'[m].result = t
        BY <1>1, <1>4, <3>1 DEF Call
      <4>2. call'[m].clean = c.clean
        BY <1>1, <1>4, <3>1 DEF Call
      <4> QED
        BY <3>0, <4>1, <4>2
    <3>3. c.clean => Range(c.group) \subseteq window'[m].fine
      BY <2>1, <2>3 DEF Range
    <3>4. Sound(m)'
      BY <3>2, <3>3 DEF Sound, PassedWereFine, AnswerTrue, Range
    <3> QED
      BY <3>4, <1>3, <1>4, OneCall
  <2> QED
    BY <1>1, <2>2, <2>3
<1> QED
  BY <1>9, <1>10

\* What the calls of a monitor make of a status.
LEMMA AnswerKeeps ==
  ASSUME Inv, Observe, NEW m \in Monitor, call[m].step = "status",
         NEW c, NEW s \in Action \cup {"ok"}, UNCHANGED events,
         \/ /\ c = call[m]
            /\ s \in Newest(Target(m)) \/ (s = "ok" /\ Newest(Target(m)) = {})
         \/ c = Unclean(call[m]) /\ s = "ok",
         call' = [call EXCEPT ![m] = Answer(c, s)]
  PROVE  Inv'
<1>1. call[m] \in Call /\ c \in Call /\ c \in {call[m], Unclean(call[m])}
  <2>1. call[m] \in Call
    BY DEF Inv, CallsOK
  <2>2. Unclean(call[m]) \in Call
    BY <2>1 DEF Unclean, Call
  <2> QED
    BY <2>1, <2>2
<1>2. c.op = call[m].op /\ c.group = call[m].group /\ c.at = call[m].at
  BY <1>1 DEF Unclean, Call
<1>3. CASE call[m].op = "status"
  BY <1>2, <1>3, StatusesKeep DEF Answer
<1>4. CASE call[m].op # "status" /\ s = "failed"
  BY <1>1, <1>2, <1>4, AcknowledgedKeeps DEF Answer, Checked
<1>5. CASE call[m].op # "status" /\ s # "failed"
  <2> DEFINE d == [c EXCEPT !.step = "fetch"]
  <2>1. call' = [call EXCEPT ![m] = d]
    BY <1>2, <1>5 DEF Answer, Checked
  <2>2. d \in Call /\ d.op = c.op /\ d.step = "fetch" /\ d.at = c.at /\ d.group = c.group
    BY <1>1 DEF Call, Steps
  <2>3. call'[m] = d
    BY <2>1 DEF Inv, CallsOK
  <2> HIDE DEF d
  <2>4. Sound(m)'
    BY <1>2, <1>5, <2>2, <2>3 DEF Inv, Sound, PassedWereFine, AnswerTrue, Answered
  <2> QED
    BY <2>1, <2>2, <2>4, OneCall
<1> QED
  BY <1>3, <1>4, <1>5

\* Any step keeps the invariant: only the call whose step it is needs a look.
LEMMA InvStep ==
  ASSUME Inv, [Next]_vars
  PROVE  Inv'
<1>1. ASSUME Observe, UNCHANGED call PROVE Inv'
  <2>1. CallsOK'
    BY <1>1, WindowType DEF Inv, CallsOK
  <2>2. \A m \in Monitor : Sound(m)'
    BY <1>1, OthersKeep
  <2> QED
    BY <2>1, <2>2 DEF Inv
<1>2. ASSUME NEW m \in Monitor, NEW op \in Ops, NEW g \in Group, Begin(m, op, g) PROVE Inv'
  <2> DEFINE st == IF op = "force" THEN "fetch" ELSE "status"
             c == [op |-> op, step |-> st, group |-> g, at |-> 1, seen |-> {},
                   keys |-> {}, clean |-> TRUE, result |-> None]
  <2>1. Observe /\ call' = [call EXCEPT ![m] = c]
    BY <1>2 DEF Begin
  <2>2. c \in Call
    BY DEF Call, Ops, Steps
  <2>3. call'[m] = c
    BY <2>1 DEF Inv, CallsOK
  <2>4. Len(g) >= 1
    <3>1. g \in Seq(Resource) /\ g # <<>>
      BY ConstantsAssumption
    <3> QED
      BY <3>1
  <2>5. st # "ended" /\ (op = "status" => st = "status")
    OBVIOUS
  <2>6. Sound(m)'
    BY <2>3, <2>4, <2>5 DEF Sound, PassedWereFine, AnswerTrue, Answered
  <2> QED
    BY <2>1, <2>2, <2>6, OneCall
<1>3. ASSUME NEW m \in Monitor, GetStatus(m) PROVE Inv'
  <2>1. PICK s \in Action \cup {"ok"} :
          /\ s \in Newest(Target(m)) \/ (s = "ok" /\ Newest(Target(m)) = {})
          /\ call' = [call EXCEPT ![m] = Answer(call[m], s)]
    BY <1>3 DEF GetStatus
  <2>2. Observe /\ UNCHANGED events /\ call[m].step = "status"
    BY <1>3 DEF GetStatus
  <2> QED
    BY <2>1, <2>2, AnswerKeeps
<1>4. ASSUME NEW m \in Monitor, GetStatusFails(m) PROVE Inv'
  <2>1. /\ Observe /\ UNCHANGED events /\ call[m].step = "status"
        /\ call' = [call EXCEPT ![m] = Answer(Unclean(call[m]), "ok")]
    BY <1>4 DEF GetStatusFails, Unclean
  <2> QED
    BY <2>1, AnswerKeeps
<1>5. ASSUME NEW m \in Monitor, FetchKeys(m) PROVE Inv'
  <2> DEFINE S == Selected(Target(m))
             c == [call[m] EXCEPT !.step = "delete", !.keys = S]
  <2>1. /\ Observe /\ call[m].step = "fetch"
        /\ call' = [call EXCEPT ![m] = IF S = {} THEN Acknowledged(call[m]) ELSE c]
    BY <1>5 DEF FetchKeys
  <2>2. call[m].op # "status"
    BY <2>1 DEF Inv, Sound, PassedWereFine
  <2>3. CASE S = {}
    BY <2>1, <2>2, <2>3, AcknowledgedKeeps
  <2>4. CASE S # {}
    <3>1. call' = [call EXCEPT ![m] = c]
      BY <2>1, <2>4
    <3>2. S \in SUBSET Key
      BY DEF Selected
    <3> HIDE DEF S
    <3>3. call[m] \in Call /\ c \in Call
      BY <3>2 DEF Inv, CallsOK, Call, Steps
    <3>4. /\ call'[m].op = call[m].op /\ call'[m].step = "delete"
          /\ call'[m].at = call[m].at /\ call'[m].group = call[m].group
      BY <3>1, <3>3 DEF Inv, CallsOK, Call
    <3>5. Sound(m)'
      BY <2>1, <2>2, <3>4 DEF Inv, Sound, PassedWereFine, AnswerTrue, Answered
    <3> QED
      BY <2>1, <3>1, <3>3, <3>5, OneCall
  <2> QED
    BY <2>3, <2>4
<1>6. ASSUME NEW m \in Monitor, NEW k \in call[m].keys, DeleteKey(m, k) PROVE Inv'
  <2> DEFINE S == call[m].keys \ {k}
             c == [call[m] EXCEPT !.keys = S]
  <2>1. /\ Observe /\ call[m].step = "delete"
        /\ \/ call' = [call EXCEPT ![m] = Acknowledged(call[m])]
           \/ call' = [call EXCEPT ![m] = c]
    BY <1>6 DEF DeleteKey
  <2>2. call[m].op # "status"
    BY <2>1 DEF Inv, Sound, PassedWereFine
  <2>3. CASE call' = [call EXCEPT ![m] = Acknowledged(call[m])]
    BY <2>1, <2>2, <2>3, AcknowledgedKeeps
  <2>4. CASE call' = [call EXCEPT ![m] = c]
    <3>0. call[m] \in Call
      BY DEF Inv, CallsOK
    <3>1. S \in SUBSET Key
      BY <3>0 DEF Call
    <3> HIDE DEF S
    <3>2. c \in Call
      BY <3>0, <3>1 DEF Call
    <3>3. Sound(m)'
      BY <2>1, <2>2, <2>4, <3>0, <3>2 DEF Inv, CallsOK, Call, Sound, PassedWereFine, AnswerTrue, Answered
    <3> QED
      BY <2>1, <2>4, <3>2, <3>3, OneCall
  <2> QED
    BY <2>1, <2>3, <2>4
<1>7. ASSUME NEW m \in Monitor, DeleteFails(m) PROVE Inv'
  <2>1. /\ Observe /\ call[m].step \in {"fetch", "delete"}
        /\ call' = [call EXCEPT ![m] = Acknowledged(Unclean(call[m]))]
    BY <1>7 DEF DeleteFails, Unclean
  <2>2. call[m].step # "ended" /\ call[m].op # "status"
    BY <2>1 DEF Inv, Sound, PassedWereFine
  <2> QED
    BY <2>1, <2>2, AcknowledgedKeeps
<1>8. ASSUME NEW k \in Key, NEW a \in Action, HandleAlert(k, a) PROVE Inv'
  BY <1>1, <1>8 DEF HandleAlert
<1>9. ASSUME NEW e \in storing, Store(e) \/ StoreFails(e) PROVE Inv'
  BY <1>1, <1>9 DEF Store, StoreFails
<1>10. ASSUME NEW k \in late, LateDelete(k) \/ LateDeleteFails(k) PROVE Inv'
  BY <1>1, <1>10 DEF LateDelete, LateDeleteFails
<1>11. CASE UNCHANGED vars
  BY <1>11 DEF vars, Inv, CallsOK, Sound, PassedWereFine, AnswerTrue, Answered
<1> QED
  BY <1>2, <1>3, <1>4, <1>5, <1>6, <1>7, <1>8, <1>9, <1>10, <1>11 DEF Next

LEMMA InitInv == Init => Inv
<1> SUFFICES ASSUME Init PROVE Inv
  OBVIOUS
<1>1. NoCall \in Call
  BY DEF NoCall, Call, Ops, Steps
<1>2. CallsOK
  BY <1>1 DEF Init, CallsOK
<1>3. ASSUME NEW m \in Monitor PROVE Sound(m)
  BY DEF Init, NoCall, Sound, PassedWereFine, AnswerTrue, Answered
<1> QED
  BY <1>2, <1>3 DEF Inv

\* "failed" is never invented: whatever requests to Consul fail and however
\* alerts, acknowledgements and late deletes interleave with the reads of
\* get_resource_group_status(), a resource of the group was failed during it.
THEOREM FailedAnswerCorrect == Spec => []FailedAnswerTrue
<1>1. Inv => FailedAnswerTrue
  BY DEF Inv, Sound, AnswerTrue, FailedAnswerTrue
<1> QED
  BY <1>1, InitInv, InvStep, PTL DEF Spec

\* A call none of whose requests fails passes a resource only in a moment in
\* which it is not failed, whatever happens to the requests of others.
THEOREM FineAnswerCorrect == Spec => []FineAnswerTrue
<1>1. Inv => FineAnswerTrue
  BY DEF Inv, Sound, AnswerTrue, FineAnswerTrue
<1> QED
  BY <1>1, InitInv, InvStep, PTL DEF Spec
-----------------------------------------------------------------------------
(* Acknowledgements.                                                       *)

\* The rest of the types that the argument needs.
StoreOK ==
  /\ events \in [Key -> Action \cup {None}]
  /\ storing \subseteq Key \X Action
  /\ late \subseteq Key
  /\ old \in [Monitor -> SUBSET Key]

LEMMA StoreStep ==
  ASSUME Inv, StoreOK, [Next]_vars
  PROVE  StoreOK'
<1>1. ASSUME Observe PROVE old' \in [Monitor -> SUBSET Key]
  BY <1>1 DEF Observe, StoreOK
<1>2. ASSUME NEW k \in Key, NEW a \in Action, HandleAlert(k, a) PROVE StoreOK'
  BY <1>1, <1>2 DEF HandleAlert, StoreOK
<1>3. ASSUME NEW e \in storing, Store(e) \/ StoreFails(e) PROVE StoreOK'
  <2>1. e[1] \in Key /\ e[2] \in Action
    BY DEF StoreOK
  <2> QED
    BY <1>1, <1>3, <2>1 DEF Store, StoreFails, StoreOK
<1>4. ASSUME NEW m \in Monitor,
             (\E op \in Ops, g \in Group : Begin(m, op, g)) \/ GetStatus(m) \/ GetStatusFails(m)
               \/ FetchKeys(m)
      PROVE  StoreOK'
  BY <1>1, <1>4 DEF Begin, GetStatus, GetStatusFails, FetchKeys, StoreOK
<1>5. ASSUME NEW m \in Monitor, DeleteFails(m) \/ \E k \in call[m].keys : DeleteKey(m, k)
      PROVE  StoreOK'
  <2>1. call[m].keys \subseteq Key
    BY DEF Inv, CallsOK, Call
  <2> QED
    BY <1>1, <1>5, <2>1 DEF DeleteFails, DeleteKey, StoreOK
<1>6. ASSUME NEW k \in late, LateDelete(k) \/ LateDeleteFails(k) PROVE StoreOK'
  BY <1>1, <1>6 DEF LateDelete, LateDeleteFails, StoreOK
<1>7. CASE UNCHANGED vars
  BY <1>7 DEF vars, StoreOK
<1> QED
  BY <1>2, <1>3, <1>4, <1>5, <1>6, <1>7 DEF Next

\* What can happen to a decision: it stays, it goes, or a put of it takes effect.
Changes(k) ==
  \/ events'[k] \in {events[k], None}
  \/ \E a \in Action : <<k, a>> \in storing \ storing'

LEMMA EventsChange ==
  ASSUME Inv, StoreOK, [Next]_vars, NEW k \in Key
  PROVE  Changes(k)
<1>1. ASSUME UNCHANGED events PROVE Changes(k)
  BY <1>1 DEF Changes
<1>2. ASSUME NEW e \in storing, Store(e) PROVE Changes(k)
  <2>1. e = <<e[1], e[2]>> /\ e[1] \in Key /\ e[2] \in Action
    BY DEF StoreOK
  <2>2. events' = [events EXCEPT ![e[1]] = e[2]] /\ storing' = storing \ {e}
    BY <1>2 DEF Store
  <2>3. CASE k = e[1]
    BY <2>1, <2>2, <2>3 DEF Changes
  <2>4. CASE k # e[1]
    BY <2>2, <2>4 DEF Changes, StoreOK
  <2> QED
    BY <2>3, <2>4
<1>3. ASSUME NEW x, events' = [events EXCEPT ![x] = None] PROVE Changes(k)
  BY <1>3 DEF Changes, StoreOK
<1>4. ASSUME NEW a \in Key, NEW b \in Action, HandleAlert(a, b) PROVE UNCHANGED events
  BY <1>4 DEF HandleAlert
<1>5. ASSUME NEW e \in storing, StoreFails(e) PROVE UNCHANGED events
  BY <1>5 DEF StoreFails
<1>6. ASSUME NEW m \in Monitor,
             (\E op \in Ops, g \in Group : Begin(m, op, g)) \/ GetStatus(m) \/ GetStatusFails(m)
               \/ FetchKeys(m) \/ DeleteFails(m)
      PROVE  UNCHANGED events
  BY <1>6 DEF Begin, GetStatus, GetStatusFails, FetchKeys, DeleteFails
<1>7. ASSUME NEW m \in Monitor, NEW x \in call[m].keys, DeleteKey(m, x)
      PROVE  events' = [events EXCEPT ![x] = None]
  BY <1>7 DEF DeleteKey
<1>8. ASSUME NEW x \in late, LateDelete(x) PROVE events' = [events EXCEPT ![x] = None]
  BY <1>8 DEF LateDelete
<1>9. ASSUME NEW x \in late, LateDeleteFails(x) PROVE UNCHANGED events
  BY <1>9 DEF LateDeleteFails
<1>10. CASE UNCHANGED vars
  BY <1>1, <1>10 DEF vars
<1> QED
  BY <1>1, <1>2, <1>3, <1>4, <1>5, <1>6, <1>7, <1>8, <1>9, <1>10 DEF Next

\* A call under way, or one that has ended, loses old keys only, and a decision
\* under a key that is left does not come back.
LEMMA OldShrinks ==
  ASSUME Inv, StoreOK, Observe, \A k \in Key : Changes(k), NEW m \in Monitor,
         ~(call[m].step = "ended" /\ call'[m].step # "ended")
  PROVE  \A k \in old'[m] : k \in old[m] /\ events'[k] \in {events[k], None}
<1>1. CASE call'[m].op = "status"
  BY <1>1 DEF Observe
<1>2. CASE call'[m].op # "status"
  <2>1. old'[m] = old[m] \ {k \in Key : \E a \in Action : <<k, a>> \in storing \ storing'}
    BY <1>2 DEF Observe
  <2>2. old[m] \subseteq Key
    BY DEF StoreOK
  <2> QED
    BY <2>1, <2>2 DEF Changes
<1> QED
  BY <1>1, <1>2

\* What is cleared stays so.
LEMMA ClearedStays ==
  ASSUME Inv, StoreOK, Observe, \A k \in Key : Changes(k), NEW m \in Monitor,
         ~(call[m].step = "ended" /\ call'[m].step # "ended"), NEW r, Cleared(m, r)
  PROVE  r \notin window'[m].failed => \A k \in old'[m] : k[1] \in Like[r] => events'[k] = None
<1>1. window[m].failed \subseteq window'[m].failed
  BY WindowGrows DEF Inv
<1>2. \A k \in old'[m] : k \in old[m] /\ events'[k] \in {events[k], None}
  BY OldShrinks
<1> QED
  BY <1>1, <1>2 DEF Cleared

\* A call that a step leaves alone.
LEMMA AckOthers ==
  ASSUME Inv, StoreOK, AckInv, Observe, \A k \in Key : Changes(k),
         NEW m \in Monitor, call'[m] = call[m]
  PROVE  AckSound(m)'
<1>1. AckSound(m)
  BY DEF AckInv
<1>2. window[m].fine \subseteq window'[m].fine
  BY WindowGrows DEF Inv
<1>3. \A k \in old'[m] : k \in old[m] /\ events'[k] \in {events[k], None}
  BY OldShrinks
<1>4. ASSUME NEW i \in 1..Len(call[m].group), Cleared(m, call[m].group[i])
      PROVE  call[m].group[i] \notin window'[m].failed =>
               \A k \in old'[m] : k[1] \in Like[call[m].group[i]] => events'[k] = None
  BY <1>4, ClearedStays
<1>5. Target(m)' = Target(m)
  BY DEF Target
<1> QED
  BY <1>1, <1>2, <1>3, <1>4, <1>5 DEF AckSound, Cleared

\* On to the next resource: the one that is left must be cleared.
LEMMA AckPassed ==
  ASSUME Inv, StoreOK, AckInv, Observe, \A k \in Key : Changes(k), NEW m \in Monitor,
         NEW c, c \in {call[m], Unclean(call[m])}, call[m].op # "status", call[m].step # "ended",
         call' = [call EXCEPT ![m] = Acknowledged(c)],
         c.clean => \/ Target(m) \in window'[m].failed
                    \/ \A k \in old'[m] : k[1] \in Like[Target(m)] => events'[k] = None
  PROVE  AckSound(m)'
<1>0. call[m] \in Call
  BY DEF Inv, CallsOK
<1>1. /\ c \in Call /\ c.op = call[m].op /\ c.at = call[m].at /\ c.group = call[m].group
      /\ c.clean => call[m].clean
  BY <1>0 DEF Unclean, Call
<1>2. c.at \in Nat \ {0} /\ c.at <= Len(c.group) /\ Len(c.group) \in Nat
  <2>1. c.group \in Seq(Resource)
    BY <1>1, GroupType
  <2>2. call[m].at <= Len(call[m].group)
    BY DEF Inv, Sound
  <2> QED
    BY <1>1, <2>1, <2>2 DEF Call
<1>3. /\ call'[m].op = c.op /\ call'[m].at = c.at + 1 /\ call'[m].group = c.group
      /\ call'[m].clean = c.clean
      /\ call'[m].step = IF c.at = Len(c.group) THEN "ended" ELSE "status"
  <2>1. call'[m] = Acknowledged(c)
    BY DEF Inv, CallsOK
  <2> QED
    BY <1>1, <2>1, AcknowledgedFields
<1>4. ASSUME c.clean, NEW i \in 1..Len(c.group), i < c.at + 1
      PROVE  c.group[i] \notin window'[m].failed =>
               \A k \in old'[m] : k[1] \in Like[c.group[i]] => events'[k] = None
  <2>1. CASE i = c.at
    BY <1>1, <1>4, <2>1 DEF Target
  <2>2. CASE i < c.at
    <3>1. Cleared(m, c.group[i])
      BY <1>1, <1>4, <2>2 DEF AckInv, AckSound
    <3> QED
      BY <3>1, ClearedStays
  <2> QED
    BY <1>2, <1>4, <2>1, <2>2
<1>5. /\ call'[m].step = "ended" => call'[m].at > Len(call'[m].group)
      /\ call'[m].step \notin {"fetch", "delete"}
  BY <1>2, <1>3
<1>6. call'[m].clean => \A i \in 1..Len(call'[m].group) : i < call'[m].at =>
        (call'[m].group[i] \notin window'[m].failed =>
           \A k \in old'[m] : k[1] \in Like[call'[m].group[i]] => events'[k] = None)
  BY <1>3, <1>4
<1> QED
  BY <1>5, <1>6 DEF AckSound, Cleared

\* A step inside the work on one resource: to fetch or delete its keys.
LEMMA AckGoesOn ==
  ASSUME Inv, StoreOK, AckInv, Observe, \A k \in Key : Changes(k), NEW m \in Monitor,
         call[m].op # "status", call[m].step # "ended",
         call'[m].op = call[m].op, call'[m].at = call[m].at, call'[m].group = call[m].group,
         call'[m].step \in {"fetch", "delete"}, call'[m].clean => call[m].clean,
         call'[m].clean /\ call[m].op = "ack" => Target(m) \in window'[m].fine,
         call'[m].clean /\ call'[m].step = "delete" =>
           \A k \in old'[m] : k[1] \in Like[Target(m)] /\ events'[k] # None => k \in call'[m].keys
  PROVE  AckSound(m)'
<1>1. AckSound(m)
  BY DEF AckInv
<1>2. ASSUME NEW i \in 1..Len(call[m].group), Cleared(m, call[m].group[i])
      PROVE  call[m].group[i] \notin window'[m].failed =>
               \A k \in old'[m] : k[1] \in Like[call[m].group[i]] => events'[k] = None
  BY <1>2, ClearedStays
<1>3. Target(m)' = Target(m)
  BY DEF Target
<1> QED
  BY <1>1, <1>2, <1>3 DEF AckSound, Cleared

LEMMA AckStep ==
  ASSUME Inv, StoreOK, AckInv, [Next]_vars
  PROVE  AckInv'
<1>0. \A k \in Key : Changes(k)
  BY EventsChange
<1>1. ASSUME Observe, NEW m \in Monitor, NEW c, call' = [call EXCEPT ![m] = c], AckSound(m)'
      PROVE  AckInv'
  <2>1. ASSUME NEW n \in Monitor PROVE AckSound(n)'
    <3>1. CASE n = m
      BY <1>1, <3>1
    <3>2. CASE n # m
      BY <1>0, <1>1, <3>2, AckOthers DEF Inv, CallsOK
    <3> QED
      BY <3>1, <3>2
  <2> QED
    BY <2>1 DEF AckInv
<1>2. ASSUME Observe, UNCHANGED call PROVE AckInv'
  BY <1>0, <1>2, AckOthers DEF AckInv
<1>3. ASSUME NEW m \in Monitor, NEW op \in Ops, NEW g \in Group, Begin(m, op, g) PROVE AckInv'
  <2> DEFINE st == IF op = "force" THEN "fetch" ELSE "status"
             c == [op |-> op, step |-> st, group |-> g, at |-> 1, seen |-> {},
                   keys |-> {}, clean |-> TRUE, result |-> None]
  <2>1. Observe /\ call' = [call EXCEPT ![m] = c]
    BY <1>3 DEF Begin
  <2>2. call'[m] = c
    BY <2>1 DEF Inv, CallsOK
  <2>3. st # "ended" /\ st # "delete" /\ (op = "ack" => st = "status")
    OBVIOUS
  <2>4. \A i \in 1..Len(g) : ~(i < 1)
    OBVIOUS
  <2> HIDE DEF st
  <2>5. AckSound(m)'
    BY <2>2, <2>3, <2>4 DEF AckSound
  <2> HIDE DEF c
  <2> QED
    BY <1>1, <2>1, <2>5
<1>4. ASSUME NEW m \in Monitor, NEW c, NEW s \in Action \cup {"ok"}, Observe, UNCHANGED events,
             call[m].step = "status",
             \/ /\ c = call[m]
                /\ s \in Newest(Target(m)) \/ (s = "ok" /\ Newest(Target(m)) = {})
             \/ c = Unclean(call[m]) /\ s = "ok",
             call' = [call EXCEPT ![m] = Answer(c, s)]
      PROVE  AckInv'
  <2>0. call[m] \in Call
    BY DEF Inv, CallsOK
  <2>1. /\ c \in Call /\ c.op = call[m].op /\ c.at = call[m].at /\ c.group = call[m].group
        /\ c.clean => call[m].clean /\ c = call[m]
    <3>1. ~Unclean(call[m]).clean
      BY <2>0 DEF Unclean, Call
    <3> QED
      BY <1>4, <2>0, <3>1 DEF Unclean, Call
  <2>2. Target(m) \in Resource
    <3>1. call[m].group \in Seq(Resource) /\ call[m].at \in Nat \ {0}
      BY <2>0, GroupType DEF Call
    <3>2. call[m].at <= Len(call[m].group)
      BY <1>4 DEF Inv, Sound
    <3> QED
      BY <3>1, <3>2 DEF Target
  <2>3. /\ "failed" \in Newest(Target(m)) => Target(m) \in window'[m].failed
        /\ Newest(Target(m)) # {"failed"} => Target(m) \in window'[m].fine
    <3>1. PICK r \in Resource : r = Target(m)
      BY <2>2
    <3>2. Newest(r)' = Newest(r)
      BY <1>4 DEF Newest, Selected
    <3>3. (Failed(r)' => r \in window'[m].failed) /\ (Fine(r)' => r \in window'[m].fine)
      BY <1>4, WindowSees DEF Inv
    <3> QED
      BY <3>1, <3>2, <3>3 DEF Failed, Fine
  <2>4. c.clean => s \in Newest(Target(m)) \/ (s = "ok" /\ Newest(Target(m)) = {})
    <3>1. ~Unclean(call[m]).clean
      BY <2>0 DEF Unclean, Call
    <3> QED
      BY <1>4, <3>1
  <2>5. CASE call[m].op = "status"
    <3>1. Statuses(c, s) \in Call /\ call'[m] = Statuses(c, s)
      BY <1>4, <2>1, <2>5, StatusesType DEF Answer, Inv, CallsOK
    <3>2. Statuses(c, s).op = c.op
      BY <2>1 DEF Statuses, Call
    <3>3. AckSound(m)'
      BY <2>1, <2>5, <3>1, <3>2 DEF AckSound
    <3> QED
      BY <1>1, <1>4, <3>3
  <2>6. CASE call[m].op # "status" /\ s = "failed"
    <3>1. call' = [call EXCEPT ![m] = Acknowledged(c)] /\ c \in {call[m], Unclean(call[m])}
      BY <1>4, <2>1, <2>6 DEF Answer, Checked
    <3>2. c.clean => Target(m) \in window'[m].failed
      BY <2>3, <2>4, <2>6
    <3>3. AckSound(m)'
      BY <1>0, <1>4, <2>6, <3>1, <3>2, AckPassed
    <3> QED
      BY <1>1, <1>4, <3>1, <3>3
  <2>7. CASE call[m].op # "status" /\ s # "failed"
    <3> DEFINE d == [c EXCEPT !.step = "fetch"]
    <3>1. call' = [call EXCEPT ![m] = d]
      BY <1>4, <2>1, <2>7 DEF Answer, Checked
    <3>2. /\ d.op = c.op /\ d.step = "fetch" /\ d.at = c.at /\ d.group = c.group
          /\ d.clean = c.clean
      BY <2>1 DEF Call
    <3>3. call'[m] = d
      BY <3>1 DEF Inv, CallsOK
    <3> HIDE DEF d
    <3>4. c.clean => Target(m) \in window'[m].fine
      BY <2>3, <2>4, <2>7
    <3>5. AckSound(m)'
      BY <1>0, <1>4, <2>1, <2>7, <3>2, <3>3, <3>4, AckGoesOn
    <3> QED
      BY <1>1, <1>4, <3>1, <3>5
  <2> QED
    BY <2>5, <2>6, <2>7
<1>5. ASSUME NEW m \in Monitor, FetchKeys(m) PROVE AckInv'
  <2> DEFINE S == Selected(Target(m))
             c == [call[m] EXCEPT !.step = "delete", !.keys = S]
  <2>1. /\ Observe /\ call[m].step = "fetch" /\ UNCHANGED events
        /\ call' = [call EXCEPT ![m] = IF S = {} THEN Acknowledged(call[m]) ELSE c]
    BY <1>5 DEF FetchKeys
  <2>2. call[m] \in Call /\ call[m].op # "status"
    BY <2>1 DEF Inv, CallsOK, Sound, PassedWereFine
  <2>3. \A k \in old'[m] : k \in Key /\ (k[1] \in Like[Target(m)] /\ events'[k] # None => k \in S)
    <3>1. \A k \in old'[m] : k \in Key
      BY StoreStep DEF StoreOK
    <3> QED
      BY <2>1, <3>1 DEF Selected
  <2>4. CASE S = {}
    <3>1. call' = [call EXCEPT ![m] = Acknowledged(call[m])]
      BY <2>1, <2>4
    <3>2. AckSound(m)'
      BY <1>0, <2>1, <2>2, <2>3, <2>4, <3>1, AckPassed
    <3> QED
      BY <1>1, <2>1, <3>1, <3>2
  <2>5. CASE S # {}
    <3>1. call' = [call EXCEPT ![m] = c] /\ call'[m] = c
      BY <2>1, <2>5 DEF Inv, CallsOK
    <3> HIDE DEF S
    <3>2. /\ c.op = call[m].op /\ c.step = "delete" /\ c.at = call[m].at
          /\ c.group = call[m].group /\ c.clean = call[m].clean /\ c.keys = S
      BY <2>2 DEF Call
    <3> HIDE DEF c
    <3>3. call[m].clean /\ call[m].op = "ack" => Target(m) \in window'[m].fine
      <4>1. window[m].fine \subseteq window'[m].fine
        BY <2>1, WindowGrows DEF Inv
      <4> QED
        BY <2>1, <4>1 DEF AckInv, AckSound
    <3>4. AckSound(m)'
      BY <1>0, <2>1, <2>2, <2>3, <3>1, <3>2, <3>3, AckGoesOn
    <3> QED
      BY <1>1, <2>1, <3>1, <3>4
  <2> QED
    BY <2>4, <2>5
<1>6. ASSUME NEW m \in Monitor, NEW x \in call[m].keys, DeleteKey(m, x) PROVE AckInv'
  <2> DEFINE S == call[m].keys \ {x}
             c == [call[m] EXCEPT !.keys = S]
  <2>1. /\ Observe /\ call[m].step = "delete" /\ events' = [events EXCEPT ![x] = None]
        /\ \/ call[m].keys = {x} /\ call' = [call EXCEPT ![m] = Acknowledged(call[m])]
           \/ call' = [call EXCEPT ![m] = c]
    BY <1>6 DEF DeleteKey
  <2>2. call[m] \in Call /\ call[m].op # "status"
    BY <2>1 DEF Inv, CallsOK, Sound, PassedWereFine
  <2>3. call[m].clean => \A k \in old'[m] :
          k[1] \in Like[Target(m)] /\ events'[k] # None => k \in S
    <3>1. \A k \in old'[m] : k \in old[m] /\ events'[k] \in {events[k], None}
      BY <1>0, <2>1, OldShrinks
    <3>2. x \in Key => events'[x] = None
      BY <2>1 DEF StoreOK
    <3>3. x \in Key
      BY <2>2 DEF Call
    <3>4. call[m].clean => \A k \in old[m] :
            k[1] \in Like[Target(m)] /\ events[k] # None => k \in call[m].keys
      BY <2>1, <2>2 DEF AckInv, AckSound
    <3> QED
      BY <3>1, <3>2, <3>3, <3>4
  <2>4. CASE call[m].keys = {x} /\ call' = [call EXCEPT ![m] = Acknowledged(call[m])]
    <3>1. AckSound(m)'
      BY <1>0, <2>1, <2>2, <2>3, <2>4, AckPassed
    <3> QED
      BY <1>1, <2>1, <2>4, <3>1
  <2>5. CASE call' = [call EXCEPT ![m] = c]
    <3>1. call'[m] = c
      BY <2>5 DEF Inv, CallsOK
    <3> HIDE DEF S
    <3>2. /\ c.op = call[m].op /\ c.step = "delete" /\ c.at = call[m].at
          /\ c.group = call[m].group /\ c.clean = call[m].clean /\ c.keys = S
      BY <2>1, <2>2 DEF Call
    <3> HIDE DEF c
    <3>3. call[m].clean /\ call[m].op = "ack" => Target(m) \in window'[m].fine
      <4>1. window[m].fine \subseteq window'[m].fine
        BY <2>1, WindowGrows DEF Inv
      <4> QED
        BY <2>1, <4>1 DEF AckInv, AckSound
    <3>4. AckSound(m)'
      BY <1>0, <2>1, <2>2, <2>3, <3>1, <3>2, <3>3, AckGoesOn
    <3> QED
      BY <1>1, <2>1, <2>5, <3>4
  <2> QED
    BY <2>1, <2>4, <2>5
<1>7. ASSUME NEW m \in Monitor, DeleteFails(m) PROVE AckInv'
  <2>1. /\ Observe /\ call[m].step \in {"fetch", "delete"}
        /\ call' = [call EXCEPT ![m] = Acknowledged(Unclean(call[m]))]
    BY <1>7 DEF DeleteFails, Unclean
  <2>2. call[m].step # "ended" /\ call[m].op # "status" /\ ~Unclean(call[m]).clean
    BY <2>1 DEF Inv, CallsOK, Sound, PassedWereFine, Unclean, Call
  <2>3. AckSound(m)'
    BY <1>0, <2>1, <2>2, AckPassed
  <2> QED
    BY <1>1, <2>1, <2>3
<1>8. ASSUME NEW m \in Monitor, GetStatus(m) PROVE AckInv'
  <2>1. PICK s \in Action \cup {"ok"} :
          /\ s \in Newest(Target(m)) \/ (s = "ok" /\ Newest(Target(m)) = {})
          /\ call' = [call EXCEPT ![m] = Answer(call[m], s)]
    BY <1>8 DEF GetStatus
  <2>2. Observe /\ UNCHANGED events /\ call[m].step = "status"
    BY <1>8 DEF GetStatus
  <2> QED
    BY <1>4, <2>1, <2>2
<1>9. ASSUME NEW m \in Monitor, GetStatusFails(m) PROVE AckInv'
  <2>1. /\ Observe /\ UNCHANGED events /\ call[m].step = "status"
        /\ call' = [call EXCEPT ![m] = Answer(Unclean(call[m]), "ok")]
    BY <1>9 DEF GetStatusFails, Unclean
  <2> QED
    BY <1>4, <2>1
<1>10. ASSUME NEW k \in Key, NEW a \in Action, HandleAlert(k, a) PROVE AckInv'
  BY <1>2, <1>10 DEF HandleAlert
<1>11. ASSUME NEW e \in storing, Store(e) \/ StoreFails(e) PROVE AckInv'
  BY <1>2, <1>11 DEF Store, StoreFails
<1>12. ASSUME NEW k \in late, LateDelete(k) \/ LateDeleteFails(k) PROVE AckInv'
  BY <1>2, <1>12 DEF LateDelete, LateDeleteFails
<1>13. CASE UNCHANGED vars
  BY <1>13 DEF vars, AckInv, AckSound, Cleared, Target
<1> QED
  BY <1>3, <1>5, <1>6, <1>7, <1>8, <1>9, <1>10, <1>11, <1>12, <1>13 DEF Next

LEMMA AckInit == Init => Inv /\ StoreOK /\ AckInv
<1> SUFFICES ASSUME Init PROVE StoreOK /\ AckInv
  BY InitInv
<1>1. StoreOK
  BY DEF Init, StoreOK
<1>2. AckInv
  BY DEF Init, NoCall, AckInv, AckSound
<1> QED
  BY <1>1, <1>2

\* An acknowledgement whose requests succeed leaves no decision of before it of a
\* resource that was not failed during it: for any number of monitors, resources
\* and keys, and with late deletes and new alerts in between.
THEOREM AckClearsCorrect == Spec => []AckClears
<1>1. Inv /\ StoreOK /\ AckInv => AckClears
  <2> SUFFICES ASSUME Inv, AckInv, NEW m \in Monitor,
                      call[m].op # "status", call[m].step = "ended", call[m].clean,
                      NEW r \in Range(call[m].group) \ window[m].failed,
                      NEW k \in old[m], k[1] \in Like[r]
               PROVE  events[k] = None
    BY DEF AckClears
  <2>1. PICK i \in 1..Len(call[m].group) : r = call[m].group[i]
    BY DEF Range
  <2>2. call[m].at > Len(call[m].group) /\ call[m].at \in Nat /\ Len(call[m].group) \in Nat
    <3>1. call[m] \in Call
      BY DEF Inv, CallsOK
    <3>2. call[m].group \in Seq(Resource)
      BY <3>1, GroupType
    <3> QED
      BY <3>1, <3>2 DEF AckInv, AckSound, Call
  <2>3. Cleared(m, r)
    BY <2>1, <2>2 DEF AckInv, AckSound
  <2> QED
    BY <2>3 DEF Cleared
<1>2. Inv /\ StoreOK /\ AckInv /\ [Next]_vars => Inv' /\ StoreOK' /\ AckInv'
  BY InvStep, StoreStep, AckStep
<1> QED
  BY <1>1, <1>2, AckInit, PTL DEF Spec

\* An acknowledgement that is not forced and whose requests succeed deletes
\* decisions of a resource only after a moment in which it was not failed.
THEOREM AckKeepsCorrect == Spec => AckKeepsFailure
<1> DEFINE Deletes == \A m \in Monitor :
             /\ call[m].op = "ack" /\ call[m].step = "delete" /\ call[m].clean
             /\ call'[m] # call[m]
             => Target(m) \in window[m].fine
<1>1. AckInv /\ [Next]_vars => [Deletes]_vars
  BY DEF AckInv, AckSound
<1>2. Inv /\ StoreOK /\ AckInv /\ [Next]_vars => Inv' /\ StoreOK' /\ AckInv'
  BY InvStep, StoreStep, AckStep
<1> QED
  BY <1>1, <1>2, AckInit, PTL DEF Spec, AckKeepsFailure
=============================================================================

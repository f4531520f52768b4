----------------------- MODULE MpsStatusFeedbackProofs -----------------------
(***************************************************************************)
(* Proofs about the composition of the status callbacks with the command  *)
(* dispatcher, for every set of stations and every bound: the callbacks   *)
(* share clips_mutex_ with the dispatcher but touch none of its state, so *)
(* what MpsDispatchProofs proves of the dispatcher alone still holds when *)
(* they run.                                                               *)
(***************************************************************************)
EXTENDS MpsStatusFeedback, MpsDispatchProofs, SequenceTheorems, TLAPS

USE RouterAssumption

\* A step of the composition moves the dispatcher by one of its own steps
\* or leaves it alone: a router step assigns no dispatcher variable.
LEMMA RouterStepIsDispatchStep == RouterNext \/ UNCHANGED allVars => [Next]_vars
<1>1. ASSUME NEW s \in Station, RouterStep(s) PROVE UNCHANGED vars
  BY <1>1 DEF RouterStep, RegisterChange, Notify, StatusCallback
<1>2. QED
  BY <1>1 DEF RouterNext, DispatchStep, allVars

\* The status facts start with an empty fact base of the dispatcher.
LEMMA RouterInitIsInit == RouterInit => Init
BY DEF RouterInit

\* Single flight and the bracketing of cap feedback hold in the composed
\* system: a status callback that takes clips_mutex_ and asserts its
\* (mps-status-feedback ...) fact never disturbs mutex_futures_, a command
\* task or the (mps-feedback ...) sequence of a station.
THEOREM RouterKeepsFeedbackIInv == RouterSpec => []FeedbackIInv
<1>1. RouterInit => FeedbackIInv
  BY RouterInitIsInit, InitFeedbackIInv
<1>2. FeedbackIInv /\ [RouterNext]_allVars => FeedbackIInv'
  BY RouterStepIsDispatchStep, NextFeedbackIInv
<1>3. QED
  BY <1>1, <1>2, PTL DEF RouterSpec

\* The dispatcher still implements the table of pending operations when
\* the status callbacks run beside it.
THEOREM RouterRefinesPendingOperations == RouterSpec => RefinesPendingOperations
<1>1. RouterInit => Pending!Init
  BY RouterInitIsInit DEF Init, Pending!Init, pendingBar
<1>2. FeedbackIInv /\ [RouterNext]_allVars => [Pending!Next]_pendingBar
  BY RouterStepIsDispatchStep, NextRefines DEF FeedbackIInv
<1>3. QED
  BY <1>1, <1>2, RouterKeepsFeedbackIInv, PTL
     DEF RouterSpec, RefinesPendingOperations, Pending!Spec

-----------------------------------------------------------------------------
(* Refinement of StatusChannel: the callbacks deliver, per station, the  *)
(* changes of the subscribed registers once each and in order.           *)

\* The router's variables have their types.
RouterTypeOK ==
    /\ changes \in [Station -> Seq(Note)]
    /\ pub \in [Station -> Seq(Note)]
    /\ cb \in [Station -> Note \cup {NoNote}]
    /\ sfacts \in [Station -> Seq(Note)]
    /\ nChange \in 0 .. MaxChange

\* The note of no change is not a change.
LEMMA NoNoteNotNote == NoNote \notin Note
BY DEF NoNote, Note, StatusRegister

\* Queueing a change behind the one in a callback.
LEMMA ConcatAppend ==
    ASSUME NEW S, NEW h \in Seq(S), NEW q \in Seq(S), NEW x \in S
    PROVE  h \o Append(q, x) = Append(h \o q, x)
<1>1. Append(q, x) = q \o <<x>> /\ Append(h \o q, x) = (h \o q) \o <<x>>
  BY AppendIsConcat, ConcatProperties
<1>2. <<x>> \in Seq(S)
  OBVIOUS
<1>3. QED
  BY <1>1, <1>2, ConcatAssociative

\* Taking the head of a non-empty queue into the callback leaves the
\* sequence of changes in flight as it was.
LEMMA HeadTailConcat ==
    ASSUME NEW S, NEW q \in Seq(S), q # <<>>
    PROVE  <<Head(q)>> \o Tail(q) = q
<1>1. Head(q) \in S /\ Tail(q) \in Seq(S) /\ Len(Tail(q)) = Len(q) - 1
      /\ \A i \in 1 .. Len(Tail(q)) : Tail(q)[i] = q[i + 1]
  BY HeadTailProperties
<1>2. <<Head(q)>> \o Tail(q) \in Seq(S) /\ Len(<<Head(q)>> \o Tail(q)) = Len(q)
  BY <1>1, ConcatProperties
<1>3. \A i \in 1 .. Len(q) : (<<Head(q)>> \o Tail(q))[i] = q[i]
  BY <1>1, ConcatProperties
<1>4. QED
  BY <1>2, <1>3, SeqEqual

LEMMA RouterTypeInit == RouterInit => RouterTypeOK
BY DEF RouterInit, RouterTypeOK, NoNote, Note

\* Every step keeps the router's types: a change gets the next id, and the
\* client hands each queued note to its callback.
LEMMA RouterTypeNext == RouterTypeOK /\ [RouterNext]_allVars => RouterTypeOK'
<1> SUFFICES ASSUME RouterTypeOK, [RouterNext]_allVars PROVE RouterTypeOK'
  OBVIOUS
<1>1. ASSUME NEW s \in Station, NEW r \in StatusRegister, RegisterChange(s, r)
      PROVE  RouterTypeOK'
  <2>1. [reg |-> r, id |-> nChange + 1] \in Note
    BY <1>1 DEF RegisterChange, RouterTypeOK, Note
  <2>2. QED
    BY <1>1, <2>1 DEF RegisterChange, RouterTypeOK
<1>2. ASSUME NEW s \in Station, Notify(s) PROVE RouterTypeOK'
  BY <1>2, HeadTailProperties DEF Notify, RouterTypeOK
<1>3. ASSUME NEW s \in Station, StatusCallback(s) PROVE RouterTypeOK'
  BY <1>3, NoNoteNotNote DEF StatusCallback, RouterTypeOK
<1>4. QED
  BY <1>1, <1>2, <1>3 DEF RouterNext, RouterStep, DispatchStep, routerVars, allVars, RouterTypeOK

\* One step of a station's router maps onto the channel: a subscribed
\* change is published, a callback that asserts its fact delivers the
\* oldest change, anything else is a stutter.  The hypothesis says that
\* every machine whose name is one of the four ring names is a ring
\* station, so the callbacks registered by name are all subscribed by the
\* spec.
LEMMA RouterStepRefines ==
    ASSUME RingName \subseteq RingStation, RouterTypeOK,
           NEW s \in Station, RouterStep(s)
    PROVE  [Channel!Next]_Channel!vars
<1> DEFINE Q == [u \in Station |-> InFlight(u)]
<1>1. \A u \in Station : InFlight(u) \in Seq(Note)
  BY DEF RouterTypeOK, InFlight
<1>2. ASSUME NEW r \in StatusRegister, RegisterChange(s, r)
      PROVE  [Channel!Next]_Channel!vars
  <2> DEFINE n == [reg |-> r, id |-> nChange + 1]
  <2>1. n \in Note
    BY <1>2 DEF RegisterChange, RouterTypeOK, Note
  <2>2. CASE r \in Subscribed(s)
    <3>1. r \in SpecSubscribed(s)
      BY <2>2, RouterAssumption DEF Subscribed, SpecSubscribed
    <3>2. pub' = [pub EXCEPT ![s] = Append(@, n)] /\ UNCHANGED <<cb, sfacts>>
      BY <1>2, <2>2 DEF RegisterChange
    <3>3. InFlight(s)' = Append(InFlight(s), n)
      <4> DEFINE h == IF cb[s] = NoNote THEN <<>> ELSE <<cb[s]>>
      <4>1. h \in Seq(Note) /\ pub[s] \in Seq(Note)
        BY DEF RouterTypeOK
      <4>2. InFlight(s)' = h \o Append(pub[s], n) /\ InFlight(s) = h \o pub[s]
        BY <3>2 DEF InFlight, RouterTypeOK
      <4>3. h \o Append(pub[s], n) = Append(h \o pub[s], n)
        <5>1. \A hh, qq \in Seq(Note), x \in Note : hh \o Append(qq, x) = Append(hh \o qq, x)
          BY ConcatAppend
        <5>2. QED
          BY <4>1, <2>1, <5>1
      <4>4. QED
        BY <4>2, <4>3
    <3>4. \A u \in Station : u # s => InFlight(u)' = InFlight(u)
      BY <3>2 DEF InFlight, RouterTypeOK
    <3>5. Channel!Publish(s, n)
      <4>1. Q' = [Q EXCEPT ![s] = Append(@, n)]
        BY <3>3, <3>4
      <4>2. QED
        BY <3>1, <3>2, <4>1 DEF Channel!Publish
    <3>6. QED
      BY <2>1, <3>5 DEF Channel!Next
  <2>3. CASE r \notin Subscribed(s)
    BY <1>2, <2>3 DEF RegisterChange, Channel!vars, InFlight
  <2>4. QED
    BY <2>2, <2>3
\* The client takes the next note into the callback: a stutter.
<1>3. CASE Notify(s)
  <2>1. pub[s] \in Seq(Note) /\ pub[s] # <<>> /\ cb[s] = NoNote
    BY <1>3 DEF Notify, RouterTypeOK
  <2>2. InFlight(s)' = <<Head(pub[s])>> \o Tail(pub[s])
    BY <1>3, <2>1, HeadTailProperties, NoNoteNotNote DEF Notify, InFlight, RouterTypeOK
  <2>3. InFlight(s)' = InFlight(s)
    <3>1. <<Head(pub[s])>> \o Tail(pub[s]) = pub[s]
      BY <2>1, HeadTailConcat
    <3>2. InFlight(s) = pub[s]
      BY <2>1, ConcatEmptySeq DEF InFlight
    <3>3. QED
      BY <2>2, <3>1, <3>2
  <2>4. \A u \in Station : u # s => InFlight(u)' = InFlight(u)
    BY <1>3 DEF Notify, InFlight, RouterTypeOK
  <2>5. Q' = Q /\ UNCHANGED sfacts
    BY <1>3, <2>3, <2>4 DEF Notify
  <2>6. QED
    BY <2>5 DEF Channel!vars
\* The callback asserts the fact of the note it holds: the oldest one.
<1>4. CASE StatusCallback(s)
  <2>1. cb[s] \in Note /\ pub[s] \in Seq(Note)
    BY <1>4, NoNoteNotNote DEF StatusCallback, RouterTypeOK
  <2>2. InFlight(s) = <<cb[s]>> \o pub[s]
    BY <1>4 DEF StatusCallback, InFlight
  <2>3. InFlight(s) # <<>> /\ Head(InFlight(s)) = cb[s] /\ Tail(InFlight(s)) = pub[s]
    BY <2>1, <2>2
  <2>4. InFlight(s)' = pub[s]
    BY <1>4, <2>1 DEF StatusCallback, InFlight, RouterTypeOK
  <2>5. \A u \in Station : u # s => InFlight(u)' = InFlight(u)
    BY <1>4 DEF StatusCallback, InFlight, RouterTypeOK
  <2>6. Channel!Deliver(s)
    <3>1. Q' = [Q EXCEPT ![s] = Tail(@)]
      BY <2>3, <2>4, <2>5
    <3>2. sfacts' = [sfacts EXCEPT ![s] = Append(@, Head(Q[s]))]
      BY <1>4, <2>3 DEF StatusCallback
    <3>3. QED
      BY <2>3, <3>1, <3>2 DEF Channel!Deliver
  <2>7. QED
    BY <2>6 DEF Channel!Next
<1>5. QED
  BY <1>2, <1>3, <1>4 DEF RouterStep

\* When every machine named C-RS1, C-RS2, M-RS1 or M-RS2 is a ring
\* station, the status callbacks implement the spec's status channel for
\* every set of stations and bound: each status fact asserted under
\* clips_mutex_ is the oldest undelivered change of a register the spec
\* subscribes, so no fact is lost between two asserted ones, duplicated or
\* reordered, whatever the command tasks and CLIPS do meanwhile.
THEOREM RouterRefinesStatusChannel ==
    ASSUME RingName \subseteq RingStation
    PROVE  RouterSpec => RefinesStatusChannel
<1>1. RouterInit => Channel!Init
  BY DEF RouterInit, Channel!Init, InFlight
<1>2. RouterTypeOK /\ [RouterNext]_allVars => [Channel!Next]_Channel!vars
  <2> SUFFICES ASSUME RouterTypeOK, [RouterNext]_allVars PROVE [Channel!Next]_Channel!vars
    OBVIOUS
  <2>1. CASE \E s \in Station : RouterStep(s)
    BY <2>1, RouterStepRefines
  <2>2. CASE UNCHANGED routerVars
    BY <2>2 DEF routerVars, Channel!vars, InFlight
  <2>3. QED
    BY <2>1, <2>2 DEF RouterNext, DispatchStep, allVars
<1>3. RouterSpec => []RouterTypeOK
  BY RouterTypeInit, RouterTypeNext, PTL DEF RouterSpec
<1>4. QED
  BY <1>1, <1>2, <1>3, PTL DEF RouterSpec, RefinesStatusChannel, Channel!Spec

=============================================================================

-------------------------- MODULE EventIntake_proofs --------------------------
(***************************************************************************)
(* What holds of the intake of events for any topics, any events in any    *)
(* order, and any number of failed and broken subscriptions: the types,    *)
(* and that an event that was received is in one place at a time.          *)
(***************************************************************************)
EXTENDS EventIntake, SequenceTheorems, TLAPS

\* A loop and a handler deal with the events of their own topic.
OwnTopicInv ==
    /\ \A t \in Topics : \A e \in Elements(messages[t]) : TopicOf[e] = t
    /\ \A t \in Topics : handler[t] # NoEvent => TopicOf[handler[t]] = t

Places == {"nowhere", "queued", "parsing", "refusing", "handed", "reported"}

InPlace(e, place) ==
    /\ e \in received  <=> place # "nowhere"
    /\ Queued(e)       <=> place = "queued"
    /\ e \in parsing   <=> place = "parsing"
    /\ Refusing(e)     <=> place = "refusing"
    /\ HandedOn(e)     <=> place = "handed"
    /\ e \in reported  <=> place = "reported"

\* An event that was not received yet is in none of the places.
PlaceInv == \A e \in Events : \E place \in Places : InPlace(e, place)

HandedOnce(t) == \A i, j \in DOMAIN handed[t] : handed[t][i] = handed[t][j] => i = j

Inv == TypeOK /\ OwnTopicInv /\ PlaceInv /\ \A t \in Topics : HandedOnce(t)

-----------------------------------------------------------------------------
(* Sequences of events *)

LEMMA EmptyElements == Elements(<< >>) = {}
BY DEF Elements

LEMMA AppendElements ==
    ASSUME NEW S, NEW s \in Seq(S), NEW e \in S
    PROVE  /\ Append(s, e) \in Seq(S)
           /\ Elements(Append(s, e)) = Elements(s) \cup {e}
<1>1. /\ Append(s, e) \in Seq(S) /\ DOMAIN Append(s, e) = DOMAIN s \cup {Len(s) + 1}
      /\ \A i \in DOMAIN s : Append(s, e)[i] = s[i]
      /\ Append(s, e)[Len(s) + 1] = e
  OBVIOUS
<1>. QED  BY <1>1 DEF Elements

\* MessagesCh has one place.
LEMMA OneMessage ==
    ASSUME NEW S, NEW s \in Seq(S), Len(s) <= MaxMessages, s # << >>
    PROVE  Head(s) \in S /\ Elements(s) = {Head(s)} /\ Tail(s) = << >>
<1>0. Len(s) \in Nat \ {0} /\ DOMAIN s = 1 .. Len(s) /\ s \in [1 .. Len(s) -> S]
  BY EmptySeq, LenProperties
<1>1. Len(s) = 1 /\ DOMAIN s = {1} /\ Head(s) = s[1] /\ s[1] \in S
  BY <1>0 DEF MaxMessages
<1>2. Tail(s) \in Seq(S) /\ Len(Tail(s)) = 0
  BY <1>1, HeadTailProperties
<1>3. Tail(s) = << >>
  BY <1>2, EmptySeq
<1>. QED  BY <1>1, <1>3 DEF Elements

LEMMA NoMessages == ASSUME NEW S, NEW s \in Seq(S), Len(s) < MaxMessages PROVE s = << >>
BY EmptySeq, LenProperties DEF MaxMessages

\* An element more that was not there before leaves a sequence without
\* repetitions.
LEMMA AppendOnce ==
    ASSUME NEW S, NEW s \in Seq(S), NEW e \in S, e \notin Elements(s),
           \A i, j \in DOMAIN s : s[i] = s[j] => i = j
    PROVE  \A i, j \in DOMAIN Append(s, e) : Append(s, e)[i] = Append(s, e)[j] => i = j
<1>1. /\ DOMAIN Append(s, e) = DOMAIN s \cup {Len(s) + 1}
      /\ \A i \in DOMAIN s : Append(s, e)[i] = s[i]
      /\ Append(s, e)[Len(s) + 1] = e
  OBVIOUS
<1>. QED  BY <1>1 DEF Elements

-----------------------------------------------------------------------------

LEMMA InitInv == Init => Inv
<1>. SUFFICES ASSUME Init PROVE Inv
  OBVIOUS
<1>1. TypeOK
  BY EventsAssumption DEF Init, TypeOK, LoopPCs, FinisherPCs, MaxMessages
<1>2. OwnTopicInv
  BY EmptyElements DEF Init, OwnTopicInv
<1>3. \A e \in Events : InPlace(e, "nowhere")
  BY EmptyElements, EventsAssumption, NoEventAssumption
  DEF Init, InPlace, Queued, HandedOn, Refusing
<1>4. \A t \in Topics : HandedOnce(t)
  BY DEF Init, HandedOnce
<1>. QED  BY <1>1, <1>2, <1>3, <1>4 DEF Inv, PlaceInv, Places

\* The goroutines that deal with the subscription, and the end of it.
ClientStep ==
    \/ \E t \in Topics :
           \/ Starter(t) \/ Finisher(t) \/ Break(t)
           \/ Idle(t) \/ LoopDisconnects(t) \/ LoopUnsubscribes(t)
           \/ LoopConnects(t) \/ LoopSubscribes(t) \/ NilClient(t, loop[t])
    \/ StopHeadTracking

\* They leave the events where they are.
LEMMA ClientStepInv == ASSUME Inv, ClientStep PROVE Inv'
<1>1. UNCHANGED channels
  BY DEF ClientStep, Starter, Finisher, Break, Idle, LoopDisconnects, LoopUnsubscribes,
     LoopConnects, LoopSubscribes, NilClient, StopHeadTracking, StarterConnects,
     StarterSubscribes, FinisherDisconnects, FinisherUnsubscribes, FinisherChecks
<1>2. OwnTopicInv' /\ PlaceInv' /\ \A t \in Topics : HandedOnce(t)'
  BY <1>1 DEF channels, Inv, OwnTopicInv, PlaceInv, InPlace, Queued, HandedOn, Refusing, HandedOnce
<1>3. TypeOK'
  <2>1. /\ process' \in {"up", "panicked"}
        /\ client' \in [Topics -> {"nil", "made", "subscribed"}]
        /\ starter' \in [Topics -> {"connect", "subscribing", "done"}]
        /\ loop' \in [Topics -> LoopPCs]
        /\ finisher' \in [Topics -> FinisherPCs]
        /\ faults' \in Nat
    <3>. USE DEF Inv, TypeOK, LoopStep, StarterStep, FinisherStep, Made, Subscribe, Destroyed
    <3>0. Spend => faults' \in Nat
      BY DEF Spend
    <3>1. LoopPCs = {"select", "disconnect", "unsubscribe", "connect", "subscribing"}
          /\ FinisherPCs = {"none", "disconnect", "unsubscribe", "check", "asleep", "finished"}
      BY DEF LoopPCs, FinisherPCs
    <3>. USE <3>0, <3>1
    <3>2. CASE \E t \in Topics : StarterConnects(t)
      BY <3>2 DEF StarterConnects
    <3>3. CASE \E t \in Topics : StarterSubscribes(t)
      BY <3>3 DEF StarterSubscribes
    <3>4. CASE \E t \in Topics : FinisherDisconnects(t)
      BY <3>4 DEF FinisherDisconnects
    <3>5. CASE \E t \in Topics : FinisherUnsubscribes(t)
      BY <3>5 DEF FinisherUnsubscribes
    <3>6. CASE \E t \in Topics : FinisherChecks(t)
      BY <3>6 DEF FinisherChecks
    <3>7. CASE \E t \in Topics : NilClient(t, loop[t]) \/ NilClient(t, finisher[t])
      BY <3>7 DEF NilClient
    <3>8. CASE \E t \in Topics : Break(t) \/ Idle(t)
      BY <3>8 DEF Break, Idle
    <3>9. CASE \E t \in Topics : LoopDisconnects(t)
      BY <3>9 DEF LoopDisconnects
    <3>10. CASE \E t \in Topics : LoopUnsubscribes(t)
      BY <3>10 DEF LoopUnsubscribes
    <3>11. CASE \E t \in Topics : LoopConnects(t)
      BY <3>11 DEF LoopConnects
    <3>12. CASE \E t \in Topics : LoopSubscribes(t)
      BY <3>12 DEF LoopSubscribes
    <3>13. CASE StopHeadTracking
      BY <3>13 DEF StopHeadTracking
    <3>. QED  BY <3>2, <3>3, <3>4, <3>5, <3>6, <3>7, <3>8, <3>9, <3>10, <3>11, <3>12, <3>13
              DEF ClientStep, Starter, Finisher
  <2>. QED  BY <1>1, <2>1 DEF Inv, TypeOK, channels
<1>. QED  BY <1>2, <1>3 DEF Inv

\* One event goes to another place, the others stay where they are.
LEMMA OneMoves ==
    ASSUME PlaceInv, NEW x \in Events,
           \A e \in Events \ {x} : /\ e \in received' <=> e \in received
                                   /\ Queued(e)'      <=> Queued(e)
                                   /\ e \in parsing'  <=> e \in parsing
                                   /\ Refusing(e)'    <=> Refusing(e)
                                   /\ HandedOn(e)'    <=> HandedOn(e)
                                   /\ e \in reported' <=> e \in reported,
           NEW place \in Places, InPlace(x, place)'
    PROVE  PlaceInv'
<1>1. ASSUME NEW e \in Events \ {x}, NEW p \in Places, InPlace(e, p) PROVE InPlace(e, p)'
  BY <1>1 DEF InPlace
<1>. QED  BY <1>1 DEF PlaceInv

\* The type invariant's part that the steps of an event concern.
EventTypes ==
    /\ received \subseteq Events
    /\ messages \in [Topics -> Seq(Events)]
    /\ \A t \in Topics : Len(messages[t]) <= MaxMessages
    /\ parsing \subseteq Events
    /\ handler \in [Topics -> Events \cup {NoEvent}]
    /\ handed \in [Topics -> Seq(Events)]
    /\ reported \subseteq Events

LEMMA EventTypesSuffice ==
    ASSUME TypeOK, EventTypes', UNCHANGED <<process, client, starter, loop, finisher, faults>>
    PROVE  TypeOK'
BY DEF TypeOK, EventTypes

LEMMA ArriveInv == ASSUME Inv, NEW e \in Events, Arrive(e) PROVE Inv'
<1>. DEFINE t == TopicOf[e]
<1>. USE DEF Inv
<1>1. /\ t \in Topics /\ messages[t] = << >> /\ messages \in [Topics -> Seq(Events)]
      /\ messages' = [messages EXCEPT ![t] = Append(<< >>, e)]
      /\ received' = received \cup {e} /\ e \notin received
      /\ UNCHANGED <<process, client, parsing, handler, handed, reported,
                     starter, loop, finisher, faults>>
  BY NoMessages, EventsAssumption DEF Arrive, TypeOK
<1>2. Append(<< >>, e) \in Seq(Events) /\ Elements(Append(<< >>, e)) = {e}
      /\ Len(Append(<< >>, e)) = 1
  <2>1. << >> \in Seq(Events)
    BY EmptySeq
  <2>2. Len(Append(<< >>, e)) = 1
    BY <2>1
  <2>. DEFINE s == << >>
  <2>3. s \in Seq(Events) /\ Elements(s) = {}
    BY <2>1, EmptyElements
  <2>. HIDE DEF s
  <2>4. Append(s, e) \in Seq(Events) /\ Elements(Append(s, e)) = {} \cup {e}
    BY <2>3, AppendElements
  <2>. QED  BY <2>2, <2>4 DEF s
<1>3. TypeOK'
  <2>1. EventTypes'
    BY <1>1, <1>2 DEF TypeOK, EventTypes, MaxMessages
  <2>. QED  BY <1>1, <2>1, EventTypesSuffice
<1>4. OwnTopicInv'
  BY <1>1, <1>2 DEF OwnTopicInv
<1>5. PlaceInv'
  <2>1. InPlace(e, "nowhere")
    BY <1>1 DEF PlaceInv, InPlace
  <2>2. InPlace(e, "queued")'
    BY <1>1, <1>2, <2>1 DEF InPlace, Queued, HandedOn, Refusing
  <2>3. \A x \in Events \ {e} : Queued(x)' <=> Queued(x)
    BY <1>1, <1>2, EmptyElements DEF Queued
  <2>. QED  BY <1>1, <2>2, <2>3, OneMoves DEF Places, HandedOn, Refusing
<1>. QED  BY <1>1, <1>3, <1>4, <1>5 DEF HandedOnce

LEMMA ReceiveMessageInv == ASSUME Inv, NEW t \in Topics, ReceiveMessage(t) PROVE Inv'
<1>. USE DEF Inv
<1>1. messages \in [Topics -> Seq(Events)] /\ messages[t] \in Seq(Events)
      /\ messages[t] # << >> /\ Len(messages[t]) <= MaxMessages
  BY DEF ReceiveMessage, TypeOK
<1>2. PICK e \in Events : e = Head(messages[t])
  BY <1>1, OneMessage
<1>3. Elements(messages[t]) = {e} /\ Tail(messages[t]) = << >>
  BY <1>1, <1>2, OneMessage
<1>4. TopicOf[e] = t
  BY <1>3 DEF OwnTopicInv
<1>5. /\ messages' = [messages EXCEPT ![t] = << >>]
      /\ parsing' = parsing \cup {e}
      /\ UNCHANGED <<process, client, received, handler, handed, reported,
                     starter, loop, finisher, faults>>
  BY <1>2, <1>3 DEF ReceiveMessage, LoopStep, TypeOK
<1>6. TypeOK'
  <2>1. EventTypes'
    BY <1>1, <1>5 DEF TypeOK, EventTypes, MaxMessages
  <2>. QED  BY <1>5, <2>1, EventTypesSuffice
<1>7. OwnTopicInv'
  BY <1>1, <1>5, EmptyElements DEF OwnTopicInv
<1>8. PlaceInv'
  <2>1. InPlace(e, "queued")
    BY <1>3, <1>4 DEF PlaceInv, InPlace, Queued
  <2>2. InPlace(e, "parsing")'
    BY <1>1, <1>4, <1>5, <2>1, EmptyElements DEF InPlace, Queued, HandedOn, Refusing
  <2>3. \A x \in Events \ {e} : Queued(x)' <=> Queued(x)
    BY <1>1, <1>3, <1>5, EmptyElements, EventsAssumption DEF Queued
  <2>. QED  BY <1>5, <2>2, <2>3, OneMoves DEF Places, HandedOn, Refusing
<1>. QED  BY <1>5, <1>6, <1>7, <1>8 DEF HandedOnce

LEMMA HandOverInv == ASSUME Inv, NEW e \in Events, HandOver(e) PROVE Inv'
<1>. DEFINE t == TopicOf[e]
<1>. USE DEF Inv
<1>1. /\ t \in Topics /\ e \in parsing /\ handler[t] = NoEvent /\ e # NoEvent
      /\ handed[t] \in Seq(Events)
      /\ parsing' = parsing \ {e}
      /\ UNCHANGED <<process, client, received, messages, reported,
                     starter, loop, finisher, faults>>
  BY EventsAssumption, NoEventAssumption DEF HandOver, TypeOK
<1>2. InPlace(e, "parsing")
  BY <1>1 DEF PlaceInv, InPlace
<1>3. e \notin Elements(handed[t])
  BY <1>2 DEF InPlace, HandedOn
<1>4. CASE handler' = [handler EXCEPT ![t] = e] /\ UNCHANGED handed
  <2>1. TypeOK'
    <3>1. EventTypes'
      BY <1>1, <1>4 DEF TypeOK, EventTypes
    <3>. QED  BY <1>1, <3>1, EventTypesSuffice
  <2>2. OwnTopicInv'
    BY <1>1, <1>4 DEF OwnTopicInv, TypeOK
  <2>3. InPlace(e, "refusing")'
    BY <1>1, <1>2, <1>4 DEF InPlace, Queued, HandedOn, Refusing, TypeOK
  <2>4. \A x \in Events \ {e} : Refusing(x)' <=> Refusing(x)
    BY <1>1, <1>4, EventsAssumption, NoEventAssumption DEF Refusing, TypeOK
  <2>5. PlaceInv'
    BY <1>1, <1>4, <2>3, <2>4, OneMoves DEF Places, HandedOn, Queued
  <2>. QED  BY <1>4, <2>1, <2>2, <2>5 DEF HandedOnce
<1>5. CASE handed' = [handed EXCEPT ![t] = Append(handed[t], e)] /\ UNCHANGED handler
  <2>1. /\ Append(handed[t], e) \in Seq(Events)
        /\ Elements(Append(handed[t], e)) = Elements(handed[t]) \cup {e}
    BY <1>1, AppendElements
  <2>. DEFINE s == Append(handed[t], e)
  <2>2. \A i, j \in DOMAIN s : s[i] = s[j] => i = j
    BY <1>1, <1>3, AppendOnce DEF HandedOnce
  <2>. HIDE DEF s
  <2>3. handed' = [handed EXCEPT ![t] = s] /\ s \in Seq(Events)
        /\ Elements(s) = Elements(handed[t]) \cup {e}
    BY <1>5, <2>1 DEF s
  <2>4. TypeOK'
    <3>1. EventTypes'
      BY <1>1, <1>5, <2>3 DEF TypeOK, EventTypes
    <3>. QED  BY <1>1, <3>1, EventTypesSuffice
  <2>5. OwnTopicInv'
    BY <1>1, <1>5 DEF OwnTopicInv
  <2>6. InPlace(e, "handed")'
    BY <1>1, <1>2, <1>5, <2>3 DEF InPlace, Queued, HandedOn, Refusing, TypeOK
  <2>7. \A x \in Events \ {e} : HandedOn(x)' <=> HandedOn(x)
    BY <1>1, <2>3, EventsAssumption DEF HandedOn, TypeOK
  <2>8. PlaceInv'
    BY <1>1, <1>5, <2>6, <2>7, OneMoves DEF Places, Refusing, Queued
  <2>9. \A u \in Topics : HandedOnce(u)'
    BY <1>1, <2>2, <2>3 DEF HandedOnce, TypeOK
  <2>. QED  BY <2>4, <2>5, <2>8, <2>9
<1>. QED  BY <1>4, <1>5 DEF HandOver

LEMMA ReceiveErrorInv ==
    ASSUME Inv, NEW t \in Topics, NEW e \in Events, ReceiveError(t, e)
    PROVE  Inv'
<1>. USE DEF Inv
<1>1. /\ reported' = reported \cup {e} /\ parsing' = parsing \ {e}
      /\ handler' = [handler EXCEPT ![t] = IF handler[t] = e THEN NoEvent ELSE handler[t]]
      /\ UNCHANGED <<process, client, received, messages, handed, starter, loop, finisher, faults>>
  BY DEF ReceiveError, LoopStep, TypeOK
<1>2. TopicOf[e] = t /\ (e \in parsing \/ handler[t] = e) /\ e # NoEvent
  BY NoEventAssumption DEF ReceiveError, Refused, OwnTopicInv
<1>3. TypeOK'
  <2>1. EventTypes'
    BY <1>1 DEF TypeOK, EventTypes
  <2>. QED  BY <1>1, <2>1, EventTypesSuffice
<1>4. OwnTopicInv'
  BY <1>1 DEF OwnTopicInv, TypeOK
<1>5. InPlace(e, "parsing") \/ InPlace(e, "refusing")
  BY <1>2 DEF PlaceInv, InPlace, Refusing
<1>6. InPlace(e, "reported")'
  BY <1>1, <1>2, <1>5 DEF InPlace, Queued, HandedOn, Refusing, TypeOK
<1>7. \A x \in Events \ {e} : Refusing(x)' <=> Refusing(x)
  BY <1>1, NoEventAssumption, EventsAssumption DEF Refusing, TypeOK
<1>8. PlaceInv'
  BY <1>1, <1>6, <1>7, OneMoves DEF Places, HandedOn, Queued
<1>. QED  BY <1>1, <1>3, <1>4, <1>8 DEF HandedOnce

LEMMA StepInv == Inv /\ [Next]_vars => Inv'
<1>. SUFFICES ASSUME Inv, [Next]_vars PROVE Inv'
  OBVIOUS
<1>1. CASE UNCHANGED vars
  BY <1>1 DEF vars, channels, Inv, TypeOK, OwnTopicInv, PlaceInv, InPlace, Queued, HandedOn,
     Refusing, HandedOnce
<1>2. CASE Next
  BY <1>2, ClientStepInv, ArriveInv, ReceiveMessageInv, HandOverInv, ReceiveErrorInv
  DEF Next, Loop, ClientStep
<1>. QED  BY <1>1, <1>2

\* The types of the intake's variables: MessagesCh never holds more than its
\* place.
THEOREM TypeCorrect == Spec => []TypeOK
<1>1. Inv => TypeOK
  BY DEF Inv
<1>. QED  BY <1>1, InitInv, StepInv, PTL DEF Spec

\* For any events on any topics, with any number of reconnections, failures
\* and a shutdown in between: an event that was put on MessagesCh is there,
\* with a goroutine processMsg, with the handler that refuses it, handed over
\* once, or logged and counted, and never in two of these places.
THEOREM NoEventIsLostOrDoubled == Spec => []EveryEventIsSomewhere
<1>1. Inv => EveryEventIsSomewhere
  <2>. SUFFICES ASSUME Inv, NEW e \in received
                PROVE  /\ \E place \in Places \ {"nowhere"} : InPlace(e, place)
                       /\ HandedOnce(TopicOf[e])
    BY DEF EveryEventIsSomewhere, Places, InPlace, HandedOnce
  <2>1. e \in Events /\ TopicOf[e] \in Topics
    BY EventsAssumption DEF Inv, TypeOK
  <2>. QED  BY <2>1 DEF Inv, PlaceInv, InPlace
<1>. QED  BY <1>1, InitInv, StepInv, PTL DEF Spec

=============================================================================

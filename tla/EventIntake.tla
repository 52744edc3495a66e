------------------------------ MODULE EventIntake ------------------------------
(***************************************************************************)
(* The intake of the beacon node's events (pkg/beaconclient:               *)
(* incomingsse.go, beaconclient.go, capturehead.go) up to the loops        *)
(* handleHead and handleReorg, and StopHeadTracking.                       *)
(*                                                                         *)
(* For each topic a loop takes messages from MessagesCh, a channel of one  *)
(* place that the SSE client fills, and starts a goroutine for each, which *)
(* parses it and hands it to the topic's handler on ProcessCh, or to the   *)
(* loop itself on ErrorCh; handleHead sends there too.  These two channels *)
(* are unbuffered: a send and its receive are one action.  After 30 s      *)
(* without either the loop of the head topic closes the subscription and   *)
(* subscribes again.  The field sseClient is used without a lock by the    *)
(* goroutine of the first Connect, by the loop and by the shutdown.        *)
(*                                                                         *)
(* The SSE library is modelled from its use here: SubscribeChanRaw returns *)
(* once there is a subscription, or with an error; Unsubscribe waits for a *)
(* call of it that is under way, and ends the subscription.                *)
(***************************************************************************)
EXTENDS Naturals, Sequences

CONSTANTS
    Topics,       \* "head", "chain_reorg"
    TimedTopics,  \* the topics whose loop has an idle timeout
    StrictTopics, \* those whose handler refuses a slot that is not a number
    Events,       \* the events the beacon node may send
    TopicOf,      \* the topic of each event
    KindOf,       \* what is in it: see Kinds
    MaxFaults     \* bound on failed and broken subscriptions

\* A message that is not JSON does not parse.  Keep-alive messages, which have
\* no data and are passed over, are left out.
Kinds == {"good", "badSlot", "garbage"}

ASSUME EventsAssumption ==
    /\ TimedTopics \subseteq Topics
    /\ StrictTopics \subseteq Topics
    /\ TopicOf \in [Events -> Topics]
    /\ KindOf \in [Events -> Kinds]
    /\ MaxFaults \in Nat

NoEvent == "none"
ASSUME NoEventAssumption == NoEvent \notin Events

VARIABLES
    process,    \* "up", or "panicked"
    client,     \* sseClient: nil, made, or made and subscribed
    received,   \* the events that the SSE client has put on MessagesCh
    messages,   \* MessagesCh
    starter,    \* the goroutine of the first Connect
    loop,       \* the loop of handleIncomingSseEvent
    parsing,    \* the events in goroutines processMsg
    handler,    \* handleHead, handleReorg: the event being refused
    handed,     \* the events that came through, in their order
    reported,   \* the events whose error the loop has logged and counted
    finisher,   \* finishProcessingChannel
    faults      \* how much of the bound is used up

channels == <<received, messages, parsing, handler, handed, reported>>
vars == <<process, client, channels, starter, loop, finisher, faults>>

MaxMessages == 1     \* the buffer of MessagesCh

Spend ==
    /\ faults < MaxFaults
    /\ faults' = faults + 1

-----------------------------------------------------------------------------

Init ==
    /\ process = "up"
    /\ client = [t \in Topics |-> "nil"]
    /\ received = {}
    /\ messages = [t \in Topics |-> << >>]
    /\ starter = [t \in Topics |-> "connect"]
    /\ loop = [t \in Topics |-> "select"]
    /\ parsing = {}
    /\ handler = [t \in Topics |-> NoEvent]
    /\ handed = [t \in Topics |-> << >>]
    /\ reported = {}
    /\ finisher = [t \in Topics |-> "none"]
    /\ faults = 0

LoopStep(t, from, to) ==
    /\ process = "up"
    /\ loop[t] = from
    /\ loop' = [loop EXCEPT ![t] = to]

StarterStep(t, from, to) ==
    /\ process = "up"
    /\ starter[t] = from
    /\ starter' = [starter EXCEPT ![t] = to]

FinisherStep(t, from, to) ==
    /\ process = "up"
    /\ finisher[t] = from
    /\ finisher' = [finisher EXCEPT ![t] = to]

\* SubscribeChanRaw is under way on the present client.
Subscribing(t) == "subscribing" \in {starter[t], loop[t]}

-----------------------------------------------------------------------------
(* Connect *)

\* initClient, if there is no client.
Made(t) == IF client[t] = "nil" THEN [client EXCEPT ![t] = "made"] ELSE client

\* Either ends with a subscription or, Connect's error, without.
Subscribe(t) ==
    \/ /\ client' = [client EXCEPT ![t] = "subscribed"]
       /\ UNCHANGED faults
    \/ /\ Spend
       /\ UNCHANGED client

\* The first Connect of a topic; its error ends the goroutine only.
StarterConnects(t) ==
    /\ StarterStep(t, "connect", "subscribing")
    /\ client' = Made(t)
    /\ UNCHANGED <<process, channels, loop, finisher, faults>>

StarterSubscribes(t) ==
    /\ StarterStep(t, "subscribing", "done")
    /\ Subscribe(t)
    /\ UNCHANGED <<process, channels, loop, finisher>>

LoopConnects(t) ==
    /\ LoopStep(t, "connect", "subscribing")
    /\ client' = Made(t)
    /\ UNCHANGED <<process, channels, starter, finisher, faults>>

\* A slip: the loop returns when Connect fails.
LoopSubscribesOrReturns(t) ==
    /\ Subscribe(t)
    /\ LoopStep(t, "subscribing", IF client'[t] = "subscribed" THEN "select" ELSE "returned")
    /\ UNCHANGED <<process, channels, starter, finisher>>

LoopSubscribes(t) ==
    /\ Subscribe(t)
    /\ LoopStep(t, "subscribing", "select")
    /\ UNCHANGED <<process, channels, starter, finisher>>

-----------------------------------------------------------------------------
(* Disconnect, for the loop and for finishProcessingChannel: the test for   *)
(* nil, and what follows it.                                                *)

Destroyed(t) == [client EXCEPT ![t] = "nil"]

LoopDisconnects(t) ==
    /\ LoopStep(t, "disconnect", IF client[t] = "nil" THEN "connect" ELSE "unsubscribe")
    /\ UNCHANGED <<process, client, channels, starter, finisher, faults>>

LoopUnsubscribes(t) ==
    /\ LoopStep(t, "unsubscribe", "connect")
    /\ client[t] # "nil" /\ ~Subscribing(t)
    /\ client' = Destroyed(t)
    /\ UNCHANGED <<process, channels, starter, finisher, faults>>

FinisherDisconnects(t) ==
    /\ FinisherStep(t, "disconnect", IF client[t] = "nil" THEN "check" ELSE "unsubscribe")
    /\ UNCHANGED <<process, client, channels, starter, loop, faults>>

FinisherUnsubscribes(t) ==
    /\ FinisherStep(t, "unsubscribe", "check")
    /\ client[t] # "nil" /\ ~Subscribing(t)
    /\ client' = Destroyed(t)
    /\ UNCHANGED <<process, channels, starter, loop, faults>>

\* The other one has set the client to nil since the test.
NilClient(t, pc) ==
    /\ process = "up"
    /\ client[t] = "nil"
    /\ pc = "unsubscribe"
    /\ process' = "panicked"
    /\ UNCHANGED <<client, channels, starter, loop, finisher, faults>>

-----------------------------------------------------------------------------
(* handleIncomingSseEvent and its messages *)

\* The SSE client has an event and a place for it.
Arrive(e) ==
    LET t == TopicOf[e]
    IN  /\ process = "up"
        /\ client[t] = "subscribed" /\ e \notin received
        /\ Len(messages[t]) < MaxMessages
        /\ received' = received \cup {e}
        /\ messages' = [messages EXCEPT ![t] = Append(@, e)]
        /\ UNCHANGED <<process, client, parsing, handler, handed, reported,
                       starter, loop, finisher, faults>>

\* A subscription breaks down for good.
Break(t) ==
    /\ process = "up"
    /\ client[t] = "subscribed"
    /\ Spend
    /\ client' = [client EXCEPT ![t] = "made"]
    /\ UNCHANGED <<process, channels, starter, loop, finisher>>

\* A slip: the loop parses the message itself, and on an error sends to the
\* channel that it alone receives from.
ReceiveMessageParsing(t) ==
    /\ messages[t] # << >>
    /\ LoopStep(t, "select", IF KindOf[Head(messages[t])] = "garbage" THEN "stuck" ELSE "select")
    /\ messages' = [messages EXCEPT ![t] = Tail(@)]
    /\ parsing' = parsing \cup {Head(messages[t])}
    /\ UNCHANGED <<process, client, received, handler, handed, reported,
                   starter, finisher, faults>>

\* go processMsg(...)
ReceiveMessage(t) ==
    /\ LoopStep(t, "select", "select")
    /\ messages[t] # << >>
    /\ messages' = [messages EXCEPT ![t] = Tail(@)]
    /\ parsing' = parsing \cup {Head(messages[t])}
    /\ UNCHANGED <<process, client, received, handler, handed, reported,
                   starter, finisher, faults>>

\* A slip: a slot that does not parse is passed over without a word.
HandOverSilently(e) ==
    LET t == TopicOf[e]
    IN  /\ process = "up"
        /\ e \in parsing /\ KindOf[e] # "garbage"
        /\ handler[t] = NoEvent
        /\ parsing' = parsing \ {e}
        /\ handed' = IF KindOf[e] = "badSlot" /\ t \in StrictTopics
                     THEN handed ELSE [handed EXCEPT ![t] = Append(@, e)]
        /\ UNCHANGED <<process, client, received, messages, handler, reported,
                       starter, loop, finisher, faults>>

\* ProcessCh: handleHead refuses a slot that does not parse, handleReorg only
\* logs it.
HandOver(e) ==
    LET t == TopicOf[e]
    IN  /\ process = "up"
        /\ e \in parsing /\ KindOf[e] # "garbage"
        /\ handler[t] = NoEvent
        /\ parsing' = parsing \ {e}
        /\ IF KindOf[e] = "badSlot" /\ t \in StrictTopics
           THEN /\ handler' = [handler EXCEPT ![t] = e]
                /\ UNCHANGED handed
           ELSE /\ handed' = [handed EXCEPT ![t] = Append(@, e)]
                /\ UNCHANGED handler
        /\ UNCHANGED <<process, client, received, messages, reported,
                       starter, loop, finisher, faults>>

\* The events that wait to be taken from ErrorCh.
Refused(t) ==
    { e \in parsing : TopicOf[e] = t /\ KindOf[e] = "garbage" }
        \cup { e \in {handler[t]} : e # NoEvent }

\* ErrorCh: from processMsg, or from handleHead.
ReceiveError(t, e) ==
    /\ LoopStep(t, "select", "select")
    /\ e \in Refused(t)
    /\ reported' = reported \cup {e}
    /\ parsing' = parsing \ {e}
    /\ handler' = [handler EXCEPT ![t] = IF @ = e THEN NoEvent ELSE @]
    /\ UNCHANGED <<process, client, received, messages, handed, starter, finisher, faults>>

\* A slip: the timeout is logged and counted, and that is all.
IdleOnlyCounts(t) ==
    /\ LoopStep(t, "select", "select")
    /\ t \in TimedTopics
    /\ messages[t] = << >> /\ Refused(t) = {}
    /\ UNCHANGED <<process, client, channels, starter, finisher, faults>>

\* The idle timeout: 30 s in the select with nothing to receive.
Idle(t) ==
    /\ LoopStep(t, "select", "disconnect")
    /\ t \in TimedTopics
    /\ messages[t] = << >> /\ Refused(t) = {}
    /\ UNCHANGED <<process, client, channels, starter, finisher, faults>>

-----------------------------------------------------------------------------
(* StopHeadTracking *)

StopHeadTracking ==
    /\ process = "up"
    /\ \A t \in Topics : finisher[t] = "none"
    /\ finisher' = [t \in Topics |-> "disconnect"]
    /\ UNCHANGED <<process, client, channels, starter, loop, faults>>

\* MessagesCh is empty (the length of ProcessCh is 0 at all times), or the
\* goroutine sleeps for 5 s times 1 ms in ns, which is 57 days.
FinisherChecks(t) ==
    /\ FinisherStep(t, "check", IF messages[t] = << >> THEN "finished" ELSE "asleep")
    /\ UNCHANGED <<process, client, channels, starter, loop, faults>>

Stopping == \E t \in Topics : finisher[t] # "none"
Stopped  == \A t \in Topics : finisher[t] = "finished"

-----------------------------------------------------------------------------

Starter(t)  == StarterConnects(t) \/ StarterSubscribes(t)
Loop(t) ==
    \/ ReceiveMessage(t) \/ \E e \in Events : ReceiveError(t, e)
    \/ Idle(t) \/ LoopDisconnects(t) \/ LoopUnsubscribes(t)
    \/ LoopConnects(t) \/ LoopSubscribes(t)
    \/ NilClient(t, loop[t])
Finisher(t) ==
    \/ FinisherDisconnects(t) \/ FinisherUnsubscribes(t) \/ FinisherChecks(t)
    \/ NilClient(t, finisher[t])

Next ==
    \/ \E t \in Topics : Starter(t) \/ Loop(t) \/ Finisher(t) \/ Break(t)
    \/ \E e \in Events : Arrive(e) \/ HandOver(e)
    \/ StopHeadTracking

Spec == Init /\ [][Next]_vars

\* Every goroutine runs, and a subscription is refused or given in the end.
\* Between two attempts of the loop lie 30 s, in which the shutdown gets its
\* turn.  Events, failures and the shutdown itself are left to chance.
FairSpec ==
    /\ Spec
    /\ \A t \in Topics : WF_vars(Starter(t)) /\ WF_vars(Loop(t)) /\ SF_vars(Finisher(t))
    /\ \A e \in Events : WF_vars(HandOver(e))

-----------------------------------------------------------------------------

LoopPCs     == {"select", "disconnect", "unsubscribe", "connect", "subscribing"}
FinisherPCs == {"none", "disconnect", "unsubscribe", "check", "asleep", "finished"}

TypeOK ==
    /\ process \in {"up", "panicked"}
    /\ client \in [Topics -> {"nil", "made", "subscribed"}]
    /\ received \subseteq Events
    /\ messages \in [Topics -> Seq(Events)]
    /\ \A t \in Topics : Len(messages[t]) <= MaxMessages
    /\ starter \in [Topics -> {"connect", "subscribing", "done"}]
    /\ loop \in [Topics -> LoopPCs]
    /\ parsing \subseteq Events
    /\ handler \in [Topics -> Events \cup {NoEvent}]
    /\ handed \in [Topics -> Seq(Events)]
    /\ reported \subseteq Events
    /\ finisher \in [Topics -> FinisherPCs]
    /\ faults \in Nat

Elements(s) == { s[i] : i \in DOMAIN s }

\* Where an event that was received can be.
Queued(e)   == e \in Elements(messages[TopicOf[e]])
HandedOn(e) == e \in Elements(handed[TopicOf[e]])
Refusing(e) == handler[TopicOf[e]] = e

\* From MessagesCh on no event is lost or doubled, through reconnections and
\* the shutdown: each is in exactly one place, and what was handed over was so
\* once (handleIncomingSseEvent, processMsg, handleHead).
EveryEventIsSomewhere ==
    \A e \in received :
        /\ \E place \in {"queued", "parsing", "refusing", "handed", "reported"} :
               /\ Queued(e)       <=> place = "queued"
               /\ e \in parsing   <=> place = "parsing"
               /\ Refusing(e)     <=> place = "refusing"
               /\ HandedOn(e)     <=> place = "handed"
               /\ e \in reported  <=> place = "reported"
        /\ \A i, j \in DOMAIN handed[TopicOf[e]] :
               handed[TopicOf[e]][i] = e /\ handed[TopicOf[e]][j] = e => i = j

\* An event that was received comes through or is logged and counted: the
\* loop, which alone takes errors, handleHead, which hands it some, and the
\* goroutines that wait for both never wait for each other, whether the loop
\* is busy with a new subscription or not.
EventsComeThrough ==
    \A e \in Events :
        e \in received ~> (HandedOn(e) \/ e \in reported \/ process = "panicked")

\* The head topic does not stay without a subscription, however the first
\* attempt and later ones fail (the idle timeout of captureEventTopic).
HeadIsResubscribed ==
    \A t \in TimedTopics :
        (client[t] # "subscribed") ~> (client[t] = "subscribed" \/ Stopping)

\* finishProcessingChannel "closes the SSE subscription, but waits until the
\* MessagesCh is empty" (capturehead.go): as the loop empties it, the shutdown
\* of head tracking comes to its end.
StopReturns == Stopping ~> (Stopped \/ process = "panicked")

=============================================================================

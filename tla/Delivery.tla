------------------------------- MODULE Delivery -------------------------------
(***************************************************************************)
(* The webhooks of the DTU GitHub server (dtu/delivery.go): the log of     *)
(* pending events, deliveries of a chosen event to the receiver of its     *)
(* App, and semantic duplicates.  Nothing is delivered unless the control  *)
(* client asks for it, as often and in whatever order it likes.            *)
(*                                                                         *)
(* A delivery sends its request without world.mu.  The receiver may get it *)
(* late, even after the sender gave up, or never.  Payloads are identified *)
(* by the place in the log at which they were first serialised; signatures *)
(* are valid or not.                                                       *)
(***************************************************************************)
EXTENDS Naturals, Sequences, FiniteSets

CONSTANTS
    Deliveries,   \* POST /deliveries requests, one goroutine each
    Apps,         \* GitHub Apps
    Configured,   \* the Apps that were created with a webhook URL and secret
    MaxEvents,    \* bound on the length of the log
    MaxTime       \* bound on the virtual clock

ASSUME ConfiguredAssumption == Configured \subseteq Apps
ASSUME BoundsAssumption == MaxEvents \in Nat /\ MaxTime \in Nat

VARIABLES
    pendingEvents,     \* world.pendingEvents
    nextEventID,       \* world.nextEventID
    deliveryAttempts,  \* world.deliveryAttempts, each with the request that made it
    now,               \* world.now
    pc,                \* where the handler of a delivery is
    outbound,          \* the signed request of a delivery, once there is one
    outcome,           \* what a delivery knows of its answer
    network,           \* deliveries whose request is on its way
    answers,           \* deliveries whose request the receiver has answered, and how
    inbox              \* deliveries whose request the receiver got

worldVars == <<pendingEvents, nextEventID, deliveryAttempts, now>>

senderVars == <<pc, outbound, outcome>>

receiverVars == <<network, answers, inbox>>

vars == <<worldVars, senderVars, receiverVars>>

-----------------------------------------------------------------------------
(* Types *)

GUIDs == 1 .. MaxEvents

\* of is history: the GUID of the event that was duplicated, or of the event itself.
PendingEvent == [GUID : GUIDs, Body : GUIDs, AppID : Apps, of : GUIDs]

Request == [GUID : GUIDs, Body : GUIDs, AppID : Apps, valid : BOOLEAN, at : 0 .. MaxTime]

DeliveryAttempt == [GUID : GUIDs, InvalidSignature : BOOLEAN, AttemptedAt : 0 .. MaxTime,
                    status : {"accepted", "rejected", "error"}, by : Deliveries]

\* refused is a 404 or 409 answer, failed a 502 one, replied a 200.
Stages == {"idle", "sending", "answered", "refused", "failed", "replied"}

TypeOK ==
    /\ pendingEvents \in Seq(PendingEvent)
    /\ nextEventID \in 0 .. MaxEvents
    /\ deliveryAttempts \in Seq(DeliveryAttempt)
    /\ now \in 0 .. MaxTime
    /\ pc \in [Deliveries -> Stages]
    /\ outbound \in [Deliveries -> SUBSET Request]
    /\ outcome \in [Deliveries -> {"none", "accepted", "rejected", "error"}]
    /\ network \in SUBSET Deliveries
    /\ answers \in [Deliveries -> {"none", "accepted", "rejected"}]
    /\ inbox \in SUBSET Deliveries

-----------------------------------------------------------------------------
(* The log *)

\* Faulty variant: an event is named after the length of its App's log.
NextGUIDOfApp(app) ==
    Cardinality({i \in DOMAIN pendingEvents : pendingEvents[i].AppID = app}) + 1

NextGUID(app) == nextEventID + 1

appendPendingAppEvent(app) ==
    /\ nextEventID < MaxEvents
    /\ nextEventID' = nextEventID + 1
    /\ pendingEvents' = Append(pendingEvents,
           [GUID |-> NextGUID(app), Body |-> nextEventID + 1, AppID |-> app,
            of |-> NextGUID(app)])
    /\ UNCHANGED <<deliveryAttempts, now, senderVars, receiverVars>>

\* Faulty variants: the duplicate is serialised again; its body is left empty.
DuplicateBodyAfresh(event) == nextEventID + 1

DuplicateBodyUnset(event) == 0

DuplicateBody(event) == event.Body

\* duplicateEvent: a new GUID, and the bytes of the source.
duplicateEvent(event) ==
    /\ nextEventID < MaxEvents
    /\ nextEventID' = nextEventID + 1
    /\ pendingEvents' = Append(pendingEvents,
           [event EXCEPT !.GUID = NextGUID(event.AppID), !.Body = DuplicateBody(event),
                         !.of = event.GUID])
    /\ UNCHANGED <<deliveryAttempts, now, senderVars, receiverVars>>

\* findPendingEvent: the first event with the GUID, if there is one.
Found(guid) ==
    {pendingEvents[i] : i \in {j \in DOMAIN pendingEvents :
        /\ pendingEvents[j].GUID = guid
        /\ \A k \in 1 .. j - 1 : pendingEvents[k].GUID # guid}}

-----------------------------------------------------------------------------
(* deliverEvent *)

Goto(d, from, to) == pc[d] = from /\ pc' = [pc EXCEPT ![d] = to]

RefuseDelivery(d, guid) ==
    /\ \A event \in Found(guid) : event.AppID \notin Configured
    /\ Goto(d, "idle", "refused")
    /\ UNCHANGED <<worldVars, outbound, outcome, receiverVars>>

\* The event and the time are read under world.mu; signing and sending follow without it.
SendDelivery(d, guid, valid) ==
    \E event \in Found(guid) :
        /\ event.AppID \in Configured
        /\ Goto(d, "idle", "sending")
        /\ outbound' = [outbound EXCEPT ![d] =
               {[GUID |-> event.GUID, Body |-> event.Body, AppID |-> event.AppID,
                 valid |-> valid, at |-> now]}]
        /\ network' = network \cup {d}
        /\ UNCHANGED <<worldVars, outcome, answers, inbox>>

ReceiveAnswer(d) ==
    /\ answers[d] # "none"
    /\ Goto(d, "sending", "answered")
    /\ outcome' = [outcome EXCEPT ![d] = answers[d]]
    /\ UNCHANGED <<worldVars, outbound, receiverVars>>

\* The connection fails, ten seconds pass, or the control client goes away; the receiver
\* may have the request already, or get it later.
GiveUp(d) ==
    /\ Goto(d, "sending", "answered")
    /\ outcome' = [outcome EXCEPT ![d] = "error"]
    /\ UNCHANGED <<worldVars, outbound, receiverVars>>

\* Faulty variant: only answers are recorded.
RecordAnswered(d) ==
    /\ Goto(d, "answered", IF outcome[d] = "accepted" THEN "replied" ELSE "failed")
    /\ \E request \in outbound[d] :
          deliveryAttempts' = IF outcome[d] = "error" THEN deliveryAttempts
              ELSE Append(deliveryAttempts,
                   [GUID |-> request.GUID, InvalidSignature |-> ~request.valid,
                    AttemptedAt |-> request.at, status |-> outcome[d], by |-> d])
    /\ UNCHANGED <<pendingEvents, nextEventID, now, outbound, outcome, receiverVars>>

\* The attempt is recorded whatever became of it, with the time at which it began.
RecordAttempt(d) ==
    /\ Goto(d, "answered", IF outcome[d] = "accepted" THEN "replied" ELSE "failed")
    /\ \E request \in outbound[d] :
          deliveryAttempts' = Append(deliveryAttempts,
              [GUID |-> request.GUID, InvalidSignature |-> ~request.valid,
               AttemptedAt |-> request.at, status |-> outcome[d], by |-> d])
    /\ UNCHANGED <<pendingEvents, nextEventID, now, outbound, outcome, receiverVars>>

-----------------------------------------------------------------------------
(* The receiver, the network and the clock *)

\* A receiver verifies signatures, and may reject what it likes.
Receive(d) ==
    /\ d \in network
    /\ network' = network \ {d}
    /\ inbox' = inbox \cup {d}
    /\ \E request \in outbound[d], status \in {"accepted", "rejected"} :
          /\ status = "accepted" => request.valid
          /\ answers' = [answers EXCEPT ![d] = status]
    /\ UNCHANGED <<worldVars, senderVars>>

Lose(d) ==
    /\ d \in network
    /\ network' = network \ {d}
    /\ UNCHANGED <<worldVars, senderVars, answers, inbox>>

advanceTime ==
    /\ now < MaxTime
    /\ now' = now + 1
    /\ UNCHANGED <<pendingEvents, nextEventID, deliveryAttempts, senderVars, receiverVars>>

-----------------------------------------------------------------------------
(* Specification *)

Init ==
    /\ pendingEvents = <<>>
    /\ nextEventID = 0
    /\ deliveryAttempts = <<>>
    /\ now = 0
    /\ pc = [d \in Deliveries |-> "idle"]
    /\ outbound = [d \in Deliveries |-> {}]
    /\ outcome = [d \in Deliveries |-> "none"]
    /\ network = {}
    /\ answers = [d \in Deliveries |-> "none"]
    /\ inbox = {}

SenderStep(d) == ReceiveAnswer(d) \/ GiveUp(d) \/ RecordAttempt(d)

Next ==
    \/ \E app \in Apps : appendPendingAppEvent(app)
    \/ \E i \in DOMAIN pendingEvents : duplicateEvent(pendingEvents[i])
    \/ \E d \in Deliveries, guid \in GUIDs :
          RefuseDelivery(d, guid) \/ \E valid \in BOOLEAN : SendDelivery(d, guid, valid)
    \/ \E d \in Deliveries : SenderStep(d) \/ Receive(d) \/ Lose(d)
    \/ advanceTime

Spec == Init /\ [][Next]_vars

-----------------------------------------------------------------------------
(* Properties *)

\* A GUID names one event for ever, among events of all Apps and their duplicates: the
\* receiver may tell redeliveries from duplicates by it.
GUIDsAreUnique ==
    \A i, j \in DOMAIN pendingEvents : pendingEvents[i].GUID = pendingEvents[j].GUID => i = j

\* Whatever was duplicated and delivered before, a request that reached the receiver carries
\* the body and goes to the App of the event that it names, and a duplicate has those of its
\* source ("Redelivery reuses GUID and body. A semantic duplicate copies the body under a new
\* GUID.", docs/p1-webhook-lifecycle-proof.md, 18-19).
BodiesAreOriginal ==
    /\ \A i, j \in DOMAIN pendingEvents : pendingEvents[i].of = pendingEvents[j].GUID =>
          /\ pendingEvents[i].Body = pendingEvents[j].Body
          /\ pendingEvents[i].AppID = pendingEvents[j].AppID
    /\ \A d \in inbox : \A request \in outbound[d] : \E i \in DOMAIN pendingEvents :
          /\ pendingEvents[i].GUID = request.GUID
          /\ pendingEvents[i].Body = request.Body
          /\ pendingEvents[i].AppID = request.AppID

Attempts(d) == {i \in DOMAIN deliveryAttempts : deliveryAttempts[i].by = d}

\* Every request that the receiver got from a delivery that has ended is on record exactly once,
\* although the sender may not have heard of it, and a record of acceptance is of a request
\* that the receiver accepted, with the event and the signature of that request.
AttemptsAreTrue ==
    \A d \in Deliveries :
        /\ pc[d] \in {"replied", "failed"} <=> Attempts(d) # {}
        /\ \A i, j \in Attempts(d) : i = j
        /\ \A i \in Attempts(d) : \A request \in outbound[d] :
              /\ deliveryAttempts[i].GUID = request.GUID
              /\ deliveryAttempts[i].status # "error" => deliveryAttempts[i].status = answers[d]
              /\ deliveryAttempts[i].status = "accepted" =>
                     d \in inbox /\ ~deliveryAttempts[i].InvalidSignature
=============================================================================

---------------------------- MODULE DeliveryProofs ----------------------------
(***************************************************************************)
(* The log of Delivery is numbered without gaps, its bodies are original,  *)
(* and the attempts are true, for every number of deliveries, Apps and     *)
(* events.                                                                 *)
(***************************************************************************)
EXTENDS Delivery, SequenceTheorems, TLAPS

\* The counter is the length of the log, and the GUID of an event is its place in it.
Numbered ==
    /\ Len(pendingEvents) = nextEventID
    /\ \A i \in DOMAIN pendingEvents : pendingEvents[i].GUID = i

\* What is known of a delivery at each of its stages.
SenderInv ==
    \A d \in Deliveries :
        /\ pc[d] \in {"sending", "answered", "replied", "failed"} <=> outbound[d] # {}
        /\ \A x, y \in outbound[d] : x = y
        /\ pc[d] \in {"answered", "replied", "failed"} <=> outcome[d] # "none"
        /\ outcome[d] \in {"accepted", "rejected"} => answers[d] = outcome[d]

\* An answer is one to a request that arrived, once, and acceptance is of a valid signature.
ReceiverInv ==
    \A d \in Deliveries :
        /\ d \in network => answers[d] = "none" /\ outbound[d] # {}
        /\ answers[d] # "none" <=> d \in inbox
        /\ answers[d] # "none" => outbound[d] # {}
        /\ answers[d] = "accepted" => \A request \in outbound[d] : request.valid

\* A duplicate has the body of its source, wherever that is in the log.
DuplicatesAgree ==
    \A i, j \in DOMAIN pendingEvents : pendingEvents[i].of = pendingEvents[j].GUID =>
        /\ pendingEvents[i].Body = pendingEvents[j].Body
        /\ pendingEvents[i].AppID = pendingEvents[j].AppID

\* The source of an event is not after it.
SourcesPrecede == \A i \in DOMAIN pendingEvents : pendingEvents[i].of \in 1 .. i

\* Every request that was sent is of an event of the log.
RequestsAreLogged ==
    \A d \in Deliveries : \A request \in outbound[d] : \E i \in DOMAIN pendingEvents :
        /\ pendingEvents[i].GUID = request.GUID
        /\ pendingEvents[i].Body = request.Body
        /\ pendingEvents[i].AppID = request.AppID

LogInv == Numbered /\ SourcesPrecede /\ DuplicatesAgree

IInv == TypeOK /\ LogInv /\ RequestsAreLogged /\ SenderInv /\ ReceiverInv /\ AttemptsAreTrue

-----------------------------------------------------------------------------
(* The log *)

\* What the two actions that append to the log do to it.
Appends(event) ==
    /\ nextEventID < MaxEvents
    /\ nextEventID' = nextEventID + 1
    /\ pendingEvents' = Append(pendingEvents, event)
    /\ event.GUID = nextEventID + 1

LEMMA LogGrows ==
    ASSUME TypeOK, LogInv, NEW event \in PendingEvent, Appends(event),
           \/ event.of = event.GUID
           \/ \E i \in DOMAIN pendingEvents :
                 /\ event.of = pendingEvents[i].GUID
                 /\ event.Body = pendingEvents[i].Body
                 /\ event.AppID = pendingEvents[i].AppID
    PROVE  /\ LogInv'
           /\ pendingEvents' \in Seq(PendingEvent)
           /\ DOMAIN pendingEvents \subseteq DOMAIN pendingEvents'
           /\ \A i \in DOMAIN pendingEvents : pendingEvents'[i] = pendingEvents[i]
<1> DEFINE n == Len(pendingEvents)
<1>1. /\ pendingEvents \in Seq(PendingEvent) /\ n \in Nat /\ n = nextEventID
      /\ DOMAIN pendingEvents = 1 .. n
  BY DEF TypeOK, LogInv, Numbered
<1>2. /\ pendingEvents' \in Seq(PendingEvent)
      /\ Len(pendingEvents') = n + 1 /\ DOMAIN pendingEvents' = 1 .. n + 1
      /\ \A i \in 1 .. n : pendingEvents'[i] = pendingEvents[i]
      /\ pendingEvents'[n + 1] = event
  BY <1>1 DEF Appends
<1>3. event.GUID = n + 1 /\ nextEventID' = n + 1
  BY <1>1 DEF Appends
<1>4. \A i \in 1 .. n + 1 : i \in 1 .. n \/ i = n + 1
  BY <1>1
<1>5. \A i \in 1 .. n : pendingEvents[i].GUID = i /\ pendingEvents[i].of \in 1 .. i
  BY <1>1 DEF LogInv, Numbered, SourcesPrecede
<1>6. Numbered'
  BY <1>1, <1>2, <1>3, <1>4, <1>5 DEF Numbered
<1>7. SourcesPrecede'
  <2>1. event.of \in 1 .. n + 1
    BY <1>1, <1>3, <1>5
  <2>2. QED
    BY <1>1, <1>2, <1>4, <1>5, <2>1 DEF SourcesPrecede
<1>8. DuplicatesAgree'
  <2> SUFFICES ASSUME NEW i \in 1 .. n + 1, NEW j \in 1 .. n + 1,
                      pendingEvents'[i].of = pendingEvents'[j].GUID
               PROVE  /\ pendingEvents'[i].Body = pendingEvents'[j].Body
                      /\ pendingEvents'[i].AppID = pendingEvents'[j].AppID
    BY <1>2 DEF DuplicatesAgree
  <2>1. CASE i \in 1 .. n /\ j \in 1 .. n
    BY <1>1, <1>2, <2>1 DEF LogInv, DuplicatesAgree
  <2>2. CASE i \in 1 .. n /\ j = n + 1
    BY <1>1, <1>2, <1>3, <1>5, <2>2
  <2>3. CASE i = n + 1 /\ j = n + 1
    BY <2>3
  <2>4. CASE i = n + 1 /\ j \in 1 .. n
    <3>1. pendingEvents[j].GUID = j /\ event.of = j
      BY <1>2, <1>5, <2>4
    <3>2. PICK k \in DOMAIN pendingEvents : /\ event.of = pendingEvents[k].GUID
                                            /\ event.Body = pendingEvents[k].Body
                                            /\ event.AppID = pendingEvents[k].AppID
      BY <1>1, <1>3, <2>4, <3>1
    <3>3. k = j
      BY <1>1, <1>5, <3>1, <3>2
    <3>4. QED
      BY <1>2, <2>4, <3>2, <3>3
  <2>5. QED
    BY <1>4, <2>1, <2>2, <2>3, <2>4
<1>9. QED
  BY <1>1, <1>2, <1>6, <1>7, <1>8 DEF LogInv

\* Growing the log disturbs nothing else.
LEMMA LoggedGrows ==
    ASSUME RequestsAreLogged, outbound' = outbound,
           DOMAIN pendingEvents \subseteq DOMAIN pendingEvents',
           \A i \in DOMAIN pendingEvents : pendingEvents'[i] = pendingEvents[i]
    PROVE  RequestsAreLogged'
BY DEF RequestsAreLogged

\* What is left to say of IInv after a step that appends to the log.
LEMMA AppendPreserves ==
    ASSUME IInv, NEW event \in PendingEvent, Appends(event),
           \/ event.of = event.GUID
           \/ \E i \in DOMAIN pendingEvents :
                 /\ event.of = pendingEvents[i].GUID
                 /\ event.Body = pendingEvents[i].Body
                 /\ event.AppID = pendingEvents[i].AppID,
           UNCHANGED <<deliveryAttempts, now, senderVars, receiverVars>>
    PROVE  IInv'
<1>1. /\ LogInv' /\ pendingEvents' \in Seq(PendingEvent)
      /\ DOMAIN pendingEvents \subseteq DOMAIN pendingEvents'
      /\ \A i \in DOMAIN pendingEvents : pendingEvents'[i] = pendingEvents[i]
  BY LogGrows DEF IInv
<1>2. TypeOK'
  BY <1>1, BoundsAssumption DEF IInv, TypeOK, Appends, senderVars, receiverVars
<1>3. RequestsAreLogged'
  BY <1>1, LoggedGrows DEF IInv, senderVars
<1>4. SenderInv' /\ ReceiverInv' /\ AttemptsAreTrue'
  BY DEF IInv, SenderInv, ReceiverInv, AttemptsAreTrue, Attempts, senderVars, receiverVars
<1>5. QED
  BY <1>1, <1>2, <1>3, <1>4 DEF IInv

LEMMA FreshPreserves ==
    ASSUME IInv, NEW app \in Apps, appendPendingAppEvent(app)
    PROVE  IInv'
<1> DEFINE event == [GUID |-> nextEventID + 1, Body |-> nextEventID + 1, AppID |-> app,
                     of |-> nextEventID + 1]
<1>1. nextEventID + 1 \in GUIDs
  BY BoundsAssumption DEF IInv, TypeOK, appendPendingAppEvent, GUIDs
<1>2. event \in PendingEvent
  BY <1>1 DEF PendingEvent
<1>3. Appends(event) /\ UNCHANGED <<deliveryAttempts, now, senderVars, receiverVars>>
  BY DEF appendPendingAppEvent, NextGUID, Appends
<1>4. event.of = event.GUID
  OBVIOUS
<1>5. QED
  BY <1>2, <1>3, <1>4, AppendPreserves

LEMMA DuplicatePreserves ==
    ASSUME IInv, NEW i \in DOMAIN pendingEvents, duplicateEvent(pendingEvents[i])
    PROVE  IInv'
<1> DEFINE source == pendingEvents[i]
           event == [source EXCEPT !.GUID = nextEventID + 1, !.Body = source.Body,
                                   !.of = source.GUID]
<1>1. nextEventID + 1 \in GUIDs
  BY BoundsAssumption DEF IInv, TypeOK, duplicateEvent, GUIDs
<1>2. source \in PendingEvent
  BY DEF IInv, TypeOK
<1>3. /\ event \in PendingEvent
      /\ event.GUID = nextEventID + 1 /\ event.of = source.GUID
      /\ event.Body = source.Body /\ event.AppID = source.AppID
  BY <1>1, <1>2 DEF PendingEvent
<1>4. Appends(event) /\ UNCHANGED <<deliveryAttempts, now, senderVars, receiverVars>>
  BY <1>3 DEF duplicateEvent, NextGUID, DuplicateBody, Appends
<1>5. QED
  BY <1>3, <1>4, AppendPreserves

-----------------------------------------------------------------------------
(* A delivery and its receiver *)

\* An event that was found is one of the log.
LEMMA FoundIsLogged ==
    ASSUME NEW guid, NEW event \in Found(guid)
    PROVE  \E i \in DOMAIN pendingEvents : event = pendingEvents[i]
BY DEF Found

LEMMA RefusePreserves ==
    ASSUME IInv, NEW d \in Deliveries, NEW guid \in GUIDs, RefuseDelivery(d, guid)
    PROVE  IInv'
<1> USE DEF RefuseDelivery, Goto, worldVars, receiverVars
<1>1. TypeOK'
  BY DEF IInv, TypeOK, Stages
<1>2. LogInv' /\ RequestsAreLogged'
  BY DEF IInv, LogInv, Numbered, SourcesPrecede, DuplicatesAgree, RequestsAreLogged
<1>3. SenderInv' /\ ReceiverInv'
  BY DEF IInv, TypeOK, SenderInv, ReceiverInv
<1>4. AttemptsAreTrue'
  BY DEF IInv, TypeOK, AttemptsAreTrue, Attempts
<1>5. QED
  BY <1>1, <1>2, <1>3, <1>4 DEF IInv

\* A delivery sends one request, and nobody has answered it before.
LEMMA SendPreserves ==
    ASSUME IInv, NEW d \in Deliveries, NEW guid \in GUIDs, NEW valid \in BOOLEAN,
           SendDelivery(d, guid, valid)
    PROVE  IInv'
<1>1. PICK event \in Found(guid) :
         outbound' = [outbound EXCEPT ![d] =
             {[GUID |-> event.GUID, Body |-> event.Body, AppID |-> event.AppID,
               valid |-> valid, at |-> now]}]
  BY DEF SendDelivery
<1> DEFINE request == [GUID |-> event.GUID, Body |-> event.Body, AppID |-> event.AppID,
                       valid |-> valid, at |-> now]
<1>2. /\ pc[d] = "idle" /\ pc' = [pc EXCEPT ![d] = "sending"]
      /\ network' = network \cup {d}
      /\ UNCHANGED <<pendingEvents, nextEventID, deliveryAttempts, now, outcome, answers, inbox>>
  BY DEF SendDelivery, Goto, worldVars
<1>3. PICK i \in DOMAIN pendingEvents : event = pendingEvents[i]
  BY FoundIsLogged
<1>4. event \in PendingEvent
  BY <1>3 DEF IInv, TypeOK
<1>5. request \in Request
  BY <1>4 DEF IInv, TypeOK, PendingEvent, Request
<1>6. outbound[d] = {} /\ answers[d] = "none" /\ outcome[d] = "none"
  BY <1>2 DEF IInv, SenderInv, ReceiverInv
<1>7. TypeOK'
  BY <1>1, <1>2, <1>5 DEF IInv, TypeOK, Stages
<1>8. LogInv'
  BY <1>2 DEF IInv, LogInv, Numbered, SourcesPrecede, DuplicatesAgree
<1>9. RequestsAreLogged'
  <2> SUFFICES ASSUME NEW e \in Deliveries, NEW r \in outbound'[e]
               PROVE  \E j \in DOMAIN pendingEvents : /\ pendingEvents[j].GUID = r.GUID
                                                      /\ pendingEvents[j].Body = r.Body
                                                      /\ pendingEvents[j].AppID = r.AppID
    BY <1>2 DEF RequestsAreLogged
  <2>1. CASE e = d
    BY <1>1, <1>3, <2>1 DEF IInv, TypeOK
  <2>2. CASE e # d
    BY <1>1, <2>2 DEF IInv, TypeOK, RequestsAreLogged
  <2>3. QED
    BY <2>1, <2>2
<1>10. SenderInv'
  <2> SUFFICES ASSUME NEW e \in Deliveries
               PROVE  /\ pc'[e] \in {"sending", "answered", "replied", "failed"}
                             <=> outbound'[e] # {}
                      /\ \A x, y \in outbound'[e] : x = y
                      /\ pc'[e] \in {"answered", "replied", "failed"} <=> outcome'[e] # "none"
                      /\ outcome'[e] \in {"accepted", "rejected"} => answers'[e] = outcome'[e]
    BY DEF SenderInv
  <2>1. CASE e = d
    <3>1. outbound'[e] = {request} /\ pc'[e] = "sending"
      BY <1>1, <1>2, <2>1 DEF IInv, TypeOK
    <3>2. outcome'[e] = "none"
      BY <1>2, <1>6, <2>1
    <3>3. QED
      BY <3>1, <3>2
  <2>2. CASE e # d
    BY <1>1, <1>2, <2>2 DEF IInv, TypeOK, SenderInv
  <2>3. QED
    BY <2>1, <2>2
<1>11. ReceiverInv'
  BY <1>1, <1>2, <1>6 DEF IInv, TypeOK, ReceiverInv
<1>12. AttemptsAreTrue'
  BY <1>1, <1>2 DEF IInv, TypeOK, AttemptsAreTrue, Attempts
<1>13. QED
  BY <1>7, <1>8, <1>9, <1>10, <1>11, <1>12 DEF IInv

\* Whatever the sender learns, the request and the log stay as they are.
LEMMA OutcomePreserves ==
    ASSUME IInv, NEW d \in Deliveries, ReceiveAnswer(d) \/ GiveUp(d)
    PROVE  IInv'
<1>1. /\ pc[d] = "sending" /\ pc' = [pc EXCEPT ![d] = "answered"]
      /\ UNCHANGED <<pendingEvents, nextEventID, deliveryAttempts, now, outbound>>
      /\ UNCHANGED <<network, answers, inbox>>
  BY DEF ReceiveAnswer, GiveUp, Goto, worldVars, receiverVars
<1>2. PICK result \in {"accepted", "rejected", "error"} :
         /\ outcome' = [outcome EXCEPT ![d] = result]
         /\ result = "error" \/ answers[d] = result
  BY DEF ReceiveAnswer, GiveUp, IInv, TypeOK
<1>3. TypeOK'
  BY <1>1, <1>2 DEF IInv, TypeOK, Stages
<1>4. LogInv' /\ RequestsAreLogged'
  BY <1>1 DEF IInv, LogInv, Numbered, SourcesPrecede, DuplicatesAgree, RequestsAreLogged
<1>5. SenderInv'
  BY <1>1, <1>2 DEF IInv, TypeOK, SenderInv
<1>6. ReceiverInv'
  BY <1>1 DEF IInv, ReceiverInv
<1>7. AttemptsAreTrue'
  BY <1>1 DEF IInv, TypeOK, AttemptsAreTrue, Attempts
<1>8. QED
  BY <1>3, <1>4, <1>5, <1>6, <1>7 DEF IInv

\* The attempt of a delivery is the only one it ever makes, and tells what became of it.
LEMMA RecordPreserves ==
    ASSUME IInv, NEW d \in Deliveries, RecordAttempt(d)
    PROVE  IInv'
<1>1. PICK request \in outbound[d] :
         deliveryAttempts' = Append(deliveryAttempts,
             [GUID |-> request.GUID, InvalidSignature |-> ~request.valid,
              AttemptedAt |-> request.at, status |-> outcome[d], by |-> d])
  BY DEF RecordAttempt
<1> DEFINE attempt == [GUID |-> request.GUID, InvalidSignature |-> ~request.valid,
                       AttemptedAt |-> request.at, status |-> outcome[d], by |-> d]
           n == Len(deliveryAttempts)
<1>2. PICK stage \in {"replied", "failed"} : pc' = [pc EXCEPT ![d] = stage]
  BY DEF RecordAttempt, Goto
<1>3. /\ pc[d] = "answered"
      /\ UNCHANGED <<pendingEvents, nextEventID, now, outbound, outcome>>
      /\ UNCHANGED <<network, answers, inbox>>
  BY DEF RecordAttempt, Goto, receiverVars
<1>4. request \in Request /\ outcome[d] \in {"accepted", "rejected", "error"}
  BY <1>3 DEF IInv, TypeOK, SenderInv
<1>5. attempt \in DeliveryAttempt
  BY <1>4 DEF Request, DeliveryAttempt
<1>6. /\ deliveryAttempts \in Seq(DeliveryAttempt) /\ n \in Nat
      /\ DOMAIN deliveryAttempts = 1 .. n
  BY DEF IInv, TypeOK
<1>7. /\ deliveryAttempts' \in Seq(DeliveryAttempt) /\ DOMAIN deliveryAttempts' = 1 .. n + 1
      /\ \A i \in 1 .. n : deliveryAttempts'[i] = deliveryAttempts[i]
      /\ deliveryAttempts'[n + 1] = attempt
  BY <1>1, <1>5, <1>6
<1>8. TypeOK'
  BY <1>2, <1>3, <1>7 DEF IInv, TypeOK, Stages
<1>9. LogInv' /\ RequestsAreLogged'
  BY <1>3 DEF IInv, LogInv, Numbered, SourcesPrecede, DuplicatesAgree, RequestsAreLogged
<1>10. SenderInv'
  BY <1>2, <1>3 DEF IInv, TypeOK, SenderInv
<1>11. ReceiverInv'
  BY <1>3 DEF IInv, ReceiverInv
<1>12. AttemptsAreTrue'
  <2>1. Attempts(d) = {}
    BY <1>3 DEF IInv, AttemptsAreTrue
  <2>2. Attempts(d)' = {n + 1}
    <3>1. \A i \in 1 .. n + 1 : i \in 1 .. n \/ i = n + 1
      BY <1>6
    <3>2. \A i \in 1 .. n : deliveryAttempts'[i].by # d
      BY <1>6, <1>7, <2>1 DEF Attempts
    <3>3. n + 1 \in 1 .. n + 1 /\ deliveryAttempts'[n + 1].by = d
      BY <1>6, <1>7
    <3>4. QED
      BY <1>7, <3>1, <3>2, <3>3 DEF Attempts
  <2>3. \A e \in Deliveries : e # d => Attempts(e)' = Attempts(e)
    <3>1. \A i \in 1 .. n + 1 : i \in 1 .. n \/ i = n + 1
      BY <1>6
    <3>2. 1 .. n \subseteq 1 .. n + 1 /\ deliveryAttempts'[n + 1].by = d
      BY <1>6, <1>7
    <3>3. QED
      BY <1>6, <1>7, <3>1, <3>2 DEF Attempts
  <2>4. SUFFICES ASSUME NEW e \in Deliveries
                 PROVE  /\ pc'[e] \in {"replied", "failed"} <=> Attempts(e)' # {}
                        /\ \A i, j \in Attempts(e)' : i = j
                        /\ \A i \in Attempts(e)' : \A r \in outbound'[e] :
                              /\ deliveryAttempts'[i].GUID = r.GUID
                              /\ deliveryAttempts'[i].status # "error"
                                    => deliveryAttempts'[i].status = answers'[e]
                              /\ deliveryAttempts'[i].status = "accepted" =>
                                    e \in inbox' /\ ~deliveryAttempts'[i].InvalidSignature
    BY DEF AttemptsAreTrue
  <2>5. CASE e = d
    <3>1. pc'[e] \in {"replied", "failed"}
      BY <1>2, <2>5 DEF IInv, TypeOK
    <3>2. \A r \in outbound'[e] : r = request
      BY <1>1, <1>3, <2>5 DEF IInv, SenderInv
    <3>3. outcome[d] # "error" => outcome[d] = answers[d]
      BY <1>4 DEF IInv, SenderInv
    <3>4. outcome[d] = "accepted" => d \in inbox /\ request.valid
      BY <3>3 DEF IInv, ReceiverInv
    <3>5. /\ attempt.GUID = request.GUID /\ attempt.status = outcome[d]
          /\ attempt.InvalidSignature = ~request.valid
      OBVIOUS
    <3>6. QED
      BY <1>3, <1>7, <2>2, <2>5, <3>1, <3>2, <3>3, <3>4, <3>5
  <2>6. CASE e # d
    <3>1. Attempts(e)' = Attempts(e) /\ pc'[e] = pc[e]
      BY <1>2, <2>3, <2>6 DEF IInv, TypeOK
    <3>2. \A i \in Attempts(e) : deliveryAttempts'[i] = deliveryAttempts[i]
      BY <1>6, <1>7 DEF Attempts
    <3>3. QED
      BY <1>3, <3>1, <3>2 DEF IInv, AttemptsAreTrue
  <2>7. QED
    BY <2>5, <2>6
<1>13. QED
  BY <1>8, <1>9, <1>10, <1>11, <1>12 DEF IInv

\* A late request, of a delivery that gave up, is answered to nobody.
LEMMA ReceivePreserves ==
    ASSUME IInv, NEW d \in Deliveries, Receive(d)
    PROVE  IInv'
<1>1. PICK request \in outbound[d], status \in {"accepted", "rejected"} :
         /\ status = "accepted" => request.valid
         /\ answers' = [answers EXCEPT ![d] = status]
  BY DEF Receive
<1>2. /\ d \in network /\ network' = network \ {d} /\ inbox' = inbox \cup {d}
      /\ UNCHANGED <<pendingEvents, nextEventID, deliveryAttempts, now, pc, outbound, outcome>>
  BY DEF Receive, worldVars, senderVars
<1>3. answers[d] = "none" /\ outcome[d] \in {"none", "error"}
  BY <1>2 DEF IInv, TypeOK, SenderInv, ReceiverInv
<1>4. TypeOK'
  BY <1>1, <1>2 DEF IInv, TypeOK
<1>5. LogInv' /\ RequestsAreLogged'
  BY <1>2 DEF IInv, LogInv, Numbered, SourcesPrecede, DuplicatesAgree, RequestsAreLogged
<1>6. SenderInv'
  BY <1>1, <1>2, <1>3 DEF IInv, TypeOK, SenderInv
<1>7. ReceiverInv'
  <2>1. \A r \in outbound[d] : r = request
    BY DEF IInv, SenderInv
  <2>2. QED
    BY <1>1, <1>2, <2>1 DEF IInv, TypeOK, ReceiverInv
<1>8. AttemptsAreTrue'
  <2>1. \A i \in Attempts(d) : deliveryAttempts[i].status = "error"
    <3>1. \A i \in DOMAIN deliveryAttempts : deliveryAttempts[i] \in DeliveryAttempt
      BY DEF IInv, TypeOK
    <3>2. outbound[d] # {}
      BY <1>2 DEF IInv, ReceiverInv
    <3>3. QED
      BY <1>3, <3>1, <3>2 DEF IInv, AttemptsAreTrue, Attempts, DeliveryAttempt
  <2>2. QED
    BY <1>1, <1>2, <2>1 DEF IInv, TypeOK, AttemptsAreTrue, Attempts
<1>9. QED
  BY <1>4, <1>5, <1>6, <1>7, <1>8 DEF IInv

\* The network may lose what it likes, and time may pass.
LEMMA RestPreserves ==
    ASSUME IInv, (\E d \in Deliveries : Lose(d)) \/ advanceTime
    PROVE  IInv'
<1>1. /\ UNCHANGED <<pendingEvents, nextEventID, deliveryAttempts, pc, outbound, outcome>>
      /\ UNCHANGED <<answers, inbox>>
      /\ network' \subseteq network /\ now' \in 0 .. MaxTime
  BY BoundsAssumption DEF Lose, advanceTime, IInv, TypeOK, worldVars, senderVars, receiverVars
<1>2. TypeOK'
  BY <1>1 DEF IInv, TypeOK
<1>3. LogInv' /\ RequestsAreLogged'
  BY <1>1 DEF IInv, LogInv, Numbered, SourcesPrecede, DuplicatesAgree, RequestsAreLogged
<1>4. SenderInv' /\ ReceiverInv' /\ AttemptsAreTrue'
  BY <1>1 DEF IInv, SenderInv, ReceiverInv, AttemptsAreTrue, Attempts
<1>5. QED
  BY <1>2, <1>3, <1>4 DEF IInv

-----------------------------------------------------------------------------
(* Theorems *)

LEMMA InitEstablishes == Init => IInv
<1> SUFFICES ASSUME Init
             PROVE  IInv
  OBVIOUS
<1>1. TypeOK
  BY BoundsAssumption DEF Init, TypeOK, Stages
<1>2. LogInv
  BY DEF Init, LogInv, Numbered, SourcesPrecede, DuplicatesAgree
<1>3. RequestsAreLogged /\ SenderInv /\ ReceiverInv /\ AttemptsAreTrue
  BY DEF Init, RequestsAreLogged, SenderInv, ReceiverInv, AttemptsAreTrue, Attempts
<1>4. QED
  BY <1>1, <1>2, <1>3 DEF IInv

LEMMA NextPreserves == IInv /\ [Next]_vars => IInv'
<1> SUFFICES ASSUME IInv, [Next]_vars
             PROVE  IInv'
  OBVIOUS
<1>1. CASE UNCHANGED vars
  <2>1. UNCHANGED <<pendingEvents, nextEventID, deliveryAttempts, pc, outbound, outcome>>
    BY <1>1 DEF vars, worldVars, senderVars
  <2>2. UNCHANGED <<now, network, answers, inbox>>
    BY <1>1 DEF vars, worldVars, receiverVars
  <2>3. QED
    BY <2>1, <2>2 DEF IInv, TypeOK, LogInv, Numbered, SourcesPrecede, DuplicatesAgree,
       RequestsAreLogged, SenderInv, ReceiverInv, AttemptsAreTrue, Attempts
<1>2. CASE \E app \in Apps : appendPendingAppEvent(app)
  BY <1>2, FreshPreserves
<1>3. CASE \E i \in DOMAIN pendingEvents : duplicateEvent(pendingEvents[i])
  BY <1>3, DuplicatePreserves
<1>4. CASE \E d \in Deliveries, guid \in GUIDs : RefuseDelivery(d, guid)
  BY <1>4, RefusePreserves
<1>5. CASE \E d \in Deliveries, guid \in GUIDs, valid \in BOOLEAN : SendDelivery(d, guid, valid)
  BY <1>5, SendPreserves
<1>6. CASE \E d \in Deliveries : ReceiveAnswer(d) \/ GiveUp(d)
  BY <1>6, OutcomePreserves
<1>7. CASE \E d \in Deliveries : RecordAttempt(d)
  BY <1>7, RecordPreserves
<1>8. CASE \E d \in Deliveries : Receive(d)
  BY <1>8, ReceivePreserves
<1>9. CASE (\E d \in Deliveries : Lose(d)) \/ advanceTime
  BY <1>9, RestPreserves
<1>10. QED
  BY <1>1, <1>2, <1>3, <1>4, <1>5, <1>6, <1>7, <1>8, <1>9 DEF Next, SenderStep

LEMMA Invariance == Spec => []IInv
BY InitEstablishes, NextPreserves, PTL DEF Spec

\* The variables of deliveries and of their log have the types that TypeOK gives them, for
\* every number of deliveries and Apps and every bound.
THEOREM TypeCorrect == Spec => []TypeOK
<1>1. IInv => TypeOK
  BY DEF IInv
<1>2. QED
  BY <1>1, Invariance, PTL

\* appendPendingAppEvent and duplicateEvent never name two events alike.
THEOREM GUIDsCorrect == Spec => []GUIDsAreUnique
<1>1. IInv => GUIDsAreUnique
  BY DEF IInv, LogInv, Numbered, GUIDsAreUnique
<1>2. QED
  BY <1>1, Invariance, PTL

\* What reaches a receiver is what was first serialised, through every chain of duplicates.
THEOREM BodiesCorrect == Spec => []BodiesAreOriginal
<1>1. IInv => BodiesAreOriginal
  BY DEF IInv, TypeOK, LogInv, DuplicatesAgree, RequestsAreLogged, BodiesAreOriginal
<1>2. QED
  BY <1>1, Invariance, PTL

\* deliverEvent records every attempt once, and truthfully, whatever the network does.
THEOREM AttemptsCorrect == Spec => []AttemptsAreTrue
<1>1. IInv => AttemptsAreTrue
  BY DEF IInv
<1>2. QED
  BY <1>1, Invariance, PTL
=============================================================================

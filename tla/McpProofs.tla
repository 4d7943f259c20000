------------------------------ MODULE McpProofs -------------------------------
(***************************************************************************)
(* Theorems about the client of module McpClient, for any number of        *)
(* callers, requests and frames, whatever the server writes and however    *)
(* Close, timeouts and the pump interleave.                                *)
(***************************************************************************)
EXTENDS McpClient, SequenceTheorems, TLAPS

(***************************************************************************)
(* The inductive invariant.  That an answer is one's own is true at the    *)
(* end of a long way: of what the server may answer, of what is on its     *)
(* stdout, of what the pump holds and of what is on each channel; and it   *)
(* stays true because an id is never used twice.  That nobody is left to   *)
(* his timer is true because a waiter's channel is, at every moment,       *)
(* registered, in the hands of whoever took it out, or full.               *)
(***************************************************************************)
InCall(g) == call[g].at # "idle"

(* An id names one request, and its channel, for ever. *)
OwnIds ==
  /\ \A i \in Serial : pending[i] \in {0, i}
  /\ \A g \in Goroutine :
       /\ InCall(g) => /\ call[g].id = call[g].serial
                       /\ call[g].serial \in 1..nextID
       /\ ~InCall(g) => call[g] = Idle
  /\ \A g, h \in Goroutine : g # h /\ InCall(g) /\ InCall(h) =>
       call[g].serial # call[h].serial

(* A frame that answers a request bears its id, on all of its way. *)
OwnFrame == {frame \in Frame : frame.to \in {0, frame.id}}

OwnFrames ==
  /\ unanswered \subseteq OwnFrame
  /\ stdout \in Seq(OwnFrame)
  /\ hand.msg.what = "frame" => \A s \in hand.chans : hand.msg.to \in {0, s}
  /\ \A s \in Serial : channel[s].what = "frame" => channel[s].to \in {0, s}
  /\ \A g \in Goroutine : InCall(g) /\ call[g].got.what = "frame" =>
       call[g].got.to \in {0, call[g].serial}

(* Whoever may still read his channel will find something on it, or it is   *)
(* where the pump or Close will find it.  What the pump drained is not      *)
(* registered again but by a request that came later.                      *)
NotForgotten ==
  /\ pump \in {"off", "reading", "failing", "ended"} => hand.chans = {}
  /\ hand.msg # Empty
  /\ closing # "release" => releasing = {}
  /\ \A g \in Goroutine : call[g].at \in {"writing", "waiting"} =>
       \/ pending[call[g].serial] # 0
       \/ channel[call[g].serial] # Empty
       \/ call[g].serial \in hand.chans \cup releasing
  /\ Drained => \A g \in Goroutine : InCall(g) /\ ~call[g].late =>
       pending[call[g].serial] = 0

(* How far Connect and Close can be. *)
Connection ==
  /\ closed <=> closing # "open"
  /\ closing # "open" => phase \in {"abandon", "bound", "failed"}
  /\ closing \in {"pump", "drain", "release", "returned"} => server = "exited"
  /\ closing \in {"release", "returned"} => \A i \in Serial : pending[i] = 0
  /\ phase = "failed" => closing = "returned"
  /\ phase = "new" => pump = "off"
  /\ InCall(Opener) => phase \in {"initialize", "list"}

McpIInv == McpTypeOK /\ OwnIds /\ OwnFrames /\ NotForgotten /\ Connection

------------------------------------------------------------------------------
(* Operators of the model *)

(* A frame, read as an answer, is a message to the caller it names. *)
LEMMA AnswerIsMessage ==
  ASSUME NEW frame \in Frame
  PROVE  /\ Answer(frame) \in Message /\ Answer(frame).what = "frame"
         /\ Answer(frame).to = frame.to
  BY DEF Answer, Message

LEMMA Messages ==
  /\ Empty \in Message /\ Nil \in Message /\ Error \notin Message
  /\ Nil # Empty /\ Nil.what # "frame" /\ Empty.what # "frame" /\ Error.what # "frame"
  /\ \A frame \in Frame : Answer(frame) # Empty
  BY DEF Message, Empty, Nil, Error, Answer

(* A send fills the slots that are free and touches no other. *)
LEMMA SentProperties ==
  ASSUME McpTypeOK, NEW chans \in SUBSET Serial, NEW msg \in Message
  PROVE  /\ Sent(chans, msg) \in [Serial -> Message]
         /\ \A s \in Serial :
              /\ channel[s] # Empty => Sent(chans, msg)[s] = channel[s]
              /\ s \notin chans => Sent(chans, msg)[s] = channel[s]
              /\ s \in chans /\ msg # Empty => Sent(chans, msg)[s] # Empty
              /\ Sent(chans, msg)[s] \in {msg, channel[s]}
  BY DEF Sent, McpTypeOK

LEMMA Bounds ==
  ASSUME McpTypeOK
  PROVE  /\ MaxRequests \in Nat /\ nextID \in Nat
         /\ Serial \subseteq 1..MaxRequests /\ 0 \notin Serial
         /\ nextID < MaxRequests => /\ nextID + 1 \in Serial
                                    /\ nextID + 1 \in 0..MaxRequests
                                    /\ NewId = nextID + 1
         /\ 1..nextID \subseteq Serial
  BY McpBounds DEF McpTypeOK, Serial, NewId

------------------------------------------------------------------------------
(* Types *)

CallType == [at : {"idle", "writing", "waiting", "leaving"},
             id : 0..MaxRequests, serial : 0..MaxRequests,
             late : BOOLEAN, got : Message \cup {Error}]

LEMMA InitTypes == McpInit => McpTypeOK
  <1> SUFFICES ASSUME McpInit PROVE McpTypeOK
    OBVIOUS
  <1>1. Idle \in CallType
    BY McpBounds, Messages DEF Idle, CallType
  <1>2. Registered = {}
    BY DEF McpInit, Registered
  <1>3. stdout \in Seq(Frame)
    BY EmptySeq DEF McpInit
  <1>4. hand \in [chans : SUBSET Serial, msg : Message]
    BY Messages DEF McpInit, NoHand
  <1>5. call \in [Goroutine -> CallType]
    BY <1>1 DEF McpInit
  <1>6. /\ pending \in [Serial -> 0..MaxRequests] /\ channel \in [Serial -> Message]
        /\ nextID \in 0..MaxRequests /\ frames \in 0..MaxFrames
    BY McpBounds, Messages DEF McpInit
  <1> QED
    BY <1>2, <1>3, <1>4, <1>5, <1>6 DEF McpInit, McpTypeOK, CallType

(* Steps of a caller. *)
LEMMA RequestTypes ==
  ASSUME McpTypeOK, OwnIds, NEW g \in Goroutine, Request(g)
  PROVE  McpTypeOK'
  <1> USE DEF connectVars, serverVars, pumpVars
  <1>1. /\ nextID + 1 \in Serial /\ nextID + 1 \in 0..MaxRequests
        /\ NewId = nextID + 1 /\ nextID' = nextID + 1
        /\ pending' = [pending EXCEPT ![nextID + 1] = nextID + 1]
        /\ call[g] = Idle
    BY Bounds DEF Request, MayRequest
  <1>2. [at |-> "writing", id |-> NewId, serial |-> nextID + 1,
         late |-> Drained, got |-> Empty] \in CallType
    BY <1>1, Messages DEF CallType, Drained
  <1>3. call' \in [Goroutine -> CallType]
    BY <1>2 DEF Request, McpTypeOK, CallType
  <1>4. ASSUME NEW s \in Registered'
        PROVE  \E h \in Goroutine : call'[h].serial = s
    <2>1. CASE s = nextID + 1
      BY <2>1 DEF Request, McpTypeOK
    <2>2. CASE s \in Registered
      <3>1. s # 0
        BY <2>2 DEF Registered
      <3>2. PICK h \in Goroutine : call[h].serial = s
        BY <2>2 DEF McpTypeOK
      <3>3. h # g
        BY <1>1, <3>1, <3>2 DEF Idle
      <3>4. call'[h] = call[h]
        BY <3>3 DEF Request, McpTypeOK
      <3> QED
        BY <3>2, <3>4
    <2> QED
      BY <1>1, <2>1, <2>2 DEF Registered, McpTypeOK
  <1> QED
    BY <1>1, <1>3, <1>4 DEF Request, McpTypeOK, CallType

(* What is registered stays somebody's when nothing is registered anew and  *)
(* nobody is given another request.                                        *)
LEMMA RegisteredKept ==
  ASSUME McpTypeOK, pending' \in [Serial -> 0..MaxRequests],
         \A i \in Serial : pending'[i] \in {0, pending[i]},
         \A g \in Goroutine : call'[g].serial = call[g].serial
  PROVE  \A s \in Registered' : \E g \in Goroutine : call'[g].serial = s
  <1> SUFFICES ASSUME NEW s \in Registered'
               PROVE  \E g \in Goroutine : call'[g].serial = s
    OBVIOUS
  <1>1. s \in Registered
    BY DEF Registered
  <1> QED
    BY <1>1 DEF McpTypeOK

LEMMA CallTypes ==
  ASSUME McpTypeOK, OwnIds, NEW g \in Goroutine,
         Written(g) \/ WriteFails(g) \/ TimesOut(g) \/ Receives(g)
  PROVE  McpTypeOK'
  <1> USE DEF connectVars, routeVars, serverVars, pumpVars, RequestOnly
  <1>1. /\ call' \in [Goroutine -> CallType]
        /\ \A h \in Goroutine : call'[h].serial = call[h].serial
    <2>1. call \in [Goroutine -> CallType]
      BY DEF McpTypeOK, CallType
    <2>2. ASSUME NEW got \in Message \cup {Error}, Ends(g, got)
          PROVE  /\ call' \in [Goroutine -> CallType]
                 /\ \A h \in Goroutine : call'[h].serial = call[h].serial
      BY <2>1, <2>2 DEF Ends, CallType
    <2>3. CASE Written(g)
      BY <2>1, <2>3 DEF Written, CallType
    <2>4. CASE WriteFails(g) \/ TimesOut(g)
      BY <2>2, <2>4 DEF WriteFails, TimesOut
    <2>5. CASE Receives(g)
      <3>1. call[g].serial \in Serial
        BY <2>5, Bounds DEF Receives, OwnIds, InCall
      <3>2. channel[call[g].serial] \in Message
        BY <3>1 DEF McpTypeOK
      <3> QED
        BY <2>2, <2>5, <3>2 DEF Receives
    <2> QED
      BY <2>3, <2>4, <2>5
  <1>2. channel' \in [Serial -> Message]
    BY Messages DEF Written, WriteFails, TimesOut, Receives, McpTypeOK
  <1>3. unanswered' \subseteq Frame
    <2>1. [id |-> call[g].id, to |-> call[g].serial] \in Frame
      BY DEF McpTypeOK, Frame
    <2> QED
      BY <2>1 DEF Written, WriteFails, TimesOut, Receives, McpTypeOK
  <1>4. UNCHANGED <<phase, closing, closed, releasing, pending, nextID, server, stdout,
                    frames, pump, hand>>
    BY DEF Written, WriteFails, TimesOut, Receives
  <1>5. \A s \in Registered' : \E h \in Goroutine : call'[h].serial = s
    BY <1>1, <1>4, RegisteredKept DEF McpTypeOK
  <1> QED
    BY <1>1, <1>2, <1>3, <1>4, <1>5 DEF McpTypeOK, CallType

(* The deferred delete takes the caller's own channel out. *)
LEMMA LeaveTypes ==
  ASSUME McpTypeOK, OwnIds, NEW g \in Goroutine, Leave(g)
  PROVE  McpTypeOK'
  <1> USE DEF serverVars, pumpVars
  <1>1. /\ call' = [call EXCEPT ![g] = Idle]
        /\ pending' = [pending EXCEPT ![call[g].id] = 0]
        /\ UNCHANGED <<closing, closed, releasing, channel, nextID, server, unanswered,
                       stdout, frames, pump, hand>>
        /\ InCall(g)
    BY DEF Leave, InCall
  <1>2. call' \in [Goroutine -> CallType]
    <2>1. Idle \in CallType
      BY McpBounds, Messages DEF Idle, CallType
    <2> QED
      BY <1>1, <2>1 DEF McpTypeOK, CallType
  <1>3. pending' \in [Serial -> 0..MaxRequests]
    <2>1. 0 \in 0..MaxRequests /\ pending \in [Serial -> 0..MaxRequests]
      BY McpBounds DEF McpTypeOK
    <2> QED
      BY <1>1, <2>1
  <1>4. phase' \in {"new", "initialize", "notify", "list", "bound", "abandon", "failed"}
    BY DEF Leave, ShakesHands, Binds, Abandons, McpTypeOK
  <1>5. ASSUME NEW s \in Registered'
        PROVE  \E h \in Goroutine : call'[h].serial = s
    <2>1. PICK i \in Serial : pending'[i] = s /\ s # 0
      BY DEF Registered
    <2>2. i # call[g].id /\ pending[i] = s /\ s = i
      BY <1>1, <2>1 DEF McpTypeOK, OwnIds
    <2>3. PICK h \in Goroutine : call[h].serial = s
      BY <2>1, <2>2 DEF McpTypeOK, Registered
    <2>4. h # g
      BY <1>1, <2>2, <2>3 DEF OwnIds
    <2> QED
      BY <1>1, <2>3, <2>4 DEF McpTypeOK
  <1> QED
    BY <1>1, <1>2, <1>3, <1>4, <1>5 DEF McpTypeOK, CallType

(* Steps of Connect, Close and the server, which leave the callers alone.   *)
LEMMA ConnectionTypes ==
  ASSUME McpTypeOK,
         Launch \/ Notify \/ CloseBegins \/ CloseGoesOn \/ ServerStops
  PROVE  McpTypeOK'
  <1> USE DEF routeVars, serverVars, pumpVars, connectVars
  <1>1. CASE Launch \/ Notify \/ CloseBegins \/ CloseStops \/ CloseAwaitsPump \/ ServerStops
    <2>1. /\ UNCHANGED <<releasing, call, pending, channel, nextID, unanswered, stdout, frames, hand>>
          /\ Registered' = Registered
      BY <1>1 DEF Launch, Notify, CloseBegins, CloseStops, CloseAwaitsPump, ServerStops, Registered
    <2>2. /\ phase' \in {"new", "initialize", "notify", "list", "bound", "abandon", "failed"}
          /\ closing' \in {"open", "stop", "pump", "drain", "release", "returned"}
          /\ closed' \in BOOLEAN
          /\ pump' \in {"off", "reading", "handing", "failing", "draining", "ended"}
          /\ server' \in {"off", "up", "exited"}
      BY <1>1, ZenonT(40) DEF Launch, Notify, CloseBegins, CloseStops, CloseAwaitsPump, ServerStops, McpTypeOK
    <2> QED
      BY <2>1, <2>2 DEF McpTypeOK
  <1>2. CASE CloseDrains
    <2>1. pending' \in [Serial -> 0..MaxRequests] /\ releasing' \subseteq Serial
      <3>1. Registered \subseteq 1..MaxRequests
        BY McpBounds DEF Registered, McpTypeOK
      <3> QED
        BY <1>2, <3>1, McpBounds DEF CloseDrains, Serial
    <2>2. \A s \in Registered' : \E h \in Goroutine : call'[h].serial = s
      BY <1>2, <2>1, RegisteredKept DEF CloseDrains
    <2> QED
      BY <1>2, <2>1, <2>2 DEF CloseDrains, McpTypeOK
  <1>3. CASE CloseReturns
    <2>1. channel' \in [Serial -> Message]
      BY <1>3, SentProperties, Messages DEF CloseReturns, McpTypeOK
    <2> QED
      BY <1>3, <2>1 DEF CloseReturns, McpTypeOK, Registered
  <1> QED
    BY <1>1, <1>2, <1>3 DEF CloseGoesOn

(* Steps of the pump. *)
LEMMA PumpTypes ==
  ASSUME McpTypeOK, OwnIds, PumpReads \/ PumpHands \/ PumpEnds \/ PumpDrains
  PROVE  McpTypeOK'
  <1> USE DEF routeVars, serverVars, connectVars
  <1>1. CASE PumpReads
    <2> DEFINE frame == Head(stdout)
    <2>1. frame \in Frame /\ stdout' \in Seq(Frame)
      BY <1>1, HeadTailProperties DEF PumpReads, McpTypeOK
    <2>2. /\ pending' \in [Serial -> 0..MaxRequests]
          /\ \A i \in Serial : pending'[i] \in {0, pending[i]}
      BY <1>1, <2>1, McpBounds DEF PumpReads, McpTypeOK
    <2>3. hand' \in [chans : SUBSET Serial, msg : Message]
      <3>1. CASE UNCHANGED hand
        BY <3>1 DEF McpTypeOK
      <3>2. CASE frame.id # 0 /\ hand' = [chans |-> {pending[frame.id]}, msg |-> Answer(frame)]
                 /\ pending[frame.id] # 0
        <4>1. frame.id \in Serial
          BY <2>1, <3>2, McpBounds DEF Frame, Serial
        <4>2. pending[frame.id] \in Serial
          BY <3>2, <4>1 DEF OwnIds
        <4> QED
          BY <2>1, <3>2, <4>2, AnswerIsMessage
      <3> QED
        BY <1>1, <3>1, <3>2 DEF PumpReads
    <2>4. \A s \in Registered' : \E h \in Goroutine : call'[h].serial = s
      BY <1>1, <2>2, RegisteredKept DEF PumpReads
    <2>5. pump' \in {"reading", "handing"}
      BY <1>1 DEF PumpReads
    <2> QED
      BY <1>1, <2>1, <2>2, <2>3, <2>4, <2>5 DEF PumpReads, McpTypeOK
  <1>2. CASE PumpHands
    <2>1. hand.chans \in SUBSET Serial /\ hand.msg \in Message
      BY DEF McpTypeOK
    <2>2. channel' \in [Serial -> Message]
      BY <1>2, <2>1, SentProperties DEF PumpHands
    <2>3. hand' \in [chans : SUBSET Serial, msg : Message]
      BY <1>2, Messages DEF PumpHands, NoHand
    <2> QED
      BY <1>2, <2>2, <2>3 DEF PumpHands, McpTypeOK, Registered
  <1>3. CASE PumpEnds
    BY <1>3 DEF PumpEnds, McpTypeOK, Registered
  <1>4. CASE PumpDrains
    <2>1. pending' \in [Serial -> 0..MaxRequests]
      BY <1>4, McpBounds DEF PumpDrains
    <2>2. hand' \in [chans : SUBSET Serial, msg : Message]
      <3>1. Registered \subseteq Serial
        BY DEF Registered, OwnIds
      <3> QED
        BY <1>4, <3>1, Messages DEF PumpDrains
    <2>3. \A s \in Registered' : \E h \in Goroutine : call'[h].serial = s
      BY <1>4, <2>1, RegisteredKept DEF PumpDrains
    <2> QED
      BY <1>4, <2>1, <2>2, <2>3 DEF PumpDrains, McpTypeOK
  <1> QED
    BY <1>1, <1>2, <1>3, <1>4

LEMMA WritesTypes ==
  ASSUME McpTypeOK, NEW frame \in Frame, Writes(frame)
  PROVE  McpTypeOK'
  <1>1. stdout' \in Seq(Frame)
    BY AppendProperties DEF Writes, McpTypeOK
  <1>2. frames' \in 0..MaxFrames
    BY McpBounds DEF Writes, McpTypeOK
  <1> QED
    BY <1>1, <1>2 DEF Writes, McpTypeOK, Registered, connectVars, routeVars, pumpVars

(* Whatever the server writes is a frame that bears the id of the request   *)
(* it answers, as long as that is so of the requests it read.              *)
LEMMA WritesOwnFrames ==
  ASSUME OwnFrames, ServerAnswers \/ ServerWritesOther
  PROVE  \E frame \in OwnFrame : Writes(frame)
  <1>1. CASE ServerAnswers
    BY <1>1 DEF ServerAnswers, OwnFrames
  <1>2. CASE ServerWritesOther
    <2>1. PICK id \in 0..MaxRequests : Writes([id |-> id, to |-> 0])
      BY <1>2 DEF ServerWritesOther
    <2>2. [id |-> id, to |-> 0] \in OwnFrame
      BY McpBounds DEF OwnFrame, Frame
    <2> QED
      BY <2>1, <2>2
  <1> QED
    BY <1>1, <1>2

LEMMA NextTypes ==
  ASSUME McpTypeOK, OwnIds, OwnFrames, [McpNext]_mcpVars
  PROVE  McpTypeOK'
  <1>1. CASE UNCHANGED mcpVars
    BY <1>1 DEF mcpVars, connectVars, routeVars, serverVars, pumpVars, McpTypeOK, Registered
  <1>2. CASE ServerAnswers \/ ServerWritesOther
    BY <1>2, WritesOwnFrames, WritesTypes DEF OwnFrame
  <1>3. ASSUME NEW g \in Goroutine, Request(g) \/ Written(g) \/ WriteFails(g) \/ Waits(g)
        PROVE  McpTypeOK'
    BY <1>3, RequestTypes, CallTypes, LeaveTypes DEF Waits
  <1> QED
    BY <1>1, <1>2, <1>3, ConnectionTypes, PumpTypes DEF McpNext

------------------------------------------------------------------------------
(* Ids *)

LEMMA InitOwnIds == McpInit => OwnIds
  BY DEF McpInit, OwnIds, InCall, Idle

(* A request takes the next id, which nobody has. *)
LEMMA RequestOwnIds ==
  ASSUME McpTypeOK, OwnIds, NEW g \in Goroutine, Request(g)
  PROVE  OwnIds'
  <1>1. /\ nextID + 1 \in Serial /\ nextID \in Nat
        /\ NewId = nextID + 1 /\ nextID' = nextID + 1
        /\ pending' = [pending EXCEPT ![nextID + 1] = nextID + 1]
        /\ call' = [call EXCEPT ![g] = [at |-> "writing", id |-> nextID + 1,
                                        serial |-> nextID + 1,
                                        late |-> Drained, got |-> Empty]]
    BY Bounds DEF Request, MayRequest
  <1>2. \A i \in Serial : pending'[i] \in {0, i}
    BY <1>1 DEF OwnIds, McpTypeOK
  <1>3. /\ InCall(g)' /\ call'[g].id = nextID + 1 /\ call'[g].serial = nextID + 1
        /\ \A h \in Goroutine : h # g => call'[h] = call[h]
    BY <1>1 DEF InCall, McpTypeOK
  <1>4. \A h \in Goroutine : h # g => (InCall(h)' <=> InCall(h))
    BY <1>3 DEF InCall
  <1> QED
    BY <1>1, <1>2, <1>3, <1>4 DEF OwnIds

(* Steps that keep every call's request, or end it and leave the goroutine  *)
(* idle, and register nothing.                                             *)
LEMMA OwnIdsKept ==
  ASSUME OwnIds, UNCHANGED nextID,
         \A i \in Serial : pending'[i] \in {0, pending[i]},
         \A g \in Goroutine : \/ call'[g] = Idle
                              \/ /\ InCall(g) /\ InCall(g)'
                                 /\ call'[g].id = call[g].id
                                 /\ call'[g].serial = call[g].serial
  PROVE  OwnIds'
  <1>1. \A g \in Goroutine : call'[g] = Idle => ~InCall(g)'
    BY DEF InCall, Idle
  <1> QED
    BY <1>1 DEF OwnIds

LEMMA NextOwnIds ==
  ASSUME McpTypeOK, OwnIds, [McpNext]_mcpVars
  PROVE  OwnIds'
  <1> USE DEF connectVars, routeVars, serverVars, pumpVars, RequestOnly
  <1>1. CASE UNCHANGED <<call, pending, nextID>>
    BY <1>1 DEF OwnIds, InCall
  <1>2. ASSUME NEW g \in Goroutine, Written(g) \/ WriteFails(g) \/ TimesOut(g) \/ Receives(g)
        PROVE  OwnIds'
    <2>1. /\ \A h \in Goroutine : h # g => call'[h] = call[h]
          /\ InCall(g) /\ InCall(g)'
          /\ call'[g].id = call[g].id /\ call'[g].serial = call[g].serial
          /\ UNCHANGED <<pending, nextID>>
      BY <1>2 DEF Written, WriteFails, TimesOut, Receives, Ends, InCall, McpTypeOK
    <2>2. \A h \in Goroutine : h # g => \/ call'[h] = Idle
                                        \/ InCall(h) /\ InCall(h)'
      BY <2>1 DEF OwnIds, InCall
    <2> QED
      BY <2>1, <2>2, OwnIdsKept
  <1>3. ASSUME NEW g \in Goroutine, Leave(g)
        PROVE  OwnIds'
    <2>1. /\ call' = [call EXCEPT ![g] = Idle]
          /\ pending' = [pending EXCEPT ![call[g].id] = 0]
          /\ UNCHANGED nextID
      BY <1>3 DEF Leave
    <2>2. \A i \in Serial : pending'[i] \in {0, pending[i]}
      BY <2>1 DEF McpTypeOK
    <2>3. \A h \in Goroutine : \/ call'[h] = Idle
                               \/ InCall(h) /\ InCall(h)' /\ call'[h] = call[h]
      BY <2>1 DEF OwnIds, InCall, McpTypeOK
    <2> QED
      BY <2>1, <2>2, <2>3, OwnIdsKept
  <1>4. ASSUME CloseDrains \/ PumpDrains \/ PumpReads
        PROVE  OwnIds'
    <2>1. UNCHANGED <<call, nextID>> /\ \A i \in Serial : pending'[i] \in {0, pending[i]}
      BY <1>4 DEF CloseDrains, PumpDrains, PumpReads, McpTypeOK
    <2> QED
      BY <2>1, OwnIdsKept DEF OwnIds, InCall
  <1>5. CASE \/ Launch \/ Notify \/ CloseBegins \/ CloseStops \/ CloseAwaitsPump \/ CloseReturns
             \/ PumpHands \/ PumpEnds \/ ServerAnswers \/ ServerWritesOther \/ ServerStops
             \/ UNCHANGED mcpVars
    BY <1>1, <1>5 DEF Launch, Notify, CloseBegins, CloseStops, CloseAwaitsPump, CloseReturns,
                      PumpHands, PumpEnds, ServerAnswers, ServerWritesOther, Writes,
                      ServerStops, mcpVars
  <1> QED
    BY <1>2, <1>3, <1>4, <1>5, RequestOwnIds DEF McpNext, Waits, CloseGoesOn

------------------------------------------------------------------------------
(* Answers *)

LEMMA InitOwnFrames == McpInit => OwnFrames
  <1>1. McpInit => stdout \in Seq(OwnFrame)
    BY EmptySeq DEF McpInit
  <1> QED
    BY <1>1, Messages DEF McpInit, OwnFrames, NoHand, InCall, Idle

(* What is sent is somebody's own answer, or no answer. *)
LEMMA SentOwn ==
  ASSUME McpTypeOK, OwnFrames, NEW chans \in SUBSET Serial, NEW msg \in Message,
         msg.what = "frame" => \A s \in chans : msg.to \in {0, s}
  PROVE  \A s \in Serial : Sent(chans, msg)[s].what = "frame" =>
           Sent(chans, msg)[s].to \in {0, s}
  <1> SUFFICES ASSUME NEW s \in Serial, Sent(chans, msg)[s].what = "frame"
               PROVE  Sent(chans, msg)[s].to \in {0, s}
    OBVIOUS
  <1>1. CASE s \in chans /\ Sent(chans, msg)[s] = msg
    BY <1>1
  <1>2. CASE Sent(chans, msg)[s] = channel[s]
    BY <1>2 DEF OwnFrames
  <1> QED
    BY <1>1, <1>2, SentProperties

LEMMA CallOwnFrames ==
  ASSUME McpTypeOK, OwnIds, OwnFrames, NEW g \in Goroutine,
         Request(g) \/ Written(g) \/ WriteFails(g) \/ Waits(g)
  PROVE  OwnFrames'
  <1> USE DEF connectVars, routeVars, serverVars, pumpVars, RequestOnly
  <1>1. UNCHANGED <<stdout, hand>>
    BY DEF Request, Written, WriteFails, Waits, TimesOut, Receives, Leave
  <1>2. unanswered' \subseteq OwnFrame
    <2>1. CASE Written(g)
      <3>1. [id |-> call[g].id, to |-> call[g].serial] \in OwnFrame
        BY <2>1 DEF Written, OwnIds, InCall, OwnFrame, Frame, McpTypeOK
      <3> QED
        BY <2>1, <3>1 DEF Written, OwnFrames
    <2>2. CASE UNCHANGED unanswered
      BY <2>2 DEF OwnFrames
    <2> QED
      BY <2>1, <2>2 DEF Request, WriteFails, Waits, TimesOut, Receives, Leave
  <1>3. \A s \in Serial : channel'[s].what = "frame" => channel'[s].to \in {0, s}
    <2>1. CASE Receives(g)
      BY <2>1, Messages DEF Receives, McpTypeOK, OwnFrames
    <2>2. CASE UNCHANGED channel
      BY <2>2 DEF OwnFrames
    <2> QED
      BY <2>1, <2>2 DEF Request, Written, WriteFails, Waits, TimesOut, Leave
  <1>4. \A h \in Goroutine : h # g => call'[h] = call[h]
    BY DEF Request, Written, WriteFails, Waits, TimesOut, Receives, Ends, Leave, McpTypeOK
  <1>5. InCall(g)' /\ call'[g].got.what = "frame" => call'[g].got.to \in {0, call'[g].serial}
    <2>1. CASE Request(g)
      BY <2>1, Messages DEF Request, McpTypeOK
    <2>2. CASE Written(g)
      BY <2>2 DEF Written, OwnFrames, InCall, McpTypeOK
    <2>3. CASE WriteFails(g) \/ TimesOut(g)
      BY <2>3, Messages DEF WriteFails, TimesOut, Ends, McpTypeOK
    <2>4. CASE Receives(g)
      <3>1. call[g].serial \in Serial
        BY <2>4, Bounds DEF Receives, OwnIds, InCall
      <3>2. call'[g].got = channel[call[g].serial] /\ call'[g].serial = call[g].serial
        BY <2>4 DEF Receives, Ends, McpTypeOK
      <3> QED
        BY <3>1, <3>2 DEF OwnFrames
    <2>5. CASE Leave(g)
      BY <2>5 DEF Leave, InCall, Idle, McpTypeOK
    <2> QED
      BY <2>1, <2>2, <2>3, <2>4, <2>5 DEF Waits
  <1>6. \A h \in Goroutine : InCall(h)' /\ call'[h].got.what = "frame" =>
          call'[h].got.to \in {0, call'[h].serial}
    BY <1>4, <1>5 DEF OwnFrames, InCall
  <1> QED
    BY <1>1, <1>2, <1>3, <1>6 DEF OwnFrames, OwnFrame

(* deliver puts a frame in hand for the channel that was registered under   *)
(* its id, which is the channel of the request of that id.                 *)
LEMMA PumpReadsOwnFrames ==
  ASSUME McpTypeOK, OwnIds, OwnFrames, PumpReads
  PROVE  OwnFrames'
  <1> DEFINE frame == Head(stdout)
  <1>1. frame \in OwnFrame /\ stdout' \in Seq(OwnFrame)
    BY HeadTailProperties DEF PumpReads, OwnFrames
  <1>2. UNCHANGED <<unanswered, channel, call>>
    BY DEF PumpReads
  <1>3. hand'.msg.what = "frame" => \A s \in hand'.chans : hand'.msg.to \in {0, s}
    <2>1. CASE UNCHANGED hand
      BY <2>1 DEF OwnFrames
    <2>2. CASE frame.id # 0 /\ hand' = [chans |-> {pending[frame.id]}, msg |-> Answer(frame)]
               /\ pending[frame.id] # 0
      <3>1. frame.id \in Serial /\ frame.to \in {0, frame.id}
        BY <1>1, <2>2, McpBounds DEF OwnFrame, Frame, Serial
      <3>2. pending[frame.id] = frame.id
        BY <2>2, <3>1 DEF OwnIds
      <3> QED
        BY <2>2, <3>1, <3>2 DEF Answer
    <2> QED
      BY <2>1, <2>2 DEF PumpReads
  <1> QED
    BY <1>1, <1>2, <1>3 DEF OwnFrames, OwnFrame, InCall

LEMMA NextOwnFrames ==
  ASSUME McpTypeOK, OwnIds, OwnFrames, [McpNext]_mcpVars
  PROVE  OwnFrames'
  <1> USE DEF connectVars, routeVars, serverVars, pumpVars
  <1>1. CASE UNCHANGED <<unanswered, stdout, hand, channel, call>>
    BY <1>1 DEF OwnFrames, OwnFrame, InCall
  <1>2. CASE \/ Launch \/ Notify \/ CloseBegins \/ CloseStops \/ CloseAwaitsPump \/ CloseDrains
             \/ PumpEnds \/ ServerStops \/ UNCHANGED mcpVars
    BY <1>1, <1>2 DEF Launch, Notify, CloseBegins, CloseStops, CloseAwaitsPump, CloseDrains,
                      PumpEnds, ServerStops, mcpVars
  <1>3. CASE CloseReturns
    <2>1. \A s \in Serial : channel'[s].what = "frame" => channel'[s].to \in {0, s}
      BY <1>3, SentOwn, Messages DEF CloseReturns, McpTypeOK
    <2> QED
      BY <1>3, <2>1 DEF CloseReturns, OwnFrames, OwnFrame, InCall
  <1>4. CASE PumpHands
    <2>1. \A s \in Serial : channel'[s].what = "frame" => channel'[s].to \in {0, s}
      <3>1. hand.chans \in SUBSET Serial /\ hand.msg \in Message
        BY DEF McpTypeOK
      <3> QED
        BY <1>4, <3>1, SentOwn DEF PumpHands, OwnFrames
    <2> QED
      BY <1>4, <2>1, Messages DEF PumpHands, NoHand, OwnFrames, OwnFrame, InCall
  <1>5. CASE PumpDrains
    BY <1>5, Messages DEF PumpDrains, OwnFrames, OwnFrame, InCall
  <1>6. CASE ServerAnswers \/ ServerWritesOther
    <2>1. PICK frame \in OwnFrame : Writes(frame)
      BY <1>6, WritesOwnFrames
    <2>2. stdout' \in Seq(OwnFrame)
      BY <2>1, AppendProperties DEF Writes, OwnFrames
    <2> QED
      BY <2>1, <2>2 DEF Writes, OwnFrames, OwnFrame, InCall
  <1> QED
    BY <1>2, <1>3, <1>4, <1>5, <1>6, CallOwnFrames, PumpReadsOwnFrames
       DEF McpNext, CloseGoesOn

------------------------------------------------------------------------------
(* Waiters *)

(* Where the answer to a call may still come from. *)
Reachable(g) ==
  \/ pending[call[g].serial] # 0
  \/ channel[call[g].serial] # Empty
  \/ call[g].serial \in hand.chans \cup releasing

Waiter(g) == call[g].at \in {"writing", "waiting"}

LEMMA InitNotForgotten == McpInit => NotForgotten
  BY Messages DEF McpInit, NotForgotten, NoHand, InCall, Idle, Drained

(* A request is registered, and knows whether the pump was already done.    *)
LEMMA RequestNotForgotten ==
  ASSUME McpTypeOK, OwnIds, NotForgotten, NEW g \in Goroutine, Request(g)
  PROVE  NotForgotten'
  <1> USE DEF connectVars, serverVars, pumpVars
  <1>1. /\ nextID + 1 \in Serial /\ nextID \in Nat /\ nextID + 1 # 0
        /\ pending' = [pending EXCEPT ![nextID + 1] = nextID + 1]
        /\ call' = [call EXCEPT ![g] = [at |-> "writing", id |-> nextID + 1,
                                        serial |-> nextID + 1,
                                        late |-> Drained, got |-> Empty]]
        /\ UNCHANGED <<channel, closing, releasing, pump, hand>>
    BY Bounds DEF Request, MayRequest
  <1>2. /\ call'[g].serial = nextID + 1 /\ call'[g].late = Drained
        /\ pending'[nextID + 1] = nextID + 1
        /\ \A h \in Goroutine : h # g => call'[h] = call[h]
    BY <1>1 DEF McpTypeOK
  <1>3. \A h \in Goroutine : h # g /\ InCall(h) => pending'[call[h].serial] = pending[call[h].serial]
    BY <1>1 DEF OwnIds, McpTypeOK
  <1>4. ASSUME NEW h \in Goroutine, Waiter(h)'
        PROVE  Reachable(h)'
    <2>1. CASE h = g
      BY <1>1, <1>2, <2>1 DEF Reachable
    <2>2. CASE h # g
      BY <1>1, <1>2, <1>3, <1>4, <2>2 DEF Reachable, Waiter, InCall, NotForgotten
    <2> QED
      BY <2>1, <2>2
  <1>5. Drained' => \A h \in Goroutine : InCall(h)' /\ ~call'[h].late => pending'[call'[h].serial] = 0
    <2> SUFFICES ASSUME Drained', NEW h \in Goroutine, InCall(h)', ~call'[h].late
                 PROVE  pending'[call'[h].serial] = 0
      OBVIOUS
    <2>1. Drained
      BY <1>1 DEF Drained
    <2>2. h # g
      BY <1>2, <2>1
    <2> QED
      BY <1>2, <1>3, <2>1, <2>2 DEF NotForgotten, InCall
  <1> QED
    BY <1>1, <1>4, <1>5 DEF NotForgotten, Reachable, Waiter

(* Receiving empties one's own channel and leaving deletes one's own id:    *)
(* no other call's.                                                        *)
LEMMA CallNotForgotten ==
  ASSUME McpTypeOK, OwnIds, NotForgotten, NEW g \in Goroutine,
         Written(g) \/ WriteFails(g) \/ Waits(g)
  PROVE  NotForgotten'
  <1> USE DEF connectVars, routeVars, serverVars, pumpVars, RequestOnly
  <1>1. /\ UNCHANGED <<pump, hand, closing, releasing>>
        /\ InCall(g)
        /\ \A h \in Goroutine : h # g => call'[h] = call[h]
    BY DEF Written, WriteFails, Waits, TimesOut, Receives, Leave, Ends, InCall, McpTypeOK
  <1>2. ASSUME NEW h \in Goroutine, h # g, InCall(h)
        PROVE  /\ pending'[call[h].serial] = pending[call[h].serial]
               /\ channel'[call[h].serial] = channel[call[h].serial]
    <2>1. call[h].serial # call[g].serial /\ call[g].id = call[g].serial
      BY <1>1, <1>2 DEF OwnIds
    <2>2. /\ pending' = pending \/ pending' = [pending EXCEPT ![call[g].id] = 0]
          /\ channel' = channel \/ channel' = [channel EXCEPT ![call[g].serial] = Empty]
      BY DEF Written, WriteFails, Waits, TimesOut, Receives, Leave
    <2>3. call[h].serial \in Serial
      BY <1>2, Bounds DEF OwnIds
    <2> QED
      BY <2>1, <2>2, <2>3 DEF McpTypeOK
  <1>3. ASSUME Waiter(g)'
        PROVE  Reachable(g)'
    <2>1. Written(g)
      BY <1>3 DEF WriteFails, Waits, TimesOut, Receives, Leave, Ends, Idle, Waiter, McpTypeOK
    <2>2. call'[g].serial = call[g].serial /\ Waiter(g) /\ UNCHANGED <<pending, channel>>
      BY <2>1 DEF Written, Waiter, McpTypeOK
    <2> QED
      BY <1>1, <2>2 DEF Reachable, Waiter, NotForgotten
  <1>4. ASSUME NEW h \in Goroutine, Waiter(h)'
        PROVE  Reachable(h)'
    <2>1. CASE h # g
      <3>1. InCall(h) /\ Waiter(h)
        BY <1>1, <1>4, <2>1 DEF Waiter, InCall
      <3> QED
        BY <1>1, <1>2, <2>1, <3>1 DEF Reachable, Waiter, NotForgotten
    <2> QED
      BY <1>3, <1>4, <2>1
  <1>5. ASSUME Drained', NEW h \in Goroutine, InCall(h)', ~call'[h].late
        PROVE  pending'[call'[h].serial] = 0
    <2>1. Drained
      BY <1>1, <1>5 DEF Drained
    <2>2. CASE h # g
      BY <1>1, <1>2, <1>5, <2>1, <2>2 DEF NotForgotten, InCall
    <2>3. CASE h = g
      <3>1. /\ ~Leave(g) /\ UNCHANGED pending
            /\ call'[g].serial = call[g].serial /\ call'[g].late = call[g].late
        BY <1>5, <2>3 DEF Written, WriteFails, Waits, TimesOut, Receives, Leave, Ends,
                          Idle, InCall, McpTypeOK
      <3> QED
        BY <1>1, <1>5, <2>1, <2>3, <3>1 DEF NotForgotten
    <2> QED
      BY <2>2, <2>3
  <1> QED
    BY <1>1, <1>4, <1>5 DEF NotForgotten, Reachable, Waiter

(* What is taken out of the table is taken in hand, and what leaves a hand  *)
(* is on its channel.                                                      *)
LEMMA HandsNotForgotten ==
  ASSUME McpTypeOK, OwnIds, NotForgotten,
         CloseDrains \/ CloseReturns \/ PumpReads \/ PumpHands \/ PumpDrains
  PROVE  NotForgotten'
  <1>1. UNCHANGED call
    BY DEF CloseDrains, CloseReturns, PumpReads, PumpHands, PumpDrains
  <1>2. \A g \in Goroutine : InCall(g) => call[g].serial \in Serial
    BY Bounds DEF OwnIds
  <1>3. \A i \in Serial : pending[i] # 0 => pending[i] = i /\ i \in Registered
    BY DEF OwnIds, Registered
  <1>4. \A g \in Goroutine : Waiter(g) => Reachable(g) /\ InCall(g)
    BY DEF NotForgotten, Reachable, Waiter, InCall
  <1>5. CASE CloseDrains
    <2>1. \A g \in Goroutine : Waiter(g) => Reachable(g)'
      BY <1>1, <1>2, <1>3, <1>4, <1>5 DEF CloseDrains, Reachable, NotForgotten, pumpVars
    <2>2. \A g \in Goroutine : InCall(g) => pending'[call[g].serial] = 0
      BY <1>2, <1>5 DEF CloseDrains
    <2> QED
      BY <1>1, <1>5, <2>1, <2>2
         DEF CloseDrains, NotForgotten, Reachable, Waiter, InCall, Drained, pumpVars
  <1>6. CASE CloseReturns
    <2>1. \A g \in Goroutine : Waiter(g) => Reachable(g)'
      <3>1. releasing \in SUBSET Serial
        BY DEF McpTypeOK
      <3>2. \A s \in Serial : channel[s] # Empty \/ s \in releasing => channel'[s] # Empty
        BY <1>6, <3>1, SentProperties, Messages DEF CloseReturns
      <3> QED
        BY <1>1, <1>2, <1>4, <1>6, <3>2 DEF CloseReturns, Reachable, pumpVars
    <2> QED
      BY <1>1, <1>6, <2>1
         DEF CloseReturns, NotForgotten, Reachable, Waiter, InCall, Drained, pumpVars
  <1>7. CASE PumpReads
    <2> DEFINE frame == Head(stdout)
    <2>1. frame \in Frame
      BY <1>7, HeadTailProperties DEF PumpReads, McpTypeOK
    <2>2. CASE UNCHANGED <<pump, hand, pending>>
      BY <1>1, <1>7, <2>2
         DEF PumpReads, NotForgotten, InCall, Drained, connectVars
    <2>3. CASE /\ frame.id # 0 /\ pending[frame.id] # 0
               /\ pump' = "handing"
               /\ hand' = [chans |-> {pending[frame.id]}, msg |-> Answer(frame)]
               /\ pending' = [pending EXCEPT ![frame.id] = 0]
      <3>1. frame.id \in Serial
        BY <2>1, <2>3, McpBounds DEF Frame, Serial
      <3>2. pending[frame.id] = frame.id /\ hand.chans = {}
        BY <1>3, <1>7, <2>3, <3>1 DEF PumpReads, NotForgotten
      <3>3. \A g \in Goroutine : Waiter(g) => Reachable(g)'
        BY <1>1, <1>2, <1>4, <1>7, <2>3, <3>1, <3>2
           DEF PumpReads, Reachable, McpTypeOK, connectVars
      <3>4. hand'.msg # Empty
        BY <2>1, <2>3, Messages
      <3> QED
        BY <1>1, <1>7, <2>3, <3>3, <3>4
           DEF PumpReads, NotForgotten, Reachable, Waiter, Drained, connectVars
    <2> QED
      BY <1>7, <2>2, <2>3 DEF PumpReads
  <1>8. CASE PumpHands
    <2>1. hand.chans \in SUBSET Serial /\ hand.msg \in Message /\ hand.msg # Empty
      BY DEF McpTypeOK, NotForgotten
    <2>2. \A s \in Serial : channel[s] # Empty \/ s \in hand.chans => channel'[s] # Empty
      BY <1>8, <2>1, SentProperties, SMTT(30) DEF PumpHands
    <2>3. \A g \in Goroutine : Waiter(g) => Reachable(g)'
      BY <1>1, <1>2, <1>4, <1>8, <2>2 DEF PumpHands, Reachable, connectVars
    <2>4. hand'.msg # Empty /\ hand'.chans = {}
      BY <1>8, Messages DEF PumpHands, NoHand
    <2>5. /\ pump' \in {"reading", "ended"} /\ (Drained' => Drained)
          /\ UNCHANGED <<pending, closing, releasing>>
      BY <1>8 DEF PumpHands, Drained, connectVars
    <2> QED
      BY <1>1, <2>3, <2>4, <2>5 DEF NotForgotten, Reachable, Waiter, InCall
  <1>9. CASE PumpDrains
    <2>1. hand.chans = {} /\ hand'.chans = Registered /\ hand'.msg # Empty
      BY <1>9, Messages DEF PumpDrains, NotForgotten
    <2>2. \A g \in Goroutine : Waiter(g) => Reachable(g)'
      BY <1>1, <1>2, <1>3, <1>4, <1>9, <2>1 DEF PumpDrains, Reachable, connectVars
    <2>3. \A g \in Goroutine : InCall(g) => pending'[call[g].serial] = 0
      BY <1>2, <1>9 DEF PumpDrains
    <2> QED
      BY <1>1, <1>9, <2>1, <2>2, <2>3
         DEF PumpDrains, NotForgotten, Reachable, Waiter, InCall, connectVars
  <1> QED
    BY <1>5, <1>6, <1>7, <1>8, <1>9

LEMMA NextNotForgotten ==
  ASSUME McpTypeOK, OwnIds, NotForgotten, Connection, [McpNext]_mcpVars
  PROVE  NotForgotten'
  <1> USE DEF connectVars, routeVars, serverVars, pumpVars
  <1>1. CASE Launch
    <2>1. pump = "off" /\ pump' = "reading" /\ UNCHANGED <<hand, closing, releasing, call, pending, channel>>
      BY <1>1 DEF Launch, Connection
    <2> QED
      BY <2>1 DEF NotForgotten, Drained, InCall
  <1>2. CASE CloseBegins \/ CloseStops \/ CloseAwaitsPump
    <2>1. /\ UNCHANGED <<hand, pump, releasing, call, pending, channel>>
          /\ closing # "release" /\ closing' # "release"
      BY <1>2 DEF CloseBegins, CloseStops, CloseAwaitsPump, Connection
    <2> QED
      BY <2>1 DEF NotForgotten, Drained, InCall
  <1>3. CASE PumpEnds
    <2>1. pump = "reading" /\ pump' = "failing" /\ UNCHANGED <<hand, closing, releasing, call, pending, channel>>
      BY <1>3 DEF PumpEnds
    <2> QED
      BY <2>1 DEF NotForgotten, Drained, InCall
  <1>4. CASE Notify \/ ServerAnswers \/ ServerWritesOther \/ ServerStops \/ UNCHANGED mcpVars
    <2>1. UNCHANGED <<pump, hand, closing, releasing, call, pending, channel>>
      BY <1>4 DEF Notify, ServerAnswers, ServerWritesOther, Writes, ServerStops, mcpVars
    <2> QED
      BY <2>1 DEF NotForgotten, Drained, InCall
  <1> QED
    BY <1>1, <1>2, <1>3, <1>4, RequestNotForgotten, CallNotForgotten, HandsNotForgotten
       DEF McpNext, CloseGoesOn

------------------------------------------------------------------------------
(* The connection *)

LEMMA InitConnection == McpInit => Connection
  BY DEF McpInit, Connection, InCall, Idle, Goroutine

LEMMA NextConnection ==
  ASSUME McpTypeOK, OwnIds, Connection, [McpNext]_mcpVars
  PROVE  Connection'
  <1> USE DEF connectVars, routeVars, serverVars, pumpVars, RequestOnly
  <1>1. ASSUME NEW g \in Goroutine, Request(g)
        PROVE  Connection'
    <2>1. closing = "open" /\ UNCHANGED <<phase, closing, closed, server, pump>>
      BY <1>1 DEF Request, Connection
    <2>2. phase \in {"initialize", "list"} \/ g # Opener
      BY <1>1 DEF Request, MayRequest
    <2>3. InCall(Opener)' => phase \in {"initialize", "list"}
      BY <1>1, <2>2 DEF Request, InCall, Connection, McpTypeOK, Goroutine
    <2> QED
      BY <2>1, <2>3 DEF Connection
  <1>2. ASSUME NEW g \in Goroutine, Written(g) \/ WriteFails(g) \/ TimesOut(g) \/ Receives(g)
        PROVE  Connection'
    <2>1. UNCHANGED <<phase, closing, closed, server, pump, pending>>
      BY <1>2 DEF Written, WriteFails, TimesOut, Receives
    <2>2. InCall(g) /\ \A h \in Goroutine : h # g => call'[h] = call[h]
      BY <1>2 DEF Written, WriteFails, TimesOut, Receives, Ends, InCall, McpTypeOK
    <2>3. InCall(Opener)' => InCall(Opener)
      BY <2>2 DEF InCall, Goroutine
    <2> QED
      BY <2>1, <2>3 DEF Connection
  <1>3. ASSUME NEW g \in Goroutine, Leave(g)
        PROVE  Connection'
    <2>1. /\ UNCHANGED <<closing, closed, server, pump>>
          /\ pending' = [pending EXCEPT ![call[g].id] = 0]
          /\ call' = [call EXCEPT ![g] = Idle]
          /\ InCall(g)
      BY <1>3 DEF Leave, InCall
    <2>2. \A i \in Serial : pending'[i] \in {0, pending[i]}
      BY <2>1 DEF McpTypeOK
    <2>3. CASE g = Opener
      <3>1. phase \in {"initialize", "list"} /\ closing = "open"
        BY <2>1, <2>3 DEF Connection
      <3>2. phase' \in {"notify", "bound", "abandon"}
        BY <1>3, <2>3 DEF Leave, ShakesHands, Binds, Abandons
      <3>3. ~InCall(Opener)'
        BY <2>1, <2>3 DEF InCall, Idle, McpTypeOK
      <3> QED
        BY <2>1, <2>2, <3>1, <3>2, <3>3 DEF Connection
    <2>4. CASE g # Opener
      <3>1. phase' = phase /\ call'[Opener] = call[Opener]
        BY <1>3, <2>4 DEF Leave, McpTypeOK, Goroutine
      <3> QED
        BY <2>1, <2>2, <3>1 DEF Connection, InCall
    <2> QED
      BY <2>3, <2>4
  <1>4. CASE Launch \/ Notify
    BY <1>4 DEF Launch, Notify, Connection, InCall, McpTypeOK
  <1>5. CASE CloseBegins
    BY <1>5 DEF CloseBegins, Connection, InCall
  <1>6. CASE CloseStops \/ CloseAwaitsPump
    BY <1>6 DEF CloseStops, CloseAwaitsPump, Connection, InCall
  <1>7. CASE CloseDrains \/ CloseReturns
    BY <1>7 DEF CloseDrains, CloseReturns, Connection, InCall
  <1>8. CASE PumpReads
    <2>1. \A i \in Serial : pending'[i] \in {0, pending[i]}
      BY <1>8 DEF PumpReads, McpTypeOK
    <2>2. UNCHANGED <<phase, closing, closed, server, call>> /\ phase # "new"
      BY <1>8 DEF PumpReads, Connection
    <2> QED
      BY <2>1, <2>2 DEF Connection, InCall
  <1>9. CASE PumpHands \/ PumpEnds \/ PumpDrains
    <2>1. \A i \in Serial : pending'[i] \in {0, pending[i]}
      BY <1>9 DEF PumpHands, PumpEnds, PumpDrains
    <2>2. UNCHANGED <<phase, closing, closed, server, call>> /\ phase # "new"
      BY <1>9 DEF PumpHands, PumpEnds, PumpDrains, Connection
    <2> QED
      BY <2>1, <2>2 DEF Connection, InCall
  <1>10. CASE ServerAnswers \/ ServerWritesOther \/ ServerStops \/ UNCHANGED mcpVars
    <2>1. UNCHANGED <<phase, closing, closed, pump, call, pending>> /\ server' \in {server, "exited"}
      BY <1>10 DEF ServerAnswers, ServerWritesOther, Writes, ServerStops, mcpVars
    <2> QED
      BY <2>1 DEF Connection, InCall
  <1> QED
    BY <1>1, <1>2, <1>3, <1>4, <1>5, <1>6, <1>7, <1>8, <1>9, <1>10
       DEF McpNext, Waits, CloseGoesOn

------------------------------------------------------------------------------
(* The theorems *)

(* The invariant of the routing of answers: ids, frames, waiters and the    *)
(* connection (mcp_client.go).                                             *)
THEOREM McpInvariance == McpSpec => []McpIInv
  <1>1. McpInit => McpIInv
    BY InitTypes, InitOwnIds, InitOwnFrames, InitNotForgotten, InitConnection DEF McpIInv
  <1>2. McpIInv /\ [McpNext]_mcpVars => McpIInv'
    BY NextTypes, NextOwnIds, NextOwnFrames, NextNotForgotten, NextConnection DEF McpIInv
  <1> QED
    BY <1>1, <1>2, PTL DEF McpSpec

(* Types: what the client's fields, its goroutines and its server may be,   *)
(* and that nothing stays registered once its request has returned.        *)
THEOREM McpTypeCorrect == McpSpec => []McpTypeOK
  <1>1. McpIInv => McpTypeOK
    BY DEF McpIInv
  <1> QED
    BY <1>1, McpInvariance, PTL

(* request, pump and deliver (mcp_client.go:294-424): for every number  *)
(* of callers and whatever the server answers, late, twice or unasked, a   *)
(* request does not return the answer to another.                          *)
THEOREM AnswersAreOwn == McpSpec => []AnswerIsOwn
  <1>1. McpIInv => AnswerIsOwn
    BY DEF McpIInv, OwnFrames, AnswerIsOwn, InCall
  <1> QED
    BY <1>1, McpInvariance, PTL

(* drainPending and Close (mcp_client.go:187-221, 426-439): when the pump   *)
(* has ended or Close returned, every waiter that was registered before    *)
(* has something on its channel or is about to.                            *)
THEOREM WaitersReleased == McpSpec => []EndReleasesWaiters
  <1>1. McpIInv => EndReleasesWaiters
    <2> SUFFICES ASSUME McpIInv, NEW g \in Goroutine, call[g].at = "waiting",
                        closing = "returned" \/ (pump = "ended" /\ ~call[g].late)
                 PROVE  \/ channel[call[g].serial] # Empty
                        \/ call[g].serial \in hand.chans \cup releasing
      BY DEF EndReleasesWaiters
    <2>1. InCall(g) /\ call[g].serial \in Serial
      BY Bounds DEF McpIInv, OwnIds, InCall
    <2>2. pending[call[g].serial] = 0
      BY <2>1 DEF McpIInv, NotForgotten, Connection, Drained
    <2> QED
      BY <2>2 DEF McpIInv, NotForgotten
  <1> QED
    BY <1>1, McpInvariance, PTL

(* Connect and ConnectMCP giving up (mcp_client.go:166-182): the server has *)
(* exited, the client is closed and nothing is registered.                 *)
THEOREM FailedConnectIsClean == McpSpec => []FailedConnectLeavesNothing
  <1>1. McpIInv => FailedConnectLeavesNothing
    BY DEF McpIInv, Connection, FailedConnectLeavesNothing, Registered
  <1> QED
    BY <1>1, McpInvariance, PTL
===============================================================================

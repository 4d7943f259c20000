------------------------------ MODULE McpClient ------------------------------
(***************************************************************************)
(* The client of src/mcp_client.go: ConnectMCP launches a server, shakes   *)
(* hands and lists its tools; then the bound tools call it concurrently.   *)
(* Each request registers a channel under its id and writes a line; one    *)
(* goroutine, the pump, reads what the server writes and routes it.  Any   *)
(* wait may end in a timeout, the server may stop at any time, and Close    *)
(* may overtake all of it.                                                 *)
(*                                                                         *)
(* A request has a serial number, which names its channel, beside the id    *)
(* on the wire; a frame names the request it answers, or none (0): a       *)
(* notification, a stray line, a request of the server's own.              *)
(***************************************************************************)
EXTENDS Naturals, Sequences, FiniteSets

CONSTANTS
  Opener,      \* the goroutine in ConnectMCP, which also closes the client
  Caller,      \* the goroutines that call bound tools
  MaxRequests, \* bound: requests made
  MaxFrames    \* bound: frames the server writes

ASSUME McpBounds == MaxRequests \in Nat /\ MaxFrames \in Nat

VARIABLES
  phase,     \* how far ConnectMCP is
  call,      \* per goroutine: the request it is in
  nextID,
  pending,   \* McpClient.pending: per id, the channel registered, 0 for none
  channel,   \* per channel: what has been sent on it and not been received
  closed,    \* McpClient.closed
  closing,   \* how far Close is
  releasing, \* the channels Close took out of pending and is to unblock
  pump,      \* how far the pump is
  hand,      \* what the pump is about to send, and on which channels
  server,    \* the subprocess
  unanswered, \* the requests the server has read
  stdout,    \* the frames written and not read by the pump
  frames     \* how many were written

connectVars == <<phase, closing, closed, releasing>>
routeVars   == <<pending, channel, nextID>>
serverVars  == <<server, unanswered, stdout, frames>>
pumpVars    == <<pump, hand>>
mcpVars == <<connectVars, call, routeVars, serverVars, pumpVars>>

Goroutine == Caller \cup {Opener}
Serial == 1..MaxRequests
Frame == [id : 0..MaxRequests, to : 0..MaxRequests]

(* What a caller finds: nothing yet, the frame, the nil of drainPending, or    *)
(* an error of its own.                                                    *)
Answer(frame) == [what |-> "frame", to |-> frame.to]
Empty == [what |-> "empty", to |-> 0]
Nil   == [what |-> "nil", to |-> 0]
Error == [what |-> "error", to |-> 0]
Message == {Answer(frame) : frame \in Frame} \cup {Empty, Nil}

Idle == [at |-> "idle", id |-> 0, serial |-> 0, late |-> FALSE, got |-> Empty]
NoHand == [chans |-> {}, msg |-> Nil]

Drained == pump \in {"draining", "ended"}
Registered == {pending[i] : i \in Serial} \ {0}

(* What the fields may be; and nothing stays registered once the request    *)
(* that registered it has returned (the deferred delete of request).       *)
McpTypeOK ==
  /\ phase \in {"new", "initialize", "notify", "list", "bound", "abandon", "failed"}
  /\ closing \in {"open", "stop", "pump", "drain", "release", "returned"}
  /\ closed \in BOOLEAN /\ releasing \subseteq Serial
  /\ call \in [Goroutine -> [at : {"idle", "writing", "waiting", "leaving"},
                             id : 0..MaxRequests, serial : 0..MaxRequests,
                             late : BOOLEAN, got : Message \cup {Error}]]
  /\ nextID \in 0..MaxRequests
  /\ pending \in [Serial -> 0..MaxRequests]
  /\ channel \in [Serial -> Message]
  /\ pump \in {"off", "reading", "handing", "failing", "draining", "ended"}
  /\ hand \in [chans : SUBSET Serial, msg : Message]
  /\ server \in {"off", "up", "exited"}
  /\ unanswered \subseteq Frame /\ stdout \in Seq(Frame) /\ frames \in 0..MaxFrames
  /\ \A s \in Registered : \E g \in Goroutine : call[g].serial = s

McpInit ==
  /\ phase = "new" /\ closing = "open" /\ closed = FALSE /\ releasing = {}
  /\ call = [g \in Goroutine |-> Idle]
  /\ pending = [i \in Serial |-> 0]
  /\ channel = [s \in Serial |-> Empty]
  /\ nextID = 0
  /\ server = "off" /\ unanswered = {} /\ stdout = <<>> /\ frames = 0
  /\ pump = "off" /\ hand = NoHand

------------------------------------------------------------------------------
(* request *)

(* Mutant: ids are handed out by how many requests are pending. *)
NewIdByCount == Cardinality(Registered) + 1
NewId == nextID + 1

MayRequest(g) ==
  /\ call[g] = Idle
  /\ IF g = Opener THEN phase \in {"initialize", "list"} ELSE phase = "bound"
  /\ nextID < MaxRequests

(* closed is checked and the channel registered in one critical section; a  *)
(* request on a closed client is refused, which changes nothing.           *)
Request(g) ==
  /\ MayRequest(g)
  /\ ~closed
  /\ nextID' = nextID + 1
  /\ pending' = [pending EXCEPT ![NewId] = nextID + 1]
  /\ call' = [call EXCEPT ![g] = [at |-> "writing", id |-> NewId, serial |-> nextID + 1,
                                  late |-> Drained, got |-> Empty]]
  /\ UNCHANGED <<connectVars, channel, serverVars, pumpVars>>

Ends(g, got) == call' = [call EXCEPT ![g].at = "leaving", ![g].got = got]

RequestOnly == UNCHANGED <<connectVars, routeVars, serverVars, pumpVars>>

(* The line is written, when the server's end takes it; a server that does  *)
(* not read holds the write up.                                            *)
Written(g) ==
  /\ call[g].at = "writing"
  /\ server = "up"
  /\ unanswered' = unanswered \cup {[id |-> call[g].id, to |-> call[g].serial]}
  /\ call' = [call EXCEPT ![g].at = "waiting"]
  /\ UNCHANGED <<connectVars, routeVars, server, stdout, frames, pumpVars>>

(* A client closed since, or a pipe without a reader. *)
WriteFails(g) ==
  /\ call[g].at = "writing"
  /\ closed \/ server = "exited"
  /\ Ends(g, Error)
  /\ RequestOnly

(* Mutant: no timer, only the channel. *)
NeverTimesOut(g) == FALSE /\ UNCHANGED mcpVars

(* The context is done or the timer fired, whatever is on the channel. *)
TimesOut(g) == call[g].at = "waiting" /\ Ends(g, Error) /\ RequestOnly

Receives(g) ==
  /\ call[g].at = "waiting"
  /\ channel[call[g].serial] # Empty
  /\ Ends(g, channel[call[g].serial])
  /\ channel' = [channel EXCEPT ![call[g].serial] = Empty]
  /\ UNCHANGED <<connectVars, pending, nextID, serverVars, pumpVars>>

(* Connect goes on when it got an answer: what initialize says is not read.  *)
ShakesHands(got) == phase = "initialize" /\ got.what = "frame" /\ phase' = "notify"

(* ListTools reads the answer; a frame that answers nothing is no list.      *)
Lists(got) == got.what = "frame" /\ got.to # 0

(* ConnectMCP binds what was listed, all at once. *)
Binds(got) == phase = "list" /\ Lists(got) /\ phase' = "bound"

(* A step that failed -- an answer may be a server's error -- abandons the  *)
(* connection.                                                             *)
Abandons == phase' = "abandon"

(* The deferred delete, and the return. *)
Leave(g) ==
  /\ call[g].at = "leaving"
  /\ pending' = [pending EXCEPT ![call[g].id] = 0]
  /\ call' = [call EXCEPT ![g] = Idle]
  /\ IF g = Opener THEN \/ ShakesHands(call[g].got) \/ Binds(call[g].got) \/ Abandons
                   ELSE phase' = phase
  /\ UNCHANGED <<closing, closed, releasing, channel, nextID, serverVars, pumpVars>>

Waits(g) == TimesOut(g) \/ Receives(g) \/ Leave(g)

------------------------------------------------------------------------------
(* Connect and Close *)

(* A command that does not start is no connection at all, and leaves the    *)
(* client as it was.                                                       *)
Launch ==
  /\ phase = "new"
  /\ phase' = "initialize"
  /\ server' = "up" /\ pump' = "reading"
  /\ UNCHANGED <<closing, closed, releasing, call, routeVars, unanswered, stdout,
                 frames, hand>>

(* Mutant: a notification that fails is returned, and the server left to run. *)
NotifyLeavesRunning ==
  /\ phase = "notify"
  /\ \/ server = "up" /\ phase' = "list"
     \/ server = "exited" /\ phase' = "failed"
  /\ UNCHANGED <<closing, closed, releasing, call, routeVars, serverVars, pumpVars>>

(* notifications/initialized is written; nothing answers it. *)
Notify ==
  /\ phase = "notify"
  /\ \/ server = "up" /\ phase' = "list"
     \/ server = "exited" /\ phase' = "abandon"
  /\ UNCHANGED <<closing, closed, releasing, call, routeVars, serverVars, pumpVars>>

CloseBegins ==
  /\ phase \in {"abandon", "bound"}
  /\ ~closed
  /\ closed' = TRUE /\ closing' = "stop"
  /\ UNCHANGED <<phase, releasing, call, routeVars, serverVars, pumpVars>>

(* stdin is closed; the server exits, or is killed after two seconds. *)
CloseStops ==
  /\ closing = "stop"
  /\ server' = "exited" /\ closing' = "pump"
  /\ UNCHANGED <<phase, closed, releasing, call, routeVars, unanswered, stdout, frames,
                 pumpVars>>

(* Mutant: Close waits for the pump as long as it takes. *)
CloseAwaitsPumpForever ==
  /\ closing = "pump" /\ pump = "ended"
  /\ closing' = "drain"
  /\ UNCHANGED <<phase, closed, releasing, call, routeVars, serverVars, pumpVars>>

(* Close waits for the pump, a second at most: a descendant of the server    *)
(* may hold stdout open.                                                   *)
CloseAwaitsPump ==
  /\ closing = "pump"
  /\ closing' = "drain"
  /\ UNCHANGED <<phase, closed, releasing, call, routeVars, serverVars, pumpVars>>

CloseDrains ==
  /\ closing = "drain"
  /\ releasing' = Registered
  /\ pending' = [i \in Serial |-> 0]
  /\ closing' = "release"
  /\ UNCHANGED <<phase, closed, call, channel, nextID, serverVars, pumpVars>>

(* A send on a one-slot channel, dropped when the slot is taken. *)
Sent(chans, msg) ==
  [s \in Serial |-> IF s \in chans /\ channel[s] = Empty THEN msg ELSE channel[s]]

CloseReturns ==
  /\ closing = "release"
  /\ channel' = Sent(releasing, Nil)
  /\ releasing' = {} /\ closing' = "returned"
  /\ phase' = IF phase = "abandon" THEN "failed" ELSE phase
  /\ UNCHANGED <<closed, call, pending, nextID, serverVars, pumpVars>>

CloseGoesOn == CloseStops \/ CloseAwaitsPump \/ CloseDrains \/ CloseReturns

------------------------------------------------------------------------------
(* The pump *)

(* deliver: the channel registered under the frame's id is taken out; a      *)
(* frame nobody waits for is dropped.                                      *)
PumpReads ==
  /\ pump = "reading" /\ stdout # <<>>
  /\ LET frame == Head(stdout)
         chan  == IF frame.id = 0 THEN 0 ELSE pending[frame.id]
     IN IF chan = 0 THEN UNCHANGED <<pump, hand, pending>>
        ELSE /\ pump' = "handing"
             /\ hand' = [chans |-> {chan}, msg |-> Answer(frame)]
             /\ pending' = [pending EXCEPT ![frame.id] = 0]
  /\ stdout' = Tail(stdout)
  /\ UNCHANGED <<connectVars, call, channel, nextID, server, unanswered, frames>>

PumpHands ==
  /\ pump \in {"handing", "draining"}
  /\ channel' = Sent(hand.chans, hand.msg)
  /\ hand' = NoHand
  /\ pump' = IF pump = "handing" THEN "reading" ELSE "ended"
  /\ UNCHANGED <<connectVars, call, pending, nextID, serverVars>>

(* End of file -- the server is gone, or has closed its stdout -- or a line   *)
(* longer than the scanner's buffer.                                       *)
PumpEnds ==
  /\ pump = "reading" /\ stdout = <<>>
  /\ pump' = "failing"
  /\ UNCHANGED <<connectVars, call, routeVars, serverVars, hand>>

(* Mutant: the channels are dropped, not unblocked. *)
PumpForgets ==
  /\ pump = "failing"
  /\ pump' = "draining"
  /\ pending' = [i \in Serial |-> 0]
  /\ UNCHANGED <<connectVars, call, channel, nextID, serverVars, hand>>

(* drainPending, after pumpErr is set. *)
PumpDrains ==
  /\ pump = "failing"
  /\ pump' = "draining"
  /\ hand' = [chans |-> Registered, msg |-> Nil]
  /\ pending' = [i \in Serial |-> 0]
  /\ UNCHANGED <<connectVars, call, channel, nextID, serverVars>>

(* The server: answers in any order, perhaps twice or never, writes other     *)
(* frames, stops.                                                          *)
Writes(frame) ==
  /\ server = "up" /\ frames < MaxFrames
  /\ stdout' = Append(stdout, frame)
  /\ frames' = frames + 1
  /\ UNCHANGED <<connectVars, call, routeVars, server, unanswered, pumpVars>>

ServerAnswers == \E frame \in unanswered : Writes(frame)
ServerWritesOther == \E id \in 0..MaxRequests : Writes([id |-> id, to |-> 0])

ServerStops ==
  /\ server = "up"
  /\ server' = "exited"
  /\ UNCHANGED <<connectVars, call, routeVars, unanswered, stdout, frames, pumpVars>>

------------------------------------------------------------------------------
McpNext ==
  \/ Launch \/ Notify \/ CloseBegins \/ CloseGoesOn
  \/ \E g \in Goroutine : Request(g) \/ Written(g) \/ WriteFails(g) \/ Waits(g)
  \/ PumpReads \/ PumpHands \/ PumpEnds \/ PumpDrains
  \/ ServerAnswers \/ ServerWritesOther \/ ServerStops

McpSpec == McpInit /\ [][McpNext]_mcpVars

(* Timers fire, Close and the pump go on.  The server owes nothing: neither   *)
(* to answer, nor to read what is written to it.                           *)
FairMcpSpec ==
  /\ McpSpec
  /\ \A g \in Goroutine : WF_mcpVars(Waits(g))
  /\ WF_mcpVars(CloseGoesOn)
  /\ WF_mcpVars(PumpHands \/ PumpDrains)

------------------------------------------------------------------------------
(* Properties *)

(* mcp_client.go:33-40: whatever was timed out, answered late, answered       *)
(* twice or never asked, a request does not return the answer to another.  *)
AnswerIsOwn ==
  \A g \in Goroutine :
    call[g].at = "leaving" /\ call[g].got.what = "frame" =>
      call[g].got.to \in {0, call[g].serial}

(* drainPending and Close (mcp_client.go:187-221, 426-439): once the pump has  *)
(* ended, or Close returned, no request registered before is left to its   *)
(* timer: its answer is on its channel, or in the pump's hand.             *)
EndReleasesWaiters ==
  \A g \in Goroutine :
    /\ call[g].at = "waiting"
    /\ closing = "returned" \/ (pump = "ended" /\ ~call[g].late)
    => channel[call[g].serial] # Empty \/ call[g].serial \in hand.chans \cup releasing

(* Connect (mcp_client.go:166-182) and ConnectMCP: a connection given up       *)
(* leaves no server running and nothing registered.                        *)
FailedConnectLeavesNothing ==
  phase = "failed" => server = "exited" /\ closed /\ Registered = {}

(* request (mcp_client.go:292-324) and Close: however the server behaves,       *)
(* what waits for an answer returns, and Close returns.                    *)
EveryWaitEnds ==
  /\ \A g \in Goroutine : call[g].at = "waiting" ~> call[g].at = "idle"
  /\ closed ~> closing = "returned"
=============================================================================

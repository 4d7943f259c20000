------------------------------- MODULE Server -------------------------------
(***************************************************************************)
(* The control plane of src/server.go over the process table of            *)
(* src/kernel.go: requests that create and delete instances, submit an     *)
(* intent and run it, and approve a parked one, each on its own goroutine; *)
(* beside them the kernel runs the standing work, until the server is      *)
(* stopped.  Of the scheduler (module Kernel) what matters here is kept:   *)
(* it runs one cycle per name at a time, and looks the name up when it     *)
(* dispatches.                                                             *)
(*                                                                         *)
(* A runtime is known by the load that made it, 0 standing for none.  A    *)
(* request holds the runtime it looked up, whatever happens to the table.  *)
(***************************************************************************)
EXTENDS Naturals, FiniteSets

CONSTANTS
  Client,      \* callers, with one request at a time each
  Name,        \* the names instances are registered under
  Intent,      \* what may be asked
  MaxLoads,    \* bound: stacks loaded
  MaxRequests  \* bound: requests accepted

VARIABLES
  table,        \* Kernel.instances
  armed,        \* the names with standing work in the run queue
  kernelCycle,  \* per name: none, taken off the queue, or the runtime running
  request,      \* per client: how far its handler is
  lastIntents, lastResults,  \* the Server's maps
  loads,        \* stacks loaded so far
  accepted,     \* requests accepted so far
  serve,        \* how far Serve is
  kernelRun,    \* whether Kernel.Run has come to see that it is to stop
  awaiting,     \* per name: the intent last answered awaiting_approval with
                \*   nothing newer asked of the name (history variable)
  superseded,   \* the clients since whose asking something else was asked of
                \*   the name (history variable)
  erased        \* the names a late Forget found a new instance on, nothing
                \*   asked since (history variable)

history == <<awaiting, superseded, erased>>
serverVars == <<table, armed, kernelCycle, request, lastIntents, lastResults,
                loads, accepted, serve, kernelRun, awaiting, superseded, erased>>

NoIntent == "no intent"
NoRuntime == 0
Runtime == 1..MaxLoads

ASSUME ServerAssumption == MaxLoads \in Nat /\ MaxRequests \in Nat

Off == [at |-> "off", rt |-> NoRuntime]
Idle == [at |-> "idle", name |-> "none", rt |-> NoRuntime, intent |-> NoIntent]

Handlers == {"arming", "deleting", "forgetting", "submitting", "approving",
             "submitted", "approved", "decided"}
LookedUp == {"deleting", "submitting", "approving", "submitted", "approved"}

ServerTypeOK ==
  /\ table \in [Name -> {NoRuntime} \cup Runtime]
  /\ armed \subseteq Name
  /\ kernelCycle \in [Name -> [at : {"off", "taken", "running"}, rt : {NoRuntime} \cup Runtime]]
  /\ \A n \in Name : kernelCycle[n].at = "running" <=> kernelCycle[n].rt \in Runtime
  /\ request \in [Client -> [at : {"idle"} \cup Handlers, name : Name \cup {"none"},
                           rt : {NoRuntime} \cup Runtime, intent : Intent \cup {NoIntent}]]
  /\ \A c \in Client :
       /\ request[c].at = "idle" <=> request[c] = Idle
       /\ request[c].at # "idle" => request[c].name \in Name
       /\ request[c].at \in LookedUp => request[c].rt \in Runtime
       /\ request[c].at \in {"submitting", "submitted", "approved"} => request[c].intent \in Intent
  /\ lastIntents \in [Name -> Intent \cup {NoIntent}]
  /\ lastResults \in [Name -> Intent \cup {NoIntent}]
  /\ loads \in 0..MaxLoads /\ accepted \in 0..MaxRequests
  /\ serve \in {"up", "shutting down", "clean", "timed out", "returned clean",
                "returned error", "failed"}
  /\ kernelRun \in {"taking", "stopping"}
  /\ awaiting \in [Name -> Intent \cup {NoIntent}]
  /\ superseded \subseteq Client
  /\ erased \subseteq Name

ServerInit ==
  /\ table = [n \in Name |-> NoRuntime]
  /\ armed = {}
  /\ kernelCycle = [n \in Name |-> Off]
  /\ request = [c \in Client |-> Idle]
  /\ lastIntents = [n \in Name |-> NoIntent]
  /\ lastResults = [n \in Name |-> NoIntent]
  /\ loads = 0
  /\ accepted = 0
  /\ serve = "up"
  /\ kernelRun = "taking"
  /\ awaiting = [n \in Name |-> NoIntent]
  /\ superseded = {}
  /\ erased = {}

------------------------------------------------------------------------------
(* Requests.  A handler is a sequence of critical sections -- the kernel's   *)
(* lock, the server's -- with the rest of the fleet between them.          *)

Busy == {c \in Client : request[c].at # "idle"}

(* The listener hands a request to a goroutine of its own. *)
Accepts(c) ==
  /\ serve = "up"
  /\ request[c] = Idle
  /\ accepted < MaxRequests
  /\ accepted' = accepted + 1

Handling(c, at) == request[c].at = at /\ UNCHANGED accepted
Continues(c, at) == request' = [request EXCEPT ![c].at = at]
Answers(c) == request' = [request EXCEPT ![c] = Idle]

(* Kernel.Register, over whatever had the name, and Kernel.Remove.  The     *)
(* instance that had the name goes, and what it waited for with it.        *)
Register(n, rt) ==
  /\ table' = [table EXCEPT ![n] = rt]
  /\ awaiting' = [awaiting EXCEPT ![n] = NoIntent]
  /\ erased' = erased \ {n}
  /\ UNCHANGED superseded
Remove(n) == Register(n, NoRuntime)

(* Kernel.Instance. *)
Instance(n) == table[n]

(* create: the stack is loaded and registered over whatever had the name,   *)
(* then its standing work is armed -- if it has any, and the name is still  *)
(* there.                                                                  *)
Create(c, n) ==
  /\ Accepts(c)
  /\ loads < MaxLoads
  /\ loads' = loads + 1
  /\ Register(n, loads + 1)
  /\ request' = [request EXCEPT ![c] = [Idle EXCEPT !.at = "arming", !.name = n]]
  /\ UNCHANGED <<armed, kernelCycle, lastIntents, lastResults, serve, kernelRun>>

Arm(c) ==
  /\ Handling(c, "arming")
  /\ armed' \in {armed, IF Instance(request[c].name) = NoRuntime
                        THEN armed ELSE armed \cup {request[c].name}}
  /\ Answers(c)
  /\ UNCHANGED <<table, kernelCycle, lastIntents, lastResults, loads, serve,
                 kernelRun, history>>

(* submit, approve and delete look the instance up; a name that has none is *)
(* a 404.                                                                  *)
LookUp(c, n, at, i) ==
  /\ Accepts(c)
  /\ Instance(n) # NoRuntime
  /\ request' = [request EXCEPT ![c] = [at |-> at, name |-> n, rt |-> Instance(n), intent |-> i]]
  /\ UNCHANGED <<table, armed, kernelCycle, lastIntents, lastResults, loads,
                 serve, kernelRun, history>>

Delete(c, n) == LookUp(c, n, "deleting", NoIntent)
Submit(c, n, i) == LookUp(c, n, "submitting", i)
Approve(c, n) == LookUp(c, n, "approving", NoIntent)

(* delete: out of the table -- whatever has the name by now -- then out of  *)
(* the server's maps, where a new instance may have left its own by then.  *)
Unregister(c) ==
  /\ Handling(c, "deleting")
  /\ Remove(request[c].name)
  /\ Continues(c, "forgetting")
  /\ UNCHANGED <<armed, kernelCycle, lastIntents, lastResults, loads, serve, kernelRun>>

Forget(c) ==
  /\ Handling(c, "forgetting")
  /\ LET n == request[c].name
     IN /\ lastIntents' = [lastIntents EXCEPT ![n] = NoIntent]
        /\ lastResults' = [lastResults EXCEPT ![n] = NoIntent]
        /\ erased' = IF Instance(n) = NoRuntime THEN erased ELSE erased \cup {n}
  /\ Answers(c)
  /\ UNCHANGED <<table, armed, kernelCycle, loads, serve, kernelRun, awaiting, superseded>>

(* Something is asked of the name of c, by c. *)
Asks(c) ==
  LET n == request[c].name
  IN /\ awaiting' = [awaiting EXCEPT ![n] = NoIntent]
     /\ superseded' = (superseded \cup {d \in Busy : request[d].name = n}) \ {c}
     /\ erased' = erased \ {n}

(* Mutant: only the first intent of a name is remembered. *)
RememberFirst(c) ==
  /\ Handling(c, "submitting")
  /\ LET n == request[c].name
     IN lastIntents' = IF lastIntents[n] = NoIntent
                       THEN [lastIntents EXCEPT ![n] = request[c].intent] ELSE lastIntents
  /\ Asks(c)
  /\ Continues(c, "submitted")
  /\ UNCHANGED <<table, armed, kernelCycle, lastResults, loads, serve, kernelRun>>

(* submit remembers the intent before it runs it. *)
Remember(c) ==
  /\ Handling(c, "submitting")
  /\ lastIntents' = [lastIntents EXCEPT ![request[c].name] = request[c].intent]
  /\ Asks(c)
  /\ Continues(c, "submitted")
  /\ UNCHANGED <<table, armed, kernelCycle, lastResults, loads, serve, kernelRun>>

(* approve runs what is remembered, with the verdict -- the intent asked    *)
(* last, whichever cycle the caller saw parked; a name with nothing        *)
(* remembered is a 400.                                                    *)
Recollect(c) ==
  /\ Handling(c, "approving")
  /\ LET intent == lastIntents[request[c].name]
     IN IF intent = NoIntent
        THEN Answers(c) /\ UNCHANGED superseded
        ELSE /\ request' = [request EXCEPT ![c].at = "approved", ![c].intent = intent]
             /\ superseded' = superseded \ {c}
  /\ UNCHANGED <<table, armed, kernelCycle, lastIntents, lastResults, loads,
                 serve, kernelRun, awaiting, erased>>

Reasoning(c) == request[c].at \in {"submitted", "approved"}

(* The cycle of c is the latest asked of the instance that has its name. *)
Latest(c) == c \notin superseded /\ table[request[c].name] = request[c].rt

(* The cycle of a request ends: decided; refused; or parked -- again, when  *)
(* its verdict does not lift the gate.                                     *)
Parks(c) ==
  /\ Answers(c)
  /\ awaiting' = IF Latest(c) THEN [awaiting EXCEPT ![request[c].name] = request[c].intent]
                 ELSE awaiting

(* Mutant: an intent is remembered once more when its cycle is parked. *)
ReasonEndsRemembering(c) ==
  /\ Reasoning(c)
  /\ \/ Continues(c, "decided") /\ UNCHANGED <<awaiting, lastIntents>>
     \/ Answers(c) /\ UNCHANGED <<awaiting, lastIntents>>
     \/ /\ Parks(c)
        /\ lastIntents' = [lastIntents EXCEPT ![request[c].name] = request[c].intent]
  /\ UNCHANGED <<table, armed, kernelCycle, lastResults, loads, accepted,
                 serve, kernelRun, superseded, erased>>

ReasonEnds(c) ==
  /\ Reasoning(c)
  /\ \/ Continues(c, "decided") /\ UNCHANGED awaiting
     \/ Answers(c) /\ UNCHANGED awaiting
     \/ Parks(c)
  /\ UNCHANGED <<table, armed, kernelCycle, lastIntents, lastResults, loads,
                 accepted, serve, kernelRun, superseded, erased>>

RecordResult(c) ==
  /\ Handling(c, "decided")
  /\ lastResults' = [lastResults EXCEPT ![request[c].name] = request[c].intent]
  /\ Answers(c)
  /\ UNCHANGED <<table, armed, kernelCycle, lastIntents, loads, serve, kernelRun,
                 history>>

------------------------------------------------------------------------------
(* The kernel's standing work *)

KernelOnly == UNCHANGED <<table, armed, request, lastIntents, lastResults, loads,
                          accepted, serve, kernelRun, history>>

(* Run's loop, or the fill of the worker pool, takes work that is ready.    *)
(* Only the head of the loop looks at the context: until then taking goes   *)
(* on, whatever became of the listener.                                    *)
KernelTake(n) ==
  /\ kernelRun = "taking"
  /\ n \in armed /\ kernelCycle[n] = Off
  /\ kernelCycle' = [kernelCycle EXCEPT ![n].at = "taken"]
  /\ KernelOnly

(* dispatch looks the name up; a task of a name that is gone fails. *)
KernelDispatch(n) ==
  /\ kernelCycle[n].at = "taken"
  /\ kernelCycle' = [kernelCycle EXCEPT ![n] =
       IF Instance(n) = NoRuntime THEN Off ELSE [at |-> "running", rt |-> Instance(n)]]
  /\ KernelOnly

KernelCycleEnds(n) ==
  /\ kernelCycle[n].at = "running"
  /\ kernelCycle' = [kernelCycle EXCEPT ![n] = Off]
  /\ KernelOnly

------------------------------------------------------------------------------
(* Serve *)

ServeOnly == UNCHANGED <<table, armed, kernelCycle, request, lastIntents, lastResults,
                         loads, accepted, history>>

KernelQuiet == \A n \in Name : kernelCycle[n] = Off

(* The context is cancelled, and the listener closes. *)
Stop == serve = "up" /\ serve' = "shutting down" /\ UNCHANGED kernelRun /\ ServeOnly

(* Run comes to the head of its loop, and sees it. *)
KernelSeesContext ==
  /\ serve # "up" /\ kernelRun = "taking"
  /\ kernelRun' = "stopping"
  /\ UNCHANGED serve /\ ServeOnly

(* Mutant: the shutdown waits for the requests however long they take. *)
ShutdownPatient ==
  /\ serve = "shutting down"
  /\ Busy = {} /\ serve' = "clean"
  /\ UNCHANGED kernelRun /\ ServeOnly

(* Shutdown returns when no request is in flight, or after ten seconds.     *)
Shutdown ==
  /\ serve = "shutting down"
  /\ \/ Busy = {} /\ serve' = "clean"
     \/ serve' = "timed out"
  /\ UNCHANGED kernelRun /\ ServeOnly

(* Mutant: Serve does not wait for the kernel. *)
ServeReturnsAtOnce ==
  /\ serve \in {"clean", "timed out"}
  /\ serve' = IF serve = "clean" THEN "returned clean" ELSE "returned error"
  /\ UNCHANGED kernelRun /\ ServeOnly

(* Serve waits for Run, which returns when its cycles have ended, and       *)
(* returns what Shutdown returned.                                         *)
ServeReturns ==
  /\ serve \in {"clean", "timed out"}
  /\ kernelRun = "stopping" /\ KernelQuiet
  /\ serve' = IF serve = "clean" THEN "returned clean" ELSE "returned error"
  /\ UNCHANGED kernelRun /\ ServeOnly

(* The listener fails -- its address is taken: Serve returns that error.    *)
(* Nothing stops the kernel, until the caller cancels the context.         *)
ListenerFails == serve = "up" /\ serve' = "failed" /\ UNCHANGED kernelRun /\ ServeOnly

HandlerStep(c) ==
  \/ \E n \in Name : \/ Create(c, n) \/ Delete(c, n) \/ Approve(c, n)
                     \/ \E i \in Intent : Submit(c, n, i)
  \/ Arm(c) \/ Unregister(c) \/ Forget(c)
  \/ Remember(c) \/ Recollect(c) \/ ReasonEnds(c) \/ RecordResult(c)

KernelWork(n) == KernelDispatch(n) \/ KernelCycleEnds(n)

ServerNext ==
  \/ \E c \in Client : HandlerStep(c)
  \/ \E n \in Name : KernelTake(n) \/ KernelWork(n)
  \/ Stop \/ KernelSeesContext \/ ListenerFails \/ Shutdown \/ ServeReturns

ServerSpec == ServerInit /\ [][ServerNext]_serverVars

Stopped == serve \in {"shutting down", "clean", "timed out"}
StoppedKernelGoesOn == Stopped /\ (KernelSeesContext \/ \E n \in Name : KernelTake(n))

(* The kernel's cycles end, for their context is cancelled; Shutdown and    *)
(* Serve go on, and so does Run: it takes what is ready, or comes to the    *)
(* head of its loop.  Nothing says that the cycle of a request ends.       *)
FairServerSpec ==
  /\ ServerSpec
  /\ \A n \in Name : WF_serverVars(KernelWork(n))
  /\ WF_serverVars(Shutdown)
  /\ WF_serverVars(ServeReturns)
  /\ WF_serverVars(StoppedKernelGoesOn)

------------------------------------------------------------------------------
(* Properties *)

(* server.go:499-501 and 534-542: Serve returns once its context is         *)
(* cancelled, however long the cycle of a request takes; by then no         *)
(* standing work runs or will, and if it returns no error no request is in  *)
(* flight either.  One thing keeps it from returning: standing work of      *)
(* which something is always ready, so that Run, which looks at its         *)
(* context only at the head of its loop, never comes there.                *)
StoppedServerReturns ==
  /\ [](serve \in {"returned clean", "returned error"} =>
         /\ kernelRun = "stopping" /\ KernelQuiet
         /\ serve = "returned clean" => Busy = {})
  /\ <>[]Stopped => []<><<\E n \in Name : KernelTake(n)>>_serverVars

(* server.go:71-75: the server remembers what a parked cycle was asked to   *)
(* do, however the requests on a name overlap.  From the answer             *)
(* awaiting_approval, given by the cycle asked last, until something else   *)
(* is asked of the name or the instance goes, approve runs that very       *)
(* intent, on a live instance.  What breaks it is a delete that finishes    *)
(* after the next create: it erases what the new instance was asked        *)
(* (297-301).                                                              *)
ParkedStaysApprovable ==
  \A n \in Name \ erased :
    awaiting[n] # NoIntent => lastIntents[n] = awaiting[n] /\ table[n] # NoRuntime

(* kernel.go:49-53 and server.go:43: at most one cycle runs per instance,   *)
(* so that each is the single writer of its memory and trail.              *)
OneCyclePerRuntime ==
  \A r \in Runtime :
    Cardinality({c \in Client : Reasoning(c) /\ request[c].rt = r})
      + Cardinality({n \in Name : kernelCycle[n].rt = r}) <= 1

==============================================================================

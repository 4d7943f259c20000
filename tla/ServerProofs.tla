----------------------------- MODULE ServerProofs ------------------------------
(***************************************************************************)
(* Theorems about the control plane of module Server, for any number of    *)
(* clients, names, intents and requests: that the server can always run    *)
(* again what it answered awaiting_approval.                               *)
(***************************************************************************)
EXTENDS Server, TLAPS

(***************************************************************************)
(* The inductive invariant.  Handlers work on their name in several         *)
(* critical sections, side by side.  A cycle whose intent was asked last of *)
(* the instance that has the name finds that intent remembered, unless a    *)
(* delete erased it; a cycle of an earlier instance is never mistaken for   *)
(* one of this, because no runtime is loaded twice.                         *)
(***************************************************************************)
RuntimesLoaded ==
  /\ \A n \in Name : table[n] <= loads
  /\ \A c \in Client : request[c].rt <= loads

Remembered(c) ==
  Reasoning(c) /\ Latest(c) /\ request[c].name \notin erased =>
    lastIntents[request[c].name] = request[c].intent

LatestRemembered == \A c \in Client : Remembered(c)

ServerIInv ==
  ServerTypeOK /\ RuntimesLoaded /\ LatestRemembered /\ ParkedStaysApprovable

------------------------------------------------------------------------------
(* Types *)

RequestType == [at : {"idle"} \cup Handlers, name : Name \cup {"none"},
                rt : {NoRuntime} \cup Runtime, intent : Intent \cup {NoIntent}]

(* What a request record says of itself. *)
RequestOK(r) ==
  /\ r \in RequestType
  /\ r.at = "idle" <=> r = Idle
  /\ r.at # "idle" => r.name \in Name
  /\ r.at \in LookedUp => r.rt \in Runtime
  /\ r.at \in {"submitting", "submitted", "approved"} => r.intent \in Intent

RequestsOK == request \in [Client -> RequestType] /\ \A c \in Client : RequestOK(request[c])

TablesOK ==
  /\ table \in [Name -> {NoRuntime} \cup Runtime]
  /\ armed \subseteq Name
  /\ kernelCycle \in [Name -> [at : {"off", "taken", "running"}, rt : {NoRuntime} \cup Runtime]]
  /\ \A n \in Name : kernelCycle[n].at = "running" <=> kernelCycle[n].rt \in Runtime
  /\ lastIntents \in [Name -> Intent \cup {NoIntent}]
  /\ lastResults \in [Name -> Intent \cup {NoIntent}]
  /\ loads \in 0..MaxLoads /\ accepted \in 0..MaxRequests
  /\ serve \in {"up", "shutting down", "clean", "timed out", "returned clean",
                "returned error", "failed"}
  /\ kernelRun \in {"taking", "stopping"}
  /\ awaiting \in [Name -> Intent \cup {NoIntent}]
  /\ superseded \subseteq Client
  /\ erased \subseteq Name

LEMMA TypeSplit == ServerTypeOK <=> TablesOK /\ RequestsOK
  BY DEF ServerTypeOK, TablesOK, RequestsOK, RequestOK, RequestType

LEMMA Idling == RequestOK(Idle) /\ Idle.at = "idle"
  BY DEF Idle, RequestOK, RequestType, Handlers, LookedUp

(* What the request of a client becomes. *)
LEMMA OneRequestChanges ==
  ASSUME RequestsOK, NEW c \in Client, NEW r, RequestOK(r),
         request' = [request EXCEPT ![c] = r]
  PROVE  RequestsOK'
  BY DEF RequestsOK, RequestOK

(* The requests, step by step of a handler. *)
LEMMA HandlerRequests ==
  ASSUME ServerTypeOK, NEW c \in Client, HandlerStep(c)
  PROVE  \E r : RequestOK(r) /\ request' = [request EXCEPT ![c] = r]
  <1> DEFINE Becomes(r) == RequestOK(r) /\ request' = [request EXCEPT ![c] = r]
  <1>1. RequestOK(request[c]) /\ request \in [Client -> RequestType]
    BY TypeSplit DEF RequestsOK
  <1>2. ASSUME NEW n \in Name, Create(c, n)
        PROVE  \E r : Becomes(r)
    <2>1. RequestOK([Idle EXCEPT !.at = "arming", !.name = n])
      BY DEF Idle, RequestOK, RequestType, Handlers, LookedUp
    <2> QED
      BY <1>2, <2>1 DEF Create
  <1>3. ASSUME NEW n \in Name, NEW at \in {"deleting", "submitting", "approving"},
               NEW i \in Intent \cup {NoIntent}, LookUp(c, n, at, i),
               at = "submitting" => i \in Intent
        PROVE  \E r : Becomes(r)
    <2>1. Instance(n) \in Runtime
      BY <1>3 DEF LookUp, Instance, ServerTypeOK
    <2>2. RequestOK([at |-> at, name |-> n, rt |-> Instance(n), intent |-> i])
      BY <1>3, <2>1 DEF Idle, RequestOK, RequestType, Handlers, LookedUp
    <2> QED
      BY <1>3, <2>2 DEF LookUp
  <1>4. ASSUME Answers(c)
        PROVE  \E r : Becomes(r)
    BY <1>4, Idling DEF Answers
  <1>5. ASSUME NEW at, Continues(c, at),
               \/ request[c].at = "submitting" /\ at = "submitted"
               \/ request[c].at = "deleting" /\ at = "forgetting"
               \/ Reasoning(c) /\ at = "decided"
        PROVE  \E r : Becomes(r)
    <2>1. RequestOK([request[c] EXCEPT !.at = at])
      BY <1>1, <1>5 DEF Idle, RequestOK, RequestType, Handlers, LookedUp, Reasoning
    <2>2. request' = [request EXCEPT ![c] = [request[c] EXCEPT !.at = at]]
      BY <1>1, <1>5 DEF Continues
    <2> QED
      BY <2>1, <2>2
  <1> SUFFICES \E r : Becomes(r)
    OBVIOUS
  <1>6. CASE Recollect(c)
    <2> DEFINE intent == lastIntents[request[c].name]
    <2>1. CASE intent = NoIntent
      BY <1>4, <1>6, <2>1 DEF Recollect
    <2>2. CASE intent # NoIntent
      <3>1. request[c].at = "approving" /\ intent \in Intent
        BY <1>1, <1>6, <2>2 DEF Recollect, Handling, RequestOK, ServerTypeOK
      <3>2. request' = [request EXCEPT ![c] = [request[c] EXCEPT !.at = "approved", !.intent = intent]]
        BY <1>1, <1>6, <2>2 DEF Recollect
      <3>3. RequestOK([request[c] EXCEPT !.at = "approved", !.intent = intent])
        BY <1>1, <3>1 DEF Idle, RequestOK, RequestType, Handlers, LookedUp
      <3> QED
        BY <3>2, <3>3
    <2> QED
      BY <2>1, <2>2
  <1>7. CASE Remember(c) \/ ReasonEnds(c) \/ Unregister(c)
    BY <1>4, <1>5, <1>7 DEF Remember, ReasonEnds, Parks, Unregister, Handling
  <1>8. CASE Arm(c) \/ Forget(c) \/ RecordResult(c)
    BY <1>4, <1>8 DEF Arm, Forget, RecordResult
  <1>9. CASE \E n \in Name : Create(c, n)
    BY <1>2, <1>9
  <1> HIDE DEF Becomes
  <1>10. ASSUME NEW n \in Name, Delete(c, n) \/ Approve(c, n)
         PROVE  \E r : Becomes(r)
    <2>1. NoIntent \in Intent \cup {NoIntent}
      OBVIOUS
    <2>2. CASE Delete(c, n)
      BY <1>3, <2>1, <2>2 DEF Delete
    <2>3. CASE Approve(c, n)
      BY <1>3, <2>1, <2>3 DEF Approve
    <2> QED
      BY <1>10, <2>2, <2>3
  <1>11. ASSUME NEW n \in Name, NEW i \in Intent, Submit(c, n, i)
         PROVE  \E r : Becomes(r)
    BY <1>3, <1>11 DEF Submit
  <1> QED
    BY <1>6, <1>7, <1>8, <1>9, <1>10, <1>11 DEF HandlerStep

LEMMA Counted ==
  /\ \A l \in 0..MaxLoads : l < MaxLoads => l + 1 \in 0..MaxLoads /\ l + 1 \in Runtime
  /\ \A k \in 0..MaxRequests : k < MaxRequests => k + 1 \in 0..MaxRequests
  BY ServerAssumption DEF Runtime

LEMMA HandlerTables ==
  ASSUME ServerTypeOK, NEW c \in Client, HandlerStep(c)
  PROVE  TablesOK'
  <1> USE DEF ServerTypeOK, TablesOK
  <1>1. /\ RequestOK(request[c])
        /\ request[c].intent \in Intent \cup {NoIntent}
        /\ request[c].at # "idle" => request[c].name \in Name
    BY TypeSplit DEF RequestsOK, RequestOK, RequestType
  <1>2. ASSUME Accepts(c)
        PROVE  accepted' \in 0..MaxRequests
    BY <1>2, Counted DEF Accepts
  <1>3. ASSUME NEW n \in Name, Create(c, n)
        PROVE  TablesOK'
    <2>1. loads' \in 0..MaxLoads /\ loads + 1 \in Runtime
      BY <1>3, Counted DEF Create
    <2> QED
      BY <1>2, <1>3, <2>1 DEF Create, Register
  <1>4. CASE Unregister(c)
    BY <1>1, <1>4 DEF Unregister, Remove, Register, Handling
  <1>5. ASSUME NEW n \in Name, NEW at, NEW i, LookUp(c, n, at, i)
        PROVE  TablesOK'
    BY <1>2, <1>5 DEF LookUp, history
  <1>6. CASE Arm(c)
    <2>1. armed' \subseteq Name
      BY <1>1, <1>6 DEF Arm, Handling
    <2> QED
      BY <1>6, <2>1 DEF Arm, Handling, history
  <1>7. CASE Forget(c)
    BY <1>1, <1>7 DEF Forget, Handling
  <1>8. CASE Remember(c)
    BY <1>1, <1>8 DEF Remember, Asks, Handling, Busy
  <1>9. CASE Recollect(c) \/ RecordResult(c)
    BY <1>1, <1>9 DEF Recollect, RecordResult, Handling, history
  <1>10. CASE ReasonEnds(c)
    <2>1. awaiting' \in [Name -> Intent \cup {NoIntent}]
      BY <1>1, <1>10 DEF ReasonEnds, Parks
    <2> QED
      BY <1>10, <2>1 DEF ReasonEnds
  <1> QED
    BY <1>3, <1>4, <1>5, <1>6, <1>7, <1>8, <1>9, <1>10 DEF HandlerStep, Approve, Submit, Delete

LEMMA OtherTypes ==
  ASSUME ServerTypeOK,
         \/ \E n \in Name : KernelTake(n) \/ KernelWork(n)
         \/ Stop \/ KernelSeesContext \/ ListenerFails \/ Shutdown \/ ServeReturns
         \/ UNCHANGED serverVars
  PROVE  /\ ServerTypeOK'
         /\ UNCHANGED <<table, request, lastIntents, loads, history>>
  <1>1. ASSUME NEW n \in Name, KernelTake(n) \/ KernelWork(n)
        PROVE  /\ kernelCycle' \in [Name -> [at : {"off", "taken", "running"},
                                             rt : {NoRuntime} \cup Runtime]]
               /\ \A m \in Name : kernelCycle'[m].at = "running" <=> kernelCycle'[m].rt \in Runtime
               /\ KernelOnly /\ UNCHANGED serve
    <2>1. Off \in [at : {"off", "taken", "running"}, rt : {NoRuntime} \cup Runtime]
          /\ Off.at # "running" /\ Off.rt \notin Runtime /\ Off.rt = NoRuntime
      BY ServerAssumption DEF Off, NoRuntime, Runtime
    <2>2. KernelOnly /\ UNCHANGED serve
      BY <1>1 DEF KernelTake, KernelWork, KernelDispatch, KernelCycleEnds, KernelOnly
    <2>3. CASE KernelTake(n)
      BY <2>1, <2>2, <2>3 DEF KernelTake, ServerTypeOK
    <2>4. CASE KernelDispatch(n)
      <3>1. Instance(n) # NoRuntime => Instance(n) \in Runtime
        BY DEF Instance, ServerTypeOK
      <3> QED
        BY <2>1, <2>2, <2>4, <3>1 DEF KernelDispatch, ServerTypeOK
    <2>5. CASE KernelCycleEnds(n)
      BY <2>1, <2>2, <2>5 DEF KernelCycleEnds, ServerTypeOK
    <2> QED
      BY <1>1, <2>3, <2>4, <2>5 DEF KernelWork
  <1>2. CASE \E n \in Name : KernelTake(n) \/ KernelWork(n)
    BY <1>1, <1>2 DEF ServerTypeOK, KernelOnly, history
  <1>3. CASE Stop \/ KernelSeesContext \/ ListenerFails \/ Shutdown \/ ServeReturns
    BY <1>3 DEF Stop, KernelSeesContext, ListenerFails, Shutdown, ServeReturns, ServeOnly,
                ServerTypeOK, history
  <1>4. CASE UNCHANGED serverVars
    BY <1>4 DEF serverVars, ServerTypeOK, history
  <1> QED
    BY <1>2, <1>3, <1>4

LEMMA InitTypes == ServerInit => ServerTypeOK
  <1> SUFFICES ASSUME ServerInit PROVE ServerTypeOK
    OBVIOUS
  <1>1. RequestsOK
    BY Idling DEF ServerInit, RequestsOK, RequestOK
  <1>2. Off \in [at : {"off", "taken", "running"}, rt : {NoRuntime} \cup Runtime]
        /\ Off.at # "running" /\ Off.rt \notin Runtime
    BY ServerAssumption DEF Off, NoRuntime, Runtime
  <1>3. TablesOK
    BY <1>2, ServerAssumption DEF ServerInit, TablesOK
  <1> QED
    BY <1>1, <1>3, TypeSplit

LEMMA NextTypes ==
  ASSUME ServerTypeOK, [ServerNext]_serverVars
  PROVE  ServerTypeOK'
  <1>1. ASSUME NEW c \in Client, HandlerStep(c)
        PROVE  ServerTypeOK'
    <2>1. RequestsOK'
      BY <1>1, HandlerRequests, OneRequestChanges, TypeSplit
    <2> QED
      BY <1>1, <2>1, HandlerTables
         DEF ServerTypeOK, TablesOK, RequestsOK, RequestOK, RequestType
  <1> QED
    BY <1>1, OtherTypes DEF ServerNext

------------------------------------------------------------------------------
(* Handlers and names *)

Parked(n) == awaiting[n] # NoIntent => lastIntents[n] = awaiting[n] /\ table[n] # NoRuntime

Loaded(rt) == rt \in Nat /\ rt <= loads

LEMMA Types ==
  ASSUME ServerIInv
  PROVE  /\ ServerTypeOK /\ loads \in Nat /\ Idle.at = "idle" /\ Idle.rt = NoRuntime
         /\ request \in [Client -> RequestType]
         /\ \A c \in Client : Loaded(request[c].rt)
         /\ \A c \in Client : request[c].at # "idle" => request[c].name \in Name
         /\ \A c \in Client : Reasoning(c) => request[c].rt # NoRuntime
         /\ \A n \in Name : Loaded(table[n])
  <1>0. Idle.at = "idle" /\ Idle.rt = NoRuntime
    BY DEF Idle
  <1>1. ServerTypeOK /\ RuntimesLoaded /\ loads \in Nat
    <2>1. ServerTypeOK /\ RuntimesLoaded
      BY DEF ServerIInv
    <2>2. loads \in 0..MaxLoads
      BY <2>1 DEF ServerTypeOK
    <2> QED
      BY <2>1, <2>2, ServerAssumption
  <1>2. request \in [Client -> RequestType] /\ table \in [Name -> {NoRuntime} \cup Runtime]
    BY <1>1 DEF ServerTypeOK, RequestType
  <1>3. {NoRuntime} \cup Runtime \subseteq Nat /\ NoRuntime \notin Runtime
    BY ServerAssumption DEF Runtime, NoRuntime
  <1>4. ASSUME NEW c \in Client
        PROVE  request[c].rt \in Nat /\ (Reasoning(c) => request[c].rt # NoRuntime)
    <2>1. request[c].rt \in {NoRuntime} \cup Runtime
      BY <1>2 DEF RequestType
    <2>2. Reasoning(c) => request[c].rt \in Runtime
      BY <1>1 DEF ServerTypeOK, Reasoning, LookedUp
    <2> QED
      BY <1>3, <2>1, <2>2
  <1>5. \A n \in Name : table[n] \in Nat
    BY <1>2, <1>3
  <1>6. \A c \in Client : request[c].at # "idle" => request[c].name \in Name
    BY <1>1 DEF ServerTypeOK
  <1> QED
    BY <1>0, <1>1, <1>2, <1>4, <1>5, <1>6 DEF RuntimesLoaded, Loaded

(* A step of a handler concerns its own name: what it leaves there decides. *)
LEMMA OwnName ==
  ASSUME ServerIInv, NEW c \in Client, NEW n \in Name,
         \A d \in Client : d # c => request'[d] = request[d],
         Reasoning(c)' => request'[c].name = n,
         \A m \in Name : m # n => /\ table'[m] = table[m]
                                /\ lastIntents'[m] = lastIntents[m]
                                /\ awaiting'[m] = awaiting[m]
                                /\ (m \in erased <=> m \in erased'),
         \A d \in Client : d # c /\ request[d].name # n /\ d \in superseded => d \in superseded',
         n \notin erased' => Parked(n)',
         \A d \in Client : request'[d].name = n => Remembered(d)'
  PROVE  LatestRemembered' /\ ParkedStaysApprovable'
  <1>1. ParkedStaysApprovable'
    <2> SUFFICES ASSUME NEW m \in Name, m \notin erased'
                 PROVE  Parked(m)'
      BY DEF ParkedStaysApprovable, Parked
    <2>1. CASE m # n
      BY <2>1 DEF ServerIInv, ParkedStaysApprovable, Parked
    <2> QED
      BY <2>1
  <1>2. LatestRemembered'
    <2> SUFFICES ASSUME NEW d \in Client, Reasoning(d)'
                 PROVE  Remembered(d)'
      BY DEF LatestRemembered, Remembered
    <2>1. CASE request'[d].name # n
      <3>1. d # c /\ request'[d] = request[d] /\ Reasoning(d)
        BY <2>1 DEF Reasoning
      <3>2. request[d].name \in Name /\ request[d].name # n
        BY <2>1, <3>1, Types DEF Reasoning
      <3>3. Remembered(d)
        BY DEF ServerIInv, LatestRemembered
      <3>4. Latest(d)' => Latest(d)
        BY <3>1, <3>2 DEF Latest
      <3> QED
        BY <3>1, <3>2, <3>3, <3>4 DEF Remembered
    <2> QED
      BY <2>1
  <1> QED
    BY <1>1, <1>2

LEMMA SelfUpdate ==
  ASSUME ServerIInv, NEW c \in Client, NEW r, request' = [request EXCEPT ![c] = r]
  PROVE  request'[c] = r /\ \A d \in Client : d # c => request'[d] = request[d]
  BY Types

(* What the table may be loaded with. *)
LEMMA StaysLoaded ==
  ASSUME ServerIInv, NEW c \in Client,
         loads' \in Nat, loads <= loads',
         \A d \in Client : d # c => request'[d] = request[d],
         request'[c].rt \in {request[c].rt, NoRuntime} \cup {table[m] : m \in Name},
         \A m \in Name : table'[m] \in {table[m], NoRuntime, loads'}
  PROVE  RuntimesLoaded'
  BY Types DEF RuntimesLoaded, Loaded, NoRuntime

(* create: nothing in flight holds the runtime it registers.                *)
LEMMA CreateKeeps ==
  ASSUME ServerIInv, NEW c \in Client, NEW n \in Name, Create(c, n)
  PROVE  RuntimesLoaded' /\ LatestRemembered' /\ ParkedStaysApprovable'
  <1> DEFINE r == [Idle EXCEPT !.at = "arming", !.name = n]
  <1>1. /\ request' = [request EXCEPT ![c] = r] /\ loads' = loads + 1
        /\ table' = [table EXCEPT ![n] = loads + 1]
        /\ awaiting' = [awaiting EXCEPT ![n] = NoIntent] /\ erased' = erased \ {n}
        /\ UNCHANGED <<lastIntents, superseded>>
    BY DEF Create, Register
  <1>2. r.at = "arming" /\ r.name = n /\ r.rt = NoRuntime
    BY DEF Idle
  <1> HIDE DEF r
  <1>3. /\ request'[c] = r /\ \A d \in Client : d # c => request'[d] = request[d]
        /\ ~Reasoning(c)'
    BY <1>1, <1>2, SelfUpdate DEF Reasoning
  <1>4. /\ table'[n] = loads + 1 /\ awaiting'[n] = NoIntent
        /\ \A m \in Name : m # n => /\ table'[m] = table[m] /\ awaiting'[m] = awaiting[m]
                                  /\ (m \in erased <=> m \in erased')
    BY <1>1, Types DEF ServerTypeOK
  <1>5. RuntimesLoaded'
    BY <1>1, <1>2, <1>3, <1>4, Types, StaysLoaded
  <1>6. ASSUME NEW d \in Client, request'[d].name = n
        PROVE  Remembered(d)'
    <2>1. CASE d = c
      BY <1>3, <2>1 DEF Remembered
    <2>2. CASE d # c
      <3>1. request'[d].rt \in Nat /\ request'[d].rt <= loads /\ loads \in Nat
        BY <1>3, <2>2, Types DEF Loaded
      <3> QED
        BY <1>4, <1>6, <3>1 DEF Remembered, Latest
    <2> QED
      BY <2>1, <2>2
  <1>7. LatestRemembered' /\ ParkedStaysApprovable'
    BY <1>1, <1>3, <1>4, <1>6, OwnName DEF Parked
  <1> QED
    BY <1>5, <1>7

(* A lookup changes no more than its own request, and runs no cycle yet.    *)
LEMMA LookUpKeeps ==
  ASSUME ServerIInv, NEW c \in Client, NEW n \in Name,
         NEW at \in {"deleting", "submitting", "approving"}, NEW i, LookUp(c, n, at, i)
  PROVE  RuntimesLoaded' /\ LatestRemembered' /\ ParkedStaysApprovable'
  <1>1. /\ request' = [request EXCEPT ![c] = [at |-> at, name |-> n, rt |-> table[n], intent |-> i]]
        /\ UNCHANGED <<table, lastIntents, loads, awaiting, superseded, erased>>
    BY DEF LookUp, Instance, history
  <1>2. /\ request'[c] = [at |-> at, name |-> n, rt |-> table[n], intent |-> i]
        /\ \A d \in Client : d # c => request'[d] = request[d]
    BY <1>1, SelfUpdate
  <1>3. ~Reasoning(c)'
    BY <1>2 DEF Reasoning
  <1>4. RuntimesLoaded'
    BY <1>1, <1>2, Types, StaysLoaded
  <1>5. \A d \in Client : Remembered(d)'
    BY <1>1, <1>2, <1>3 DEF ServerIInv, LatestRemembered, Remembered, Reasoning, Latest
  <1>6. n \notin erased' => Parked(n)'
    BY <1>1 DEF ServerIInv, ParkedStaysApprovable, Parked
  <1>7. LatestRemembered' /\ ParkedStaysApprovable'
    BY <1>1, <1>2, <1>3, <1>5, <1>6, OwnName
  <1> QED
    BY <1>4, <1>7

(* A handler that answers, or goes on without a cycle, and leaves the maps. *)
LEMMA AnswerKeeps ==
  ASSUME ServerIInv, NEW c \in Client,
         \A d \in Client : d # c => request'[d] = request[d],
         ~Reasoning(c)', request'[c].rt \in {request[c].rt, NoRuntime},
         UNCHANGED <<table, lastIntents, loads, superseded, erased>>,
         awaiting' \in [Name -> Intent \cup {NoIntent}],
         \A n \in Name \ erased : Parked(n)'
  PROVE  RuntimesLoaded' /\ LatestRemembered' /\ ParkedStaysApprovable'
  <1>1. RuntimesLoaded'
    BY Types, StaysLoaded
  <1>2. LatestRemembered'
    BY DEF ServerIInv, LatestRemembered, Remembered, Reasoning, Latest
  <1> QED
    BY <1>1, <1>2 DEF ParkedStaysApprovable, Parked

(* delete: what runs holds a runtime the table has no more.                 *)
LEMMA UnregisterKeeps ==
  ASSUME ServerIInv, NEW c \in Client, Unregister(c)
  PROVE  RuntimesLoaded' /\ LatestRemembered' /\ ParkedStaysApprovable'
  <1>0. PICK n \in Name : n = request[c].name
    BY Types DEF Unregister, Handling
  <1>1. /\ request' = [request EXCEPT ![c] = [request[c] EXCEPT !.at = "forgetting"]]
        /\ table' = [table EXCEPT ![n] = NoRuntime]
        /\ awaiting' = [awaiting EXCEPT ![n] = NoIntent] /\ erased' = erased \ {n}
        /\ UNCHANGED <<lastIntents, superseded, loads>>
    BY <1>0, Types DEF Unregister, Remove, Register, Continues
  <1>2. /\ request'[c] = [request[c] EXCEPT !.at = "forgetting"]
        /\ \A d \in Client : d # c => request'[d] = request[d]
    BY <1>1, SelfUpdate
  <1>3. request'[c].at = "forgetting" /\ request'[c].rt = request[c].rt /\ ~Reasoning(c)'
    BY <1>2, Types DEF RequestType, Reasoning
  <1>4. /\ table'[n] = NoRuntime /\ awaiting'[n] = NoIntent
        /\ \A m \in Name : m # n => /\ table'[m] = table[m] /\ awaiting'[m] = awaiting[m]
                                  /\ (m \in erased <=> m \in erased')
    BY <1>1, Types DEF ServerTypeOK
  <1>5. RuntimesLoaded'
    BY <1>1, <1>2, <1>3, <1>4, Types, StaysLoaded
  <1>6. ASSUME NEW d \in Client, request'[d].name = n
        PROVE  Remembered(d)'
    <2>1. d # c /\ Reasoning(d)' => request'[d].rt # NoRuntime
      BY <1>2, Types DEF Reasoning
    <2> QED
      BY <1>3, <1>4, <1>6, <2>1 DEF Remembered, Latest
  <1>7. LatestRemembered' /\ ParkedStaysApprovable'
    BY <1>1, <1>2, <1>3, <1>4, <1>6, OwnName DEF Parked
  <1> QED
    BY <1>5, <1>7

LEMMA ForgetKeeps ==
  ASSUME ServerIInv, NEW c \in Client, Forget(c)
  PROVE  RuntimesLoaded' /\ LatestRemembered' /\ ParkedStaysApprovable'
  <1>0. PICK n \in Name : n = request[c].name
    BY Types DEF Forget, Handling
  <1>1. /\ request' = [request EXCEPT ![c] = Idle]
        /\ lastIntents' = [lastIntents EXCEPT ![n] = NoIntent]
        /\ erased' = IF table[n] = NoRuntime THEN erased ELSE erased \cup {n}
        /\ UNCHANGED <<table, awaiting, superseded, loads>>
    BY <1>0 DEF Forget, Answers, Instance
  <1>2. /\ request'[c] = Idle /\ ~Reasoning(c)'
        /\ \A d \in Client : d # c => request'[d] = request[d]
    BY <1>1, SelfUpdate, Types DEF Reasoning
  <1>3. /\ \A m \in Name : m # n => lastIntents'[m] = lastIntents[m]
        /\ \A m \in Name : m # n => (m \in erased <=> m \in erased')
    BY <1>1, Types DEF ServerTypeOK
  <1>4. RuntimesLoaded'
    BY <1>1, <1>2, Types, StaysLoaded
  <1>5. n \notin erased' => n \notin erased /\ table[n] = NoRuntime
    BY <1>1
  <1>6. ASSUME NEW d \in Client, request'[d].name = n
        PROVE  Remembered(d)'
    <2>1. Reasoning(d)' => request'[d].rt # NoRuntime
      BY <1>2, Types DEF Reasoning
    <2> QED
      BY <1>1, <1>5, <1>6, <2>1 DEF Remembered, Latest
  <1>7. n \notin erased' => Parked(n)'
    BY <1>1, <1>5 DEF ServerIInv, ParkedStaysApprovable, Parked
  <1>8. LatestRemembered' /\ ParkedStaysApprovable'
    BY <1>1, <1>2, <1>3, <1>6, <1>7, OwnName
  <1> QED
    BY <1>4, <1>8

(* submit: whatever else runs on the name was asked before.                 *)
LEMMA RememberKeeps ==
  ASSUME ServerIInv, NEW c \in Client, Remember(c)
  PROVE  RuntimesLoaded' /\ LatestRemembered' /\ ParkedStaysApprovable'
  <1>0. PICK n \in Name : n = request[c].name
    BY Types DEF Remember, Handling
  <1>1. /\ request' = [request EXCEPT ![c] = [request[c] EXCEPT !.at = "submitted"]]
        /\ lastIntents' = [lastIntents EXCEPT ![n] = request[c].intent]
        /\ awaiting' = [awaiting EXCEPT ![n] = NoIntent]
        /\ superseded' = (superseded \cup {d \in Busy : request[d].name = n}) \ {c}
        /\ erased' = erased \ {n}
        /\ UNCHANGED <<table, loads>>
    BY <1>0, Types DEF Remember, Asks, Continues
  <1>2. /\ request'[c] = [request[c] EXCEPT !.at = "submitted"]
        /\ \A d \in Client : d # c => request'[d] = request[d]
    BY <1>1, SelfUpdate
  <1>3. /\ request'[c].name = n /\ request'[c].rt = request[c].rt
        /\ request'[c].intent = request[c].intent
    BY <1>0, <1>2, Types DEF RequestType
  <1>4. /\ lastIntents'[n] = request[c].intent /\ awaiting'[n] = NoIntent
        /\ \A m \in Name : m # n => /\ lastIntents'[m] = lastIntents[m]
                                  /\ awaiting'[m] = awaiting[m]
                                  /\ (m \in erased <=> m \in erased')
    BY <1>1, Types DEF ServerTypeOK
  <1>5. RuntimesLoaded'
    BY <1>1, <1>2, <1>3, Types, StaysLoaded
  <1>6. ASSUME NEW d \in Client, request'[d].name = n
        PROVE  Remembered(d)'
    <2>1. CASE d = c
      BY <1>3, <1>4, <2>1 DEF Remembered
    <2>2. CASE d # c
      <3>1. Reasoning(d)' => d \in superseded'
        BY <1>1, <1>2, <1>6, <2>2 DEF Reasoning, Busy
      <3> QED
        BY <3>1 DEF Remembered, Latest
    <2> QED
      BY <2>1, <2>2
  <1>7. LatestRemembered' /\ ParkedStaysApprovable'
    <2>1. \A d \in Client : d # c /\ request[d].name # n /\ d \in superseded => d \in superseded'
      BY <1>1
    <2> QED
      BY <1>1, <1>2, <1>3, <1>4, <1>6, <2>1, OwnName DEF Parked
  <1> QED
    BY <1>5, <1>7

(* approve: what it runs is what is remembered.                             *)
LEMMA RecollectKeeps ==
  ASSUME ServerIInv, NEW c \in Client, Recollect(c)
  PROVE  RuntimesLoaded' /\ LatestRemembered' /\ ParkedStaysApprovable'
  <1>0. PICK n \in Name : n = request[c].name
    BY Types DEF Recollect, Handling
  <1>1. UNCHANGED <<table, lastIntents, awaiting, erased, loads>>
    BY DEF Recollect
  <1>2. \A m \in Name \ erased : Parked(m)'
    BY <1>1 DEF ServerIInv, ParkedStaysApprovable, Parked
  <1>3. CASE lastIntents[n] = NoIntent
    <2>1. request' = [request EXCEPT ![c] = Idle] /\ UNCHANGED superseded
      BY <1>0, <1>3 DEF Recollect, Answers
    <2>2. /\ request'[c] = Idle /\ ~Reasoning(c)'
          /\ \A d \in Client : d # c => request'[d] = request[d]
      BY <2>1, SelfUpdate, Types DEF Reasoning
    <2>3. awaiting' \in [Name -> Intent \cup {NoIntent}]
      BY <1>1, Types DEF ServerTypeOK
    <2> QED
      BY <1>1, <1>2, <2>1, <2>2, <2>3, Types, AnswerKeeps
  <1>4. CASE lastIntents[n] # NoIntent
    <2>1. /\ request' = [request EXCEPT ![c] = [request[c] EXCEPT !.at = "approved",
                                                                  !.intent = lastIntents[n]]]
          /\ superseded' = superseded \ {c}
      BY <1>0, <1>4, Types DEF Recollect
    <2>2. /\ request'[c] = [request[c] EXCEPT !.at = "approved", !.intent = lastIntents[n]]
          /\ \A d \in Client : d # c => request'[d] = request[d]
      BY <2>1, SelfUpdate
    <2>3. /\ request'[c].name = n /\ request'[c].rt = request[c].rt
          /\ request'[c].intent = lastIntents[n]
      BY <1>0, <2>2, Types DEF RequestType
    <2>4. RuntimesLoaded'
      <3>1. \A d \in Client : d # c => request'[d] = request[d]
        BY <2>2
      <3>2. loads' \in Nat /\ loads <= loads' /\ \A m \in Name : table'[m] = table[m]
        BY <1>1, Types
      <3> QED
        BY <2>3, <3>1, <3>2, StaysLoaded
    <2>5. ASSUME NEW d \in Client
          PROVE  Remembered(d)'
      <3>1. CASE d = c
        BY <1>1, <2>3, <3>1 DEF Remembered
      <3>2. CASE d # c
        BY <1>1, <2>1, <2>2, <3>2
           DEF ServerIInv, LatestRemembered, Remembered, Reasoning, Latest
      <3> QED
        BY <3>1, <3>2
    <2> QED
      BY <1>1, <1>2, <2>4, <2>5 DEF LatestRemembered, ParkedStaysApprovable, Parked
  <1> QED
    BY <1>3, <1>4

(* The end of a cycle: parked, what it was asked is what is remembered.     *)
LEMMA ReasonEndsKeeps ==
  ASSUME ServerIInv, NEW c \in Client, ReasonEnds(c)
  PROVE  RuntimesLoaded' /\ LatestRemembered' /\ ParkedStaysApprovable'
  <1>0. PICK n \in Name : n = request[c].name
    BY Types DEF ReasonEnds, Reasoning
  <1>1. /\ UNCHANGED <<table, lastIntents, superseded, erased, loads>> /\ Reasoning(c)
        /\ ServerTypeOK'
    BY NextTypes DEF ReasonEnds, ServerIInv, ServerNext, HandlerStep
  <1>2. Continues(c, "decided") \/ Answers(c)
    BY DEF ReasonEnds, Parks
  <1>3. /\ \A d \in Client : d # c => request'[d] = request[d]
        /\ ~Reasoning(c)' /\ request'[c].rt \in {request[c].rt, NoRuntime}
    BY <1>2, Types DEF Continues, Answers, RequestType, Reasoning
  <1>4. ASSUME NEW m \in Name, m \notin erased
        PROVE  Parked(m)'
    <2>1. Parked(m)
      BY <1>4 DEF ServerIInv, ParkedStaysApprovable, Parked
    <2>2. CASE awaiting' = awaiting
      BY <1>1, <2>1, <2>2 DEF Parked
    <2>3. CASE Latest(c) /\ awaiting' = [awaiting EXCEPT ![n] = request[c].intent]
      <3>1. Remembered(c) /\ table[n] = request[c].rt /\ request[c].rt # NoRuntime
        BY <1>0, <1>1, <2>3, Types DEF Latest, ServerIInv, LatestRemembered
      <3>2. m = n => lastIntents[n] = request[c].intent
        BY <1>0, <1>1, <1>4, <2>3, <3>1 DEF Remembered
      <3>3. awaiting'[m] = IF m = n THEN request[c].intent ELSE awaiting[m]
        BY <2>3, Types DEF ServerTypeOK
      <3> QED
        BY <1>1, <2>1, <3>1, <3>2, <3>3 DEF Parked
    <2> QED
      BY <1>0, <2>2, <2>3 DEF ReasonEnds, Parks
  <1>5. awaiting' \in [Name -> Intent \cup {NoIntent}]
    BY <1>1 DEF ServerTypeOK
  <1> QED
    BY <1>1, <1>3, <1>4, <1>5, AnswerKeeps

LEMMA OthersKeep ==
  ASSUME ServerIInv, NEW c \in Client, Arm(c) \/ RecordResult(c)
  PROVE  RuntimesLoaded' /\ LatestRemembered' /\ ParkedStaysApprovable'
  <1>1. /\ request' = [request EXCEPT ![c] = Idle]
        /\ UNCHANGED <<table, lastIntents, awaiting, superseded, erased, loads>>
    BY DEF Arm, RecordResult, Answers, history
  <1>2. /\ request'[c] = Idle /\ ~Reasoning(c)'
        /\ \A d \in Client : d # c => request'[d] = request[d]
    BY <1>1, SelfUpdate, Types DEF Reasoning
  <1>3. \A m \in Name \ erased : Parked(m)'
    BY <1>1 DEF ServerIInv, ParkedStaysApprovable, Parked
  <1>4. awaiting' \in [Name -> Intent \cup {NoIntent}]
    BY <1>1, Types DEF ServerTypeOK
  <1> QED
    BY <1>1, <1>2, <1>3, <1>4, Types, AnswerKeeps

LEMMA NextRemembers ==
  ASSUME ServerIInv, [ServerNext]_serverVars
  PROVE  RuntimesLoaded' /\ LatestRemembered' /\ ParkedStaysApprovable'
  <1>1. ASSUME NEW c \in Client, NEW n \in Name,
               Delete(c, n) \/ Approve(c, n) \/ \E i \in Intent : Submit(c, n, i)
        PROVE  RuntimesLoaded' /\ LatestRemembered' /\ ParkedStaysApprovable'
    <2>1. CASE Delete(c, n)
      BY <2>1, LookUpKeeps DEF Delete
    <2>2. CASE Approve(c, n)
      BY <2>2, LookUpKeeps DEF Approve
    <2>3. ASSUME NEW i \in Intent, Submit(c, n, i)
          PROVE  RuntimesLoaded' /\ LatestRemembered' /\ ParkedStaysApprovable'
      BY <2>3, LookUpKeeps DEF Submit
    <2> QED
      BY <1>1, <2>1, <2>2, <2>3
  <1>2. ASSUME NEW c \in Client, HandlerStep(c)
        PROVE  RuntimesLoaded' /\ LatestRemembered' /\ ParkedStaysApprovable'
    BY <1>1, <1>2, CreateKeeps, UnregisterKeeps, ForgetKeeps, RememberKeeps, RecollectKeeps,
       ReasonEndsKeeps, OthersKeep DEF HandlerStep
  <1>3. ASSUME UNCHANGED <<table, request, lastIntents, loads, history>>
        PROVE  RuntimesLoaded' /\ LatestRemembered' /\ ParkedStaysApprovable'
    BY <1>3 DEF ServerIInv, RuntimesLoaded, LatestRemembered, Remembered, ParkedStaysApprovable,
                Reasoning, Latest, history
  <1> QED
    BY <1>2, <1>3, OtherTypes DEF ServerNext, ServerIInv

------------------------------------------------------------------------------
(* The theorems *)

(* The invariant of the requests in flight (server.go:200-420): the intent  *)
(* asked last of an instance is remembered while its cycle runs, however   *)
(* the requests on its name overlap.                                       *)
THEOREM ServerInvariance == ServerSpec => []ServerIInv
  <1>1. ServerInit => ServerIInv
    BY InitTypes, ServerAssumption
       DEF ServerInit, ServerIInv, RuntimesLoaded, LatestRemembered, Remembered, Reasoning,
           ParkedStaysApprovable, Idle, NoRuntime
  <1>2. ServerIInv /\ [ServerNext]_serverVars => ServerIInv'
    BY NextTypes, NextRemembers DEF ServerIInv
  <1> QED
    BY <1>1, <1>2, PTL DEF ServerSpec

(* Types: what the kernel's table, the server's maps and its requests may   *)
(* be; a request that runs a cycle holds a runtime and an intent.          *)
THEOREM ServerTypeCorrect == ServerSpec => []ServerTypeOK
  <1>1. ServerIInv => ServerTypeOK
    BY DEF ServerIInv
  <1> QED
    BY <1>1, ServerInvariance, PTL

(* submit, approve and delete (server.go:71-75): however requests overlap,  *)
(* what the cycle asked last of an instance was answered awaiting_approval  *)
(* for can be approved until something else is asked of the name or the    *)
(* instance goes, or a delete that finishes after a create erases it.      *)
THEOREM ParkedIsApprovable == ServerSpec => []ParkedStaysApprovable
  <1>1. ServerIInv => ParkedStaysApprovable
    BY DEF ServerIInv
  <1> QED
    BY <1>1, ServerInvariance, PTL
===============================================================================

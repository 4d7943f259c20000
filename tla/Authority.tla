------------------------------ MODULE Authority ------------------------------
(***************************************************************************)
(* The capability envelopes of src/authority.go: a registry of envelopes   *)
(* whose standing operators change, the gate that every cycle naming an    *)
(* acting agent passes, and the blob the registry is persisted as.         *)
(*                                                                         *)
(* One action is one region of code between two points where another       *)
(* goroutine can interfere.  Get and Persist take the registry's lock to   *)
(* look envelopes up, and read the fields of what they found without it,   *)
(* while mutate writes standing and signature in place: it is two steps    *)
(* here, and its readers may come between them.  Signature and standing    *)
(* are read together by whoever compares them: any order of the two reads  *)
(* finds them equal or finds them different as one read does.              *)
(*                                                                         *)
(* Abstractions.  Scopes and tier are one set, what an envelope covers.    *)
(* A signature is known by the standing it was computed over: the other    *)
(* fields it covers never change within an envelope.  An envelope that     *)
(* Certify replaced is never written again, so who still points to it has  *)
(* a copy.  Marshalling reads the two fields at once: a mixed pair in a blob *)
(* is always the newer standing under the older signature.  A registry       *)
(* without a backend persists nothing, and a human-initiated intent passes   *)
(* the gate; neither changes any state.  The log is the caller's to give or  *)
(* EnforceEnvelopes' to bind: a gate is only known to need one.              *)
(***************************************************************************)
EXTENDS Integers, FiniteSets

CONSTANTS
  Agent,           \* the non-human actors
  Scope,           \* what may be asked of one
  Operator,        \* goroutines that call the transitions
  Gate,            \* goroutines that judge the envelope policy
  MaxTransitions,  \* bound: transitions begun
  MaxMishaps       \* bound: writes that fail and deaths of the process

ASSUME BoundsAssumption == MaxTransitions \in Nat /\ MaxMishaps \in Nat

VARIABLES
  registry,     \* the envelope each agent holds
  log,          \* has the registry an audit log to report to
  writer,       \* the operator that holds the registry's lock for writing
  op,           \* what each operator is doing
  gate,         \* what each gate is doing
  backend,      \* what the blob is kept in: a file or a table
  disk,         \* the blob
  transitions, mishaps,
  overlapped,   \* did the latest transitions overlap (history variable)
  ending,       \* how the latest Persist or Load ended (history variable)
  since         \* the envelopes each agent has held since a transition that
                \* ran alone was last written (history variable)

authorityVars == <<registry, log, writer, op, gate, backend, disk, transitions,
                   mishaps, overlapped, ending, since>>
persistVars   == <<log, backend, disk, mishaps, ending>>
historyVars   == <<transitions, overlapped>>

Standing == {"active", "probation", "suspended", "revoked"}
Envelope == [covers : SUBSET Scope, status : Standing, signature : Standing]
NoEnvelope == [covers |-> {}, status |-> "none", signature |-> "none"]

(* A pointer to the envelope the registry holds. *)
Current == [covers |-> {}, status |-> "current", signature |-> "current"]

Registered == Envelope \cup {NoEnvelope}
Pointer    == Registered \cup {Current}
Nobody     == "nobody"

ASSUME NamesAssumption == Nobody \notin Operator

EmptyBlob == [a \in Agent |-> NoEnvelope]
IdleOp    == [at |-> "idle", agent |-> Nobody,
              list |-> EmptyBlob, mixed |-> FALSE]
IdleGate  == [at |-> "idle", agent |-> Nobody, scope |-> "none",
              look |-> "floor", envelope |-> NoEnvelope, offline |-> TRUE, fits |-> FALSE,
              granted |-> FALSE, withheld |-> FALSE]

OpPC   == {"idle", "signing", "collect", "marshal", "writing"}
GatePC == {"idle", "standing", "signature", "again", "judge", "passed", "refused"}

(* A failure that is told is in the log, or is Load's answer.                *)
Endings == {"done", "told", "silent"}

AuthorityTypeOK ==
  /\ registry \in [Agent -> Registered]
  /\ writer \in Operator \cup {Nobody}
  /\ op \in [Operator -> [at : OpPC, agent : Agent \cup {Nobody}, list : [Agent -> Pointer], mixed : BOOLEAN]]
  /\ gate \in [Gate -> [at : GatePC, agent : Agent \cup {Nobody},
                        scope : Scope \cup {"none"}, look : {"floor", "facts"},
                        envelope : Pointer, offline : BOOLEAN, fits : BOOLEAN,
                        granted : BOOLEAN, withheld : BOOLEAN]]
  /\ backend \in {"file", "table"}
  /\ disk \in [blob : [Agent -> Registered], whole : BOOLEAN]
  /\ transitions \in 0..MaxTransitions /\ mishaps \in 0..MaxMishaps
  /\ log \in BOOLEAN /\ overlapped \in BOOLEAN /\ ending \in Endings
  /\ since \in [Agent -> SUBSET Registered]
  \* only the holder of the lock leaves an envelope between standing and signature
  /\ \A o \in Operator : op[o].at = "signing" <=> writer = o

AuthorityInit ==
  /\ registry = EmptyBlob
  /\ log \in BOOLEAN
  /\ writer = Nobody
  /\ op = [o \in Operator |-> IdleOp]
  /\ gate = [g \in Gate |-> IdleGate]
  /\ backend \in {"file", "table"}
  /\ disk = [blob |-> EmptyBlob, whole |-> TRUE]
  /\ transitions = 0 /\ mishaps = 0
  /\ overlapped = FALSE /\ ending = "done"
  /\ since = [a \in Agent |-> {NoEnvelope}]

------------------------------------------------------------------------------
(* What an envelope answers to a request at one moment: a model that judges  *)
(* is bound by its standing alone, the offline judge by what it covers too. *)

Grants(env, scope, offline) ==
  env.status \in {"active", "probation"} /\ (offline => scope \in env.covers)

Withholds(env, scope, offline) == ~Grants(env, scope, offline) \/ env.signature # env.status

(* A gate in progress sees the registry move to what its agent holds next,  *)
(* and keeps a copy of an envelope that is replaced.                        *)
Watched(r, replaced) ==
  [g \in Gate |->
     IF gate[g].at \in {"idle", "passed", "refused"} THEN gate[g]
     ELSE LET env == r[gate[g].agent]
          IN [gate[g] EXCEPT
                !.granted  = @ \/ Grants(env, gate[g].scope, gate[g].offline),
                !.withheld = @ \/ Withholds(env, gate[g].scope, gate[g].offline),
                !.envelope = IF gate[g].agent \in replaced /\ @ = Current
                             THEN registry[gate[g].agent] ELSE @]]

------------------------------------------------------------------------------
(* The transitions *)

Begins(o) ==
  /\ op[o].at = "idle"
  /\ transitions < MaxTransitions
  /\ transitions' = transitions + 1
  /\ overlapped' = \E p \in Operator : op[p].at # "idle"

(* What an agent holds is noted, until all that is noted is what it holds.   *)
Notes(a)   == since' = [since EXCEPT ![a] = @ \cup {registry'[a]}]
Settles(r) == since' = [a \in Agent |-> {r[a]}]

(* Certify: a new envelope, signed, takes the place of the agent's.          *)
Certify(o, a, covers) ==
  /\ Begins(o)
  /\ writer = Nobody
  /\ registry' = [registry EXCEPT ![a] =
                    [covers |-> covers, status |-> "active", signature |-> "active"]]
  /\ gate' = Watched(registry', {a})
  /\ op' = [p \in Operator |->
              IF p = o THEN [IdleOp EXCEPT !.at = "collect"]
              ELSE [op[p] EXCEPT !.list[a] = IF @ = Current THEN registry[a] ELSE @]]
  /\ Notes(a)
  /\ UNCHANGED <<writer, persistVars>>

(* mutate: the standing is written under the lock ...                        *)
Mutate(o, a, status) ==
  /\ Begins(o)
  /\ writer = Nobody
  /\ registry[a] # NoEnvelope
  /\ writer' = o
  /\ registry' = [registry EXCEPT ![a].status = status]
  /\ gate' = Watched(registry', {})
  /\ op' = [op EXCEPT ![o] = [IdleOp EXCEPT !.at = "signing", !.agent = a]]
  /\ Notes(a)
  /\ UNCHANGED persistVars

(* Probation, Suspend, Revoke and Reinstate move the standing; SetTrust      *)
(* leaves it and signs again.                                               *)
setStatus(o, a) == \E status \in Standing : Mutate(o, a, status)
SetTrust(o, a)  == Mutate(o, a, registry[a].status)

(* Mutant: the change is not persisted. *)
SignUnpersisted(o) ==
  /\ op[o].at = "signing"
  /\ registry' = [registry EXCEPT ![op[o].agent].signature = registry[op[o].agent].status]
  /\ gate' = Watched(registry', {})
  /\ writer' = Nobody
  /\ op' = [op EXCEPT ![o] = IdleOp]
  /\ Notes(op[o].agent)
  /\ UNCHANGED <<persistVars, historyVars>>

(* ... and so is the signature over it, before the lock is left.             *)
Sign(o) ==
  /\ op[o].at = "signing"
  /\ registry' = [registry EXCEPT ![op[o].agent].signature = registry[op[o].agent].status]
  /\ gate' = Watched(registry', {})
  /\ writer' = Nobody
  /\ op' = [op EXCEPT ![o] = [IdleOp EXCEPT !.at = "collect"]]
  /\ Notes(op[o].agent)
  /\ UNCHANGED <<persistVars, historyVars>>

------------------------------------------------------------------------------
(* Persist: pointers are collected under the lock for reading, marshalled   *)
(* without it, and the blob is written.                                     *)

Collect(o) ==
  /\ op[o].at = "collect"
  /\ writer = Nobody
  /\ op' = [op EXCEPT ![o].at = "marshal",
                      ![o].list = [a \in Agent |-> IF registry[a] = NoEnvelope
                                                   THEN NoEnvelope ELSE Current]]
  /\ UNCHANGED <<registry, writer, gate, persistVars, historyVars, since>>

Marshal(o, a) ==
  /\ op[o].at = "marshal"
  /\ op[o].list[a] = Current
  /\ op' = [op EXCEPT ![o].list[a] = registry[a]]
  /\ UNCHANGED <<registry, writer, gate, persistVars, historyVars, since>>

Marshalled(o) == op[o].at = "marshal" /\ \A a \in Agent : op[o].list[a] # Current

(* Persist returns, and with it the transition, which hands its error to the *)
(* log if there is one and to nobody else.                                   *)
PersistEnds(o, failed) ==
  /\ op' = [p \in Operator |->
              IF p = o THEN IdleOp
              ELSE [op[p] EXCEPT !.mixed = @ \/ (op[p].at = "writing" /\ op[o].at = "writing")]]
  /\ ending' = IF ~failed THEN "done" ELSE IF log THEN "told" ELSE "silent"
  /\ IF failed \/ overlapped THEN UNCHANGED since ELSE Settles(registry)
  /\ UNCHANGED <<registry, log, writer, gate, backend, historyVars>>

(* A table takes the new blob in a transaction. *)
WriteTable(o) ==
  /\ backend = "table"
  /\ Marshalled(o)
  /\ disk' = [blob |-> op[o].list, whole |-> TRUE]
  /\ PersistEnds(o, FALSE)
  /\ UNCHANGED mishaps

(* A file is emptied, then filled. *)
WriteBegins(o) ==
  /\ backend = "file"
  /\ Marshalled(o)
  /\ op' = [op EXCEPT ![o].at = "writing"]
  /\ disk' = [blob |-> EmptyBlob, whole |-> FALSE]
  /\ UNCHANGED <<registry, log, writer, gate, backend, mishaps, ending, historyVars, since>>

(* What another writer filled in meanwhile is written over, and shows at the *)
(* end where it was longer.                                                 *)
WriteEnds(o) ==
  /\ op[o].at = "writing"
  /\ \/ disk' = [blob |-> op[o].list, whole |-> TRUE]
     \/ op[o].mixed /\ disk' = [blob |-> EmptyBlob, whole |-> FALSE]
  /\ PersistEnds(o, FALSE)
  /\ UNCHANGED mishaps

WriteFails(o) ==
  /\ Marshalled(o) \/ op[o].at = "writing"
  /\ mishaps < MaxMishaps
  /\ mishaps' = mishaps + 1
  /\ PersistEnds(o, TRUE)
  /\ UNCHANGED disk

------------------------------------------------------------------------------
(* The gate.  It looks the envelope up twice: for its floor, which nothing  *)
(* overrides, and for the facts it hands to the judge.                      *)

GateOnly == UNCHANGED <<registry, writer, op, persistVars, historyVars, since>>

Becomes(g, new) == gate' = [gate EXCEPT ![g] = new]
Held(g) == IF gate[g].envelope = Current THEN registry[gate[g].agent] ELSE gate[g].envelope

GateBegins(g, a, scope, offline) ==
  /\ gate[g].at = "idle"
  /\ log
  /\ writer = Nobody
  /\ Becomes(g, [IdleGate EXCEPT
       !.at = IF registry[a] = NoEnvelope THEN "refused" ELSE "standing",
       !.agent = a, !.scope = scope, !.offline = offline,
       !.envelope = IF registry[a] = NoEnvelope THEN NoEnvelope ELSE Current,
       !.granted  = Grants(registry[a], scope, offline),
       !.withheld = Withholds(registry[a], scope, offline)])
  /\ GateOnly

(* The floor of an envelope does not hold: of the first look that is the    *)
(* answer, of the second a fact.                                            *)
Fails(g) == IF gate[g].look = "floor" THEN Becomes(g, [gate[g] EXCEPT !.at = "refused"])
            ELSE Becomes(g, [gate[g] EXCEPT !.at = "judge", !.fits = FALSE])

(* Mutant: a suspended agent is let through. *)
WithdrawnForGood(env) == env.status = "revoked"

Withdrawn(env) == env.status \in {"revoked", "suspended"}

ReadStanding(g) ==
  /\ gate[g].at = "standing"
  /\ IF Withdrawn(Held(g)) THEN Fails(g) ELSE Becomes(g, [gate[g] EXCEPT !.at = "signature"])
  /\ GateOnly

SignatureValid(env) == env.signature = env.status

ReadSignature(g) ==
  /\ gate[g].at = "signature"
  /\ IF ~SignatureValid(Held(g)) THEN Fails(g)
     ELSE IF gate[g].look = "floor" THEN Becomes(g, [gate[g] EXCEPT !.at = "again"])
     ELSE Becomes(g, [gate[g] EXCEPT !.at = "judge", !.fits = gate[g].scope \in Held(g).covers])
  /\ GateOnly

GetAgain(g) ==
  /\ gate[g].at = "again"
  /\ writer = Nobody
  /\ Becomes(g, [gate[g] EXCEPT !.at = "standing", !.look = "facts", !.envelope = Current])
  /\ GateOnly

(* Offline the judge evaluates envelope_authorizes; a model may answer what  *)
(* it will, or fail, which refuses.                                         *)
Judge(g) ==
  /\ gate[g].at = "judge"
  /\ \E complies \in IF gate[g].offline THEN {gate[g].fits} ELSE BOOLEAN :
       Becomes(g, [gate[g] EXCEPT !.at = IF complies THEN "passed" ELSE "refused"])
  /\ GateOnly

GateReturns(g) ==
  /\ gate[g].at \in {"passed", "refused"}
  /\ Becomes(g, IdleGate)
  /\ GateOnly

(* Enforcement binds the runtime's log to a registry that has none. *)
EnforceEnvelopes ==
  /\ ~log
  /\ log' = TRUE
  /\ UNCHANGED <<registry, writer, op, gate, backend, disk, mishaps, ending, historyVars, since>>

------------------------------------------------------------------------------
(* The process dies; the next one loads the registry from its backend, or   *)
(* gets an error from Load and starts with an empty one.                    *)
RestartAndLoad ==
  /\ mishaps < MaxMishaps
  /\ mishaps' = mishaps + 1
  /\ registry' = disk.blob
  /\ log' \in BOOLEAN
  /\ ending' = IF disk.whole THEN "done" ELSE "told"
  /\ Settles(disk.blob)
  /\ writer' = Nobody
  /\ op' = [o \in Operator |-> IdleOp]
  /\ gate' = [g \in Gate |-> IdleGate]
  /\ overlapped' = FALSE
  /\ UNCHANGED <<backend, disk, transitions>>

OperatorStep(o) ==
  \/ \E a \in Agent, covers \in SUBSET Scope : Certify(o, a, covers)
  \/ \E a \in Agent : setStatus(o, a) \/ SetTrust(o, a) \/ Marshal(o, a)
  \/ Sign(o) \/ Collect(o)
  \/ WriteTable(o) \/ WriteBegins(o) \/ WriteEnds(o) \/ WriteFails(o)

GateStep(g) ==
  \/ \E a \in Agent, scope \in Scope, offline \in BOOLEAN : GateBegins(g, a, scope, offline)
  \/ ReadStanding(g) \/ ReadSignature(g) \/ GetAgain(g) \/ Judge(g) \/ GateReturns(g)

AuthorityNext ==
  \/ \E o \in Operator : OperatorStep(o)
  \/ \E g \in Gate : GateStep(g)
  \/ EnforceEnvelopes
  \/ RestartAndLoad

AuthoritySpec == AuthorityInit /\ [][AuthorityNext]_authorityVars

------------------------------------------------------------------------------
(* Properties *)

(* authority.go:500-546: whatever transitions run beside it, the gate's      *)
(* answer is one the registry gave at some moment of it.  It passes an      *)
(* agent only if the agent's envelope was, at one and the same moment, in   *)
(* good standing and, where no model judges, covering what was asked; and   *)
(* offline it refuses one only if the envelope did not authorize it at some *)
(* moment.  A revocation that returned before the gate began is therefore   *)
(* honoured.                                                                *)
RuledByTheRegistry ==
  \A g \in Gate :
    /\ gate[g].at = "passed" => gate[g].granted
    /\ gate[g].at = "refused" /\ gate[g].offline => gate[g].withheld

Quiet == \A o \in Operator : op[o].at = "idle"
Saved == disk.whole /\ disk.blob = registry

(* authority.go:410-453: how far a restart can take the registry back.  At   *)
(* any moment, whatever transitions overlapped and whichever writes failed  *)
(* or were cut short since, a blob that can be read has no envelope older   *)
(* than the last transition that ran alone and was written: the revocation  *)
(* it made is not undone by a later loss.  And a transition that runs alone *)
(* is in the backend when it returns, unless its own write failed -- which  *)
(* the log is told, and without a log nobody.                               *)
SavedOrTold ==
  /\ disk.whole => \A a \in Agent : disk.blob[a] \in since[a]
  /\ Quiet /\ ~overlapped => Saved \/ ending # "done"

(* authority.go:428-429: a transition survives the process: whatever ran     *)
(* beside it, the backend has what the registry has when all have returned, *)
(* unless a write failed.                                                   *)
TransitionSurvives == Quiet => Saved \/ ending # "done"
=============================================================================

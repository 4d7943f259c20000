------------------------------ MODULE TrailFile ------------------------------
(***************************************************************************)
(* The persisted audit trail of src/trailfile.go: an append-only file that *)
(* carries its own hash chain.  A session opens the file, resumes the      *)
(* chain and the cycle numbering from what it holds, and appends records;  *)
(* VerifyTrail recomputes the chain from the file alone.                   *)
(*                                                                         *)
(* A record is known by a number.  A hash is the sequence of the records   *)
(* it was taken over: chainLink(tip, payload) is Append(tip, payload), and *)
(* two hashes are equal when they were taken over the same records.  The   *)
(* file is a sequence of chunks, one per write; a crash or a failing write  *)
(* may leave one short.                                                    *)
(*                                                                         *)
(* What may go wrong around the file is a fault of one of five kinds, each *)
(* of which strikes once at most:                                          *)
(*   lost     a crash, and the last write never reached the disk;          *)
(*   torn     a crash, and a beginning of the last write did;              *)
(*   failed   a write that returns an error (a full disk);                 *)
(*   overlap  two runtimes with the file open at once, as two instances    *)
(*            created from one stack have it (server.go:235);              *)
(*   edit     somebody else changes the file.                              *)
(***************************************************************************)
EXTENDS Integers, Sequences, SequencesExt, FiniteSets, FiniteSetsExt, Selection

CONSTANTS
  Session,     \* runtimes that open the file, in this process or another
  FaultKind,   \* the kinds of fault that may strike
  MaxFaults,   \* bound: faults in one behaviour
  MaxRecords,  \* bound: records ever written
  MaxOpens     \* bound: sessions ever started

ASSUME TrailAssumption == MaxRecords \in Nat

VARIABLES
  asMd,     \* the codec: markdown blocks, or JSON lines
  file,     \* what is on disk
  handle,   \* the TrailFile and the log's numbering, per session
  written,  \* records written so far: the next one's identity
  opened,   \* how many times the file was opened (history variable)
  faults,   \* the kinds of fault that have struck (history variable)
  before    \* what verified before somebody edited it (history variable)

trailVars == <<asMd, file, handle, written, opened, faults, before>>

genesis == <<>>
chainLink(tip, payload) == Append(tip, payload)

Unedited == [verified |-> FALSE, read |-> <<>>, written |-> 0]

Closed == [open |-> FALSE, tip |-> genesis, lastCycle |-> 0, cycleNo |-> 0,
           begun |-> FALSE, epoch |-> 0]

TrailTypeOK ==
  /\ asMd \in BOOLEAN
  /\ \A i \in 1..Len(file) :
       /\ file[i].cut \in {"whole", "bare", "half"}
       /\ file[i].payload \in 0..MaxRecords
       /\ file[i].cycle \in 1..MaxRecords
  /\ \A s \in Session : handle[s].cycleNo \in 0..MaxRecords
  /\ written \in 0..MaxRecords
  /\ faults \subseteq FaultKind
  /\ before.verified \in BOOLEAN /\ before.written \in 0..MaxRecords

TrailInit ==
  /\ asMd \in BOOLEAN
  /\ file = <<>>
  /\ handle = [s \in Session |-> Closed]
  /\ written = 0
  /\ opened = 0
  /\ faults = {}
  /\ before = Unedited

------------------------------------------------------------------------------
(* What a reader makes of the bytes.  A JSON line is read when it parses: a *)
(* write that ended without its newline runs into the next one, and the    *)
(* two parse as nothing.  A markdown block is read from a heading that     *)
(* starts a line to the chain marker after it; the heading of a cycle      *)
(* begins with a newline of its own.  (A block that runs on from a short    *)
(* one without a heading between, as a write that failed may leave it, is   *)
(* dropped here; the code may read the two as one, which no hash fits.)     *)

StartsLine(f, i) ==
  i = 1 \/ f[i - 1].cut = "whole" \/ (i <= Len(f) /\ f[i].heading)

readable(f, i) ==
  /\ f[i].cut # "half"
  /\ StartsLine(f, i)
  /\ asMd \/ i = Len(f) \/ f[i].cut = "whole"

readLines(f) == Picked(f, {i \in 1..Len(f) : readable(f, i)})

(* The links are what carries a hash; the rest is skipped.                  *)
chainLinks(f) == Picked(f, {i \in 1..Len(f) : readable(f, i) /\ f[i].chain # genesis})

payloads(links) == [i \in 1..Len(links) |-> links[i].payload]

(* Mutant: each link is checked to be one step longer than the last, not    *)
(* to be the hash of the payloads.                                         *)
VerifyTrailByLength(f) ==
  LET links == chainLinks(f)
  IN links # <<>> /\ \A i \in 1..Len(links) : Len(links[i].chain) = i

(* VerifyTrail: every stored hash is the one the payloads before it give.   *)
VerifyTrail(f) ==
  LET links == chainLinks(f)
  IN /\ links # <<>>
     /\ \A i \in 1..Len(links) :
          links[i].chain = chainLink(IF i = 1 THEN genesis ELSE links[i - 1].chain,
                                     links[i].payload)

(* ReadTrail (JSON lines): the records are grouped by cycle, and the groups *)
(* follow one another in the order of the cycle numbers.                   *)
byCycle(lines, n) == Picked(lines, {i \in 1..Len(lines) : lines[i].cycle = n})

(* Mutant: reading stops at the first line that does not parse.             *)
ReadTrailStopping(f) ==
  Picked(f, {i \in 1..Len(f) : \A j \in 1..i : readable(f, j)})

ReadTrail(f) ==
  LET lines == readLines(f)
      top == Max({0} \cup {lines[i].cycle : i \in 1..Len(lines)})
      upTo[n \in 0..top] == IF n = 0 THEN <<>> ELSE upTo[n - 1] \o byCycle(lines, n)
  IN upTo[top]

------------------------------------------------------------------------------
(* resume: the chain goes on from the last hash in the text -- of a line    *)
(* that parses in JSON, of a marker wherever it stands in markdown -- the  *)
(* numbering from the highest cycle, of a line in JSON, of a heading in     *)
(* markdown.                                                               *)

hasHash(f, i) ==
  f[i].chain # genesis /\ IF asMd THEN f[i].cut # "half" ELSE readable(f, i)

(* Mutant: a session starts a chain of its own. *)
resumeTipAfresh(f) == genesis

resumeTip(f) ==
  LET hashed == {i \in 1..Len(f) : hasHash(f, i)}
  IN IF hashed = {} THEN genesis ELSE f[Max(hashed)].chain

(* Mutant: the numbering is not seeded. *)
resumeCycleUnseeded(f) == 0

resumeCycle(f) ==
  Max({0} \cup {f[i].cycle : i \in {j \in 1..Len(f) :
                                      IF asMd THEN f[j].heading ELSE readable(f, j)}})

Strike(kind) ==
  /\ kind \in FaultKind \ faults
  /\ Cardinality(faults) < MaxFaults
  /\ faults' = faults \cup {kind}

(* OpenTrailFile, and the loader's SeedCycleNumbering from what it found.   *)
OpenTrailFile(s) ==
  /\ ~handle[s].open
  /\ opened < MaxOpens
  /\ IF \E t \in Session : handle[t].open
     THEN Strike("overlap") ELSE UNCHANGED faults
  /\ opened' = opened + 1
  /\ handle' = [handle EXCEPT ![s] =
       [open |-> TRUE, tip |-> resumeTip(file), lastCycle |-> resumeCycle(file),
        cycleNo |-> resumeCycle(file), begun |-> FALSE, epoch |-> opened + 1]]
  /\ UNCHANGED <<asMd, file, written, before>>

Close(s) ==
  /\ handle[s].open
  /\ handle' = [handle EXCEPT ![s] = Closed]
  /\ UNCHANGED <<asMd, file, written, opened, faults, before>>

(* The cycle a record of session s belongs to: the log opens a new one for  *)
(* an intent, and for a record logged before any intent.                   *)
CyclesFor(s) == {handle[s].cycleNo + 1}
                \cup (IF handle[s].begun THEN {handle[s].cycleNo} ELSE {})

Chunk(s, c) == [cut     |-> "whole",
                payload |-> written + 1,
                chain   |-> chainLink(handle[s].tip, written + 1),
                cycle   |-> c,
                heading |-> asMd /\ c # handle[s].lastCycle,
                epoch   |-> handle[s].epoch]

(* Both codecs move the tip (and the last heading) before they write.       *)
Advance(s, c) ==
  handle' = [handle EXCEPT ![s].tip = chainLink(@, written + 1),
                           ![s].lastCycle = c,
                           ![s].cycleNo = c,
                           ![s].begun = TRUE]

(* What is left of a chunk of which not all was written: it may lack its    *)
(* last newline, or more, in markdown its heading.                         *)
CutShort(x) ==
  {[x EXCEPT !.cut = "half", !.heading = h] : h \in {FALSE, x.heading}}
  \cup (IF x.cut = "half" THEN {} ELSE {[x EXCEPT !.cut = "bare"]})

(* A write that fails, having written nothing or a part, returns its error, *)
(* and Record discards it.                                                 *)
WriteRecord(s, c) ==
  /\ handle[s].open
  /\ written < MaxRecords
  /\ written' = written + 1
  /\ Advance(s, c)
  /\ \/ file' = Append(file, Chunk(s, c)) /\ UNCHANGED faults
     \/ /\ Strike("failed")
        /\ file' \in {file} \cup {Append(file, x) : x \in CutShort(Chunk(s, c))}
  /\ UNCHANGED <<asMd, opened, before>>

(* The process dies.  Nothing is synced, so the last write may be missing,  *)
(* short of its newline, or cut off -- within the heading or after it.     *)
Crash ==
  /\ \E s \in Session : handle[s].open /\ file # <<>> /\ handle[s].epoch = Last(file).epoch
  /\ handle' = [s \in Session |-> Closed]
  /\ \/ Strike("lost") /\ file' = Front(file)
     \/ Strike("torn") /\ file' \in {Append(Front(file), x) : x \in CutShort(Last(file))}
  /\ UNCHANGED <<asMd, written, opened, before>>

(* What somebody may make of the file who does not compute a hash: change a *)
(* record; take out some that stand on lines of their own, the last ones    *)
(* too; put in, at the start of a line, a record like one that is there, or *)
(* another, with its hash or without; change the number in a heading.       *)
Change == \E i \in 1..Len(file) : file' = [file EXCEPT ![i].payload = 0]

TakeOut ==
  \E i \in {k \in 1..Len(file) : StartsLine(file, k)} :
  \E j \in {k \in i..Len(file) : k = Len(file) \/ StartsLine(file, k + 1)} :
    file' = SubSeq(file, 1, i - 1) \o SubSeq(file, j + 1, Len(file))

PutIn ==
  \E i \in {k \in 1..(Len(file) + 1) : StartsLine(file, k)},
     j \in {k \in 1..Len(file) : readable(file, k) /\ file[k].cut = "whole"} :
  \E p \in {0, file[j].payload}, h \in {genesis, file[j].chain} :
    file' = InsertAt(file, i, [file[j] EXCEPT !.payload = p, !.chain = h])

Renumber == \E i \in 1..Len(file), n \in 1..written :
  /\ file[i].heading
  /\ file' = [file EXCEPT ![i].cycle = n]

Edit ==
  /\ Strike("edit")
  /\ Change \/ TakeOut \/ PutIn \/ Renumber
  /\ before' = IF VerifyTrail(file)
               THEN [verified |-> TRUE, read |-> payloads(chainLinks(file)), written |-> written]
               ELSE Unedited
  /\ UNCHANGED <<asMd, handle, written, opened>>

TrailNext ==
  \/ \E s \in Session : \/ OpenTrailFile(s)
                        \/ Close(s)
                        \/ \E c \in CyclesFor(s) : WriteRecord(s, c)
  \/ Crash
  \/ Edit

TrailSpec == TrailInit /\ [][TrailNext]_trailVars

------------------------------------------------------------------------------
(* Properties *)

Spared(kinds) == faults \cap kinds = {}

(* What the sessions of a file promise one another (trailfile.go:14-25,     *)
(* 44-47): the chain is continued, so a file with records verifies whatever *)
(* sessions wrote it, and a crash never breaks it for the sessions to come  *)
(* -- except that a torn JSON line does, and a markdown block does not.    *)
ChainContinues ==
  /\ Spared({"edit", "failed", "overlap"})
  /\ asMd \/ Spared({"torn"})
  /\ chainLinks(file) # <<>>
  => VerifyTrail(file)

(* VerifyTrail (trailfile.go:228-231): what was edited shows, and goes on    *)
(* showing whatever sessions resume the file and append to it later.  If a  *)
(* file that verified is edited and verifies, then of the records its hash *)
(* chain covers none was changed, moved, put in or taken out of the midst:  *)
(* they are a beginning of what was there, and what was written since.      *)
(* Records taken from the end do not show, nor does what is no link: the    *)
(* number of a heading, a line without a hash.                             *)
EditsShow ==
  before.verified /\ Spared({"lost"}) /\ VerifyTrail(file) =>
    LET now == payloads(chainLinks(file))
    IN \E kept \in 0..Len(before.read) :
         \A i \in 1..Len(now) :
           IF i <= kept THEN now[i] = before.read[i] ELSE now[i] > before.written

(* OpenTrailFile (trailfile.go:44-47): a session never repeats a cycle      *)
(* number of an earlier one, though crashes and failed writes take records  *)
(* away; in markdown the heading that carries the number must have been     *)
(* written.                                                                *)
CyclesNeverRepeat ==
  LET links == chainLinks(file)
  IN Spared({"overlap", "edit"}) /\ (asMd => Spared({"failed"})) =>
       \A i, j \in 1..Len(links) :
         links[i].cycle = links[j].cycle => links[i].epoch = links[j].epoch

(* ReadTrail (trailfile.go:22-23 and 323-329): what is read back from JSON  *)
(* lines is what was written, in the order it was written, although it is   *)
(* grouped by cycle number on the way.  A last write that is lost costs one *)
(* record.  One that is torn, and a write that fails, may cost two: its own *)
(* and the next, written whole, that runs on from it.                      *)
Toll == (IF "lost" \in faults THEN 1 ELSE 0)
        + (IF "torn" \in faults THEN 2 ELSE 0)
        + (IF "failed" \in faults THEN 2 ELSE 0)

ReadsBackExactly ==
  ~asMd /\ Spared({"overlap", "edit"}) =>
    LET read == payloads(ReadTrail(file))
    IN /\ \A i, j \in 1..Len(read) : i < j => read[i] < read[j]
       /\ Cardinality((1..written) \ {read[i] : i \in 1..Len(read)}) <= Toll
==============================================================================

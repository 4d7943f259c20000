----------------------------- MODULE TrailProofs ------------------------------
(***************************************************************************)
(* Theorems about the persisted trail of module TrailFile, for any number  *)
(* of sessions, records and restarts, with whichever faults may strike:    *)
(* that the chain continues, which edits show, that no session repeats the *)
(* cycle number of another, and what of a trail is read back.              *)
(***************************************************************************)
EXTENDS TrailFile, SequenceLemmas, FiniteSetTheorems

------------------------------------------------------------------------------
(* The inductive invariant *)

Chunks == [cut : {"whole", "bare", "half"}, payload : Nat, chain : Seq(Nat),
           cycle : Nat \ {0}, heading : BOOLEAN, epoch : Nat]

Handles == [open : BOOLEAN, tip : Seq(Nat), lastCycle : Nat, cycleNo : Nat,
            begun : BOOLEAN, epoch : Nat]

Edits == [verified : BOOLEAN, read : Seq(Nat), written : 0..MaxRecords]

Types ==
  /\ asMd \in BOOLEAN
  /\ file \in Seq(Chunks)
  /\ handle \in [Session -> Handles]
  /\ written \in 0..MaxRecords
  /\ opened \in Nat
  /\ faults \subseteq FaultKind
  /\ before \in Edits

(* The numbering is no further than the records that were written. *)
Numbered ==
  /\ \A i \in 1..Len(file) : file[i].payload <= written /\ file[i].cycle <= written
  /\ \A s \in Session : handle[s].cycleNo <= written
  /\ \A s \in Session : handle[s].begun => handle[s].cycleNo # 0
  /\ before.written <= written

(* Without a fault that strikes it, the file is open once at most and its   *)
(* writes are whole; the last heading is that of the current cycle, and    *)
(* JSON lines have none.                                                   *)
OpenOnce == Spared({"overlap"}) =>
  \A s, t \in Session : handle[s].open /\ handle[t].open => s = t

AllWhole == Spared({"torn", "failed"}) => \A i \in 1..Len(file) : file[i].cut = "whole"

Headed == \A s \in Session : handle[s].lastCycle = handle[s].cycleNo

Plain == asMd \/ \A i \in 1..Len(file) : ~file[i].heading

(* What nobody has edited carries hashes, and its records are in the order  *)
(* they were written in.                                                   *)
Serial(f) ==
  /\ \A i \in 1..Len(f) : f[i].chain # genesis
  /\ \A i, j \in 1..Len(f) : i < j => f[i].payload < f[j].payload

Unforged == Spared({"edit"}) => Serial(file)

(* The chain: the file's is a chain, its tip is the one the open session    *)
(* holds, what was not cut in the middle can be read, and so will be the   *)
(* next write.                                                             *)
Chained(links) ==
  \A i \in 1..Len(links) :
    links[i].chain = chainLink(IF i = 1 THEN genesis ELSE links[i - 1].chain,
                               links[i].payload)

(* The hash a chain has come to. *)
TipOf(links) == IF links = <<>> THEN genesis ELSE Last(links).chain

EndsWhole(f) == f = <<>> \/ f[Len(f)].cut = "whole"

ChainIntact ==
  Spared({"edit", "failed", "overlap"}) /\ (asMd \/ Spared({"torn"})) =>
    /\ Chained(chainLinks(file))
    /\ \A i \in 1..Len(file) : file[i].cut # "half" => readable(file, i)
    /\ \A s \in Session : handle[s].open =>
         /\ handle[s].tip = TipOf(chainLinks(file))
         /\ EndsWhole(file) \/ (asMd /\ ~handle[s].begun)

(* The hashes there are, and those of before the edit: of two that were     *)
(* taken over the same record, it stands at one place, behind the same.    *)
Hashes ==
  {genesis, before.read} \cup {file[i].chain : i \in 1..Len(file)}
                         \cup {handle[s].tip : s \in Session}

Agree(c, d) ==
  \A i \in 1..Len(c), j \in 1..Len(d) :
    c[i] = d[j] => i = j /\ \A k \in 1..i : c[k] = d[k]

AllAgree(hashes, n) ==
  /\ \A c \in hashes : c \in Seq(Nat) /\ \A i \in 1..Len(c) : 1 <= c[i] /\ c[i] <= n
  /\ \A c, d \in hashes : Agree(c, d)

HashesAgree == AllAgree(Hashes, written)

(* A record that is read with its hash was read before the edit, unless it  *)
(* is no record of anybody's or was written since.                         *)
Known(f, i) ==
  readable(f, i) /\ f[i].chain # genesis =>
    \/ f[i].payload = 0
    \/ f[i].payload > before.written
    \/ \E k \in 1..Len(before.read) : before.read[k] = f[i].payload

EditKnown ==
  before.verified /\ Spared({"lost"}) => \A i \in 1..Len(file) : Known(file, i)

(* The numbering: cycle numbers never fall, and those of two sessions       *)
(* differ.  What a crash leaves when it takes the last write is such a file *)
(* too: it may bring back a line that could not be read behind another.     *)
Orderly(f) ==
  \A i, j \in 1..Len(f) :
    i < j /\ readable(f, i) /\ readable(f, j) =>
      /\ f[i].cycle <= f[j].cycle
      /\ f[i].cycle = f[j].cycle => f[i].epoch = f[j].epoch

(* What an open session wrote, and what it found.                          *)
Ahead(s) ==
  \A i \in 1..Len(file) : readable(file, i) =>
    /\ file[i].cycle <= handle[s].cycleNo
    /\ handle[s].begun /\ file[i].epoch # handle[s].epoch =>
         file[i].cycle < handle[s].cycleNo

(* In markdown a number is found by the heading of its cycle.              *)
HeadedCycles ==
  /\ \A i \in 1..Len(file) : file[i].cut # "half" =>
       \E j \in 1..i : file[j].heading /\ file[j].cycle = file[i].cycle
  /\ \A s \in Session : handle[s].open /\ handle[s].begun =>
       \E j \in 1..Len(file) : file[j].heading /\ file[j].cycle = handle[s].cycleNo

InOrder ==
  Spared({"overlap", "edit"}) /\ (asMd => Spared({"failed"})) =>
    /\ Orderly(file)
    /\ Spared({"lost"}) /\ file # <<>> => Orderly(Front(file))
    /\ \A s \in Session : handle[s].open => Ahead(s)
    /\ asMd => HeadedCycles

(* The records that will be read whatever follows: whole, at the start of a *)
(* line.  The faults pay for the rest, and for the one that will run on    *)
(* from a line that has no end.                                            *)
Settled(f) == {i \in 1..Len(f) : f[i].cut = "whole" /\ (i = 1 \/ f[i - 1].cut = "whole")}

Missed(f, n) == (1..n) \ {f[i].payload : i \in Settled(f)}

Owed(f) == IF EndsWhole(f) THEN 0 ELSE 1

PaidFor ==
  ~asMd /\ Spared({"edit"}) => Cardinality(Missed(file, written)) + Owed(file) <= Toll

TrailInv ==
  /\ Types
  /\ Numbered
  /\ OpenOnce
  /\ AllWhole
  /\ Headed
  /\ Plain
  /\ Unforged
  /\ ChainIntact
  /\ HashesAgree
  /\ EditKnown
  /\ InOrder
  /\ PaidFor

------------------------------------------------------------------------------
(* What is read of a file *)

LEMMA FrontAndLast ==
  ASSUME NEW T, NEW f \in Seq(T), f # <<>>
  PROVE  /\ Len(f) \in Nat \ {0}
         /\ Last(f) = f[Len(f)] /\ Last(f) \in T
         /\ Front(f) \in Seq(T) /\ Len(Front(f)) = Len(f) - 1
         /\ \A i \in 1..(Len(f) - 1) : Front(f)[i] = f[i]
         /\ f = Append(Front(f), Last(f))
  <1>1. Len(f) \in Nat \ {0}
    BY EmptySeq, LenProperties
  <1>2. \A i \in 1..(Len(f) - 1) : f[i] \in T
    BY <1>1
  <1>3. /\ Front(f) \in Seq(T) /\ Len(Front(f)) = Len(f) - 1
        /\ \A i \in 1..(Len(f) - 1) : Front(f)[i] = f[i]
    <2> DEFINE g == SubSeq(f, 1, Len(f) - 1)
    <2>1. /\ g \in Seq(T)
          /\ Len(g) = IF 1 <= Len(f) - 1 THEN (Len(f) - 1) - 1 + 1 ELSE 0
          /\ \A i \in 1..((Len(f) - 1) - 1 + 1) : g[i] = f[1 + i - 1]
      BY <1>1, <1>2, SubSeqProperties
    <2> HIDE DEF g
    <2>2. Len(g) = Len(f) - 1
      <3>1. CASE Len(f) = 1
        BY <2>1, <3>1
      <3>2. CASE Len(f) # 1
        <4>1. 1 <= Len(f) - 1
          BY <1>1, <3>2
        <4> QED
          BY <1>1, <2>1, <4>1
      <3> QED
        BY <3>1, <3>2
    <2>3. \A i \in 1..(Len(f) - 1) : g[i] = f[i]
      BY <1>1, <2>1
    <2> QED
      BY <2>1, <2>2, <2>3 DEF Front, g
  <1>4. Last(f) = f[Len(f)] /\ Last(f) \in T
    BY <1>1 DEF Last
  <1>5. /\ Append(Front(f), Last(f)) \in Seq(T)
        /\ Len(Append(Front(f), Last(f))) = Len(f)
        /\ \A i \in 1..(Len(f) - 1) : Append(Front(f), Last(f))[i] = f[i]
        /\ Append(Front(f), Last(f))[Len(f)] = f[Len(f)]
    BY <1>1, <1>3, <1>4, AppendProperties
  <1>6. \A i \in 1..Len(f) : f[i] = Append(Front(f), Last(f))[i]
    BY <1>1, <1>5
  <1> QED
    BY <1>1, <1>3, <1>4, <1>5, <1>6, SeqEqual

LEMMA ReadableIs ==
  ASSUME NEW f \in Seq(Chunks), NEW i \in 1..Len(f)
  PROVE  readable(f, i) <=> /\ f[i].cut # "half"
                            /\ i = 1 \/ f[i - 1].cut = "whole" \/ f[i].heading
                            /\ asMd \/ i = Len(f) \/ f[i].cut = "whole"
  <1>1. i <= Len(f)
    BY LenProperties
  <1> QED
    BY <1>1 DEF readable, StartsLine

(* What can be read of a file with one more chunk.                          *)
LEMMA ReadableOfAppend ==
  ASSUME NEW f \in Seq(Chunks), NEW r \in Chunks
  PROVE  /\ \A i \in 1..Len(f) : readable(Append(f, r), i) => readable(f, i)
         /\ asMd \/ EndsWhole(f) => \A i \in 1..Len(f) : readable(f, i) => readable(Append(f, r), i)
         /\ readable(Append(f, r), Len(f) + 1) <=>
              r.cut # "half" /\ (EndsWhole(f) \/ r.heading)
  <1> DEFINE g == Append(f, r)
             n == Len(f)
  <1>1. /\ n \in Nat /\ Len(g) = n + 1 /\ g[n + 1] = r /\ g \in Seq(Chunks)
        /\ \A i \in 1..n : g[i] = f[i]
    BY AppendProperties, LenProperties
  <1>2. f = <<>> <=> n = 0
    BY EmptySeq
  <1> HIDE DEF g, n
  <1>3. \A i \in 1..n : i = 1 \/ i - 1 \in 1..n
    BY <1>1
  <1>4. ASSUME NEW i \in 1..n
        PROVE  /\ readable(g, i) => readable(f, i)
               /\ asMd \/ EndsWhole(f) => (readable(f, i) => readable(g, i))
    <2>1. g[i] = f[i] /\ (i = 1 \/ g[i - 1] = f[i - 1])
      BY <1>1, <1>3
    <2>2. i # Len(g) /\ n # 0 /\ i \in 1..Len(g)
      BY <1>1
    <2>3. readable(g, i) <=> /\ f[i].cut # "half"
                             /\ i = 1 \/ f[i - 1].cut = "whole" \/ f[i].heading
                             /\ asMd \/ f[i].cut = "whole"
      BY <1>1, <2>1, <2>2, ReadableIs
    <2>4. readable(f, i) <=> /\ f[i].cut # "half"
                             /\ i = 1 \/ f[i - 1].cut = "whole" \/ f[i].heading
                             /\ asMd \/ i = n \/ f[i].cut = "whole"
      BY ReadableIs DEF n
    <2>5. EndsWhole(f) /\ i = n => f[i].cut = "whole"
      BY <1>2, <2>2 DEF EndsWhole, n
    <2> QED
      BY <2>3, <2>4, <2>5
  <1>5. readable(g, n + 1) <=> r.cut # "half" /\ (EndsWhole(f) \/ r.heading)
    <2>1. readable(g, n + 1) <=> /\ r.cut # "half"
                                 /\ n + 1 = 1 \/ g[(n + 1) - 1].cut = "whole" \/ r.heading
      <3>1. n + 1 \in 1..Len(g)
        BY <1>1
      <3> QED
        BY <1>1, <3>1, ReadableIs
    <2>2. CASE n = 0
      <3>1. EndsWhole(f)
        BY <1>2, <2>2 DEF EndsWhole
      <3> QED
        BY <2>1, <2>2, <3>1
    <2>3. CASE n # 0
      <3>1. (n + 1) - 1 = n /\ n \in 1..n /\ n + 1 # 1
        BY <1>1, <2>3
      <3>2. g[(n + 1) - 1] = f[n]
        BY <1>1, <3>1
      <3>3. EndsWhole(f) <=> f[n].cut = "whole"
        BY <1>2, <2>3 DEF EndsWhole, n
      <3> QED
        BY <2>1, <3>1, <3>2, <3>3
    <2> QED
      BY <2>2, <2>3
  <1> QED
    BY <1>4, <1>5 DEF g, n

LEMMA LinksType ==
  ASSUME NEW f \in Seq(Chunks)
  PROVE  /\ readLines(f) \in Seq(Chunks) /\ Len(readLines(f)) \in Nat
         /\ chainLinks(f) \in Seq(Chunks) /\ Len(chainLinks(f)) \in Nat
  BY PickedType DEF chainLinks, readLines

LEMMA LinksOfAppend ==
  ASSUME NEW f \in Seq(Chunks), NEW r \in Chunks, asMd \/ EndsWhole(f), r.chain # genesis
  PROVE  chainLinks(Append(f, r)) =
           IF r.cut # "half" /\ (EndsWhole(f) \/ r.heading)
           THEN Append(chainLinks(f), r) ELSE chainLinks(f)
  <1> DEFINE g == Append(f, r)
             p == {i \in 1..Len(f) : readable(f, i) /\ f[i].chain # genesis}
             q == {i \in 1..Len(g) : readable(g, i) /\ g[i].chain # genesis}
  <1>1. /\ Len(f) \in Nat /\ Len(g) = Len(f) + 1 /\ g[Len(f) + 1] = r
        /\ \A i \in 1..Len(f) : g[i] = f[i]
    BY AppendProperties, LenProperties
  <1>2. \A i \in 1..Len(f) : readable(g, i) <=> readable(f, i)
    BY ReadableOfAppend
  <1>3. readable(g, Len(f) + 1) <=> r.cut # "half" /\ (EndsWhole(f) \/ r.heading)
    BY ReadableOfAppend
  <1>4. chainLinks(f) = Picked(f, p) /\ chainLinks(g) = Picked(g, q)
    BY DEF chainLinks
  <1>5. \A i \in 1..Len(f) : i \in p <=> i \in q
    <2>1. \A i \in 1..Len(f) : i \in 1..Len(g)
      BY <1>1
    <2> QED
      BY <1>1, <1>2, <2>1
  <1>6. Len(f) + 1 \in q <=> readable(g, Len(f) + 1)
    BY <1>1
  <1> HIDE DEF p, q
  <1>7. Picked(g, q) = IF Len(f) + 1 \in q THEN Append(Picked(f, p), r)
                       ELSE Picked(f, p)
    BY <1>5, PickedOfAppend
  <1> QED
    BY <1>3, <1>4, <1>6, <1>7

LEMMA AllRead ==
  ASSUME NEW f \in Seq(Chunks), \A i \in 1..Len(f) : f[i].cut = "whole"
  PROVE  /\ \A i \in 1..Len(f) : readable(f, i)
         /\ EndsWhole(f)
  <1>1. Len(f) \in Nat
    BY LenProperties
  <1>2. ASSUME NEW i \in 1..Len(f) PROVE readable(f, i)
    <2>1. f[i].cut = "whole" /\ (i = 1 \/ i - 1 \in 1..Len(f))
      BY <1>1
    <2> QED
      BY <2>1, ReadableIs
  <1>3. EndsWhole(f)
    <2>1. f # <<>> => Len(f) \in 1..Len(f)
      BY <1>1, EmptySeq
    <2> QED
      BY <2>1 DEF EndsWhole
  <1> QED
    BY <1>2, <1>3

(* What continues a chain. *)
LEMMA ChainedAppend ==
  ASSUME NEW links \in Seq(Chunks), NEW x \in Chunks
  PROVE  /\ Chained(Append(links, x)) <=>
              Chained(links) /\ x.chain = chainLink(TipOf(links), x.payload)
         /\ TipOf(Append(links, x)) = x.chain
  <1> DEFINE g == Append(links, x)
             n == Len(links)
             prior(i) == IF i = 1 THEN genesis ELSE g[i - 1].chain
  <1>1. /\ n \in Nat /\ g \in Seq(Chunks) /\ g # <<>> /\ Len(g) = n + 1 /\ g[n + 1] = x
        /\ \A i \in 1..n : g[i] = links[i]
    BY AppendProperties, LenProperties
  <1>2. links = <<>> <=> n = 0
    BY EmptySeq
  <1>3. prior(n + 1) = TipOf(links)
    <2>1. CASE n = 0
      BY <1>2, <2>1 DEF TipOf
    <2>2. CASE n # 0
      <3>1. n + 1 # 1 /\ (n + 1) - 1 = n /\ n \in 1..n
        BY <1>1, <2>2
      <3> QED
        BY <1>1, <1>2, <2>2, <3>1 DEF TipOf, Last
    <2> QED
      BY <2>1, <2>2
  <1>4. \A i \in 1..n : prior(i) = IF i = 1 THEN genesis ELSE links[i - 1].chain
    <2>1. \A i \in 1..n : i # 1 => i - 1 \in 1..n
      BY <1>1
    <2> QED
      BY <1>1, <2>1
  <1>5. TipOf(g) = x.chain
    BY <1>1 DEF TipOf, Last
  <1>6. Chained(g) <=> \A i \in 1..(n + 1) : g[i].chain = chainLink(prior(i), g[i].payload)
    BY <1>1 DEF Chained
  <1>7. Chained(links) <=> \A i \in 1..n : g[i].chain = chainLink(prior(i), g[i].payload)
    BY <1>1, <1>4 DEF Chained
  <1> HIDE DEF prior, g, n
  <1>8. \A i : i \in 1..(n + 1) <=> (i \in 1..n \/ i = n + 1)
    BY <1>1
  <1>9. Chained(g) <=> Chained(links) /\ g[n + 1].chain = chainLink(prior(n + 1), g[n + 1].payload)
    BY <1>6, <1>7, <1>8
  <1> QED
    BY <1>1, <1>3, <1>5, <1>9 DEF g

(* The lines, or the links, of a file at their places in it.                *)
At(at, picked, f, p) ==
  /\ \A k \in 1..Len(picked) : at[k] \in 1..Len(f) /\ at[k] \in p /\ picked[k] = f[at[k]]
  /\ \A k, l \in 1..Len(picked) : k < l => at[k] < at[l]
  /\ \A i \in 1..Len(f) : i \in p => \E k \in 1..Len(picked) : at[k] = i

Readable(f) == {i \in 1..Len(f) : readable(f, i)}
Linked(f) == {i \in 1..Len(f) : readable(f, i) /\ f[i].chain # genesis}

LEMMA LinesAt ==
  ASSUME NEW f \in Seq(Chunks)
  PROVE  /\ \E at : At(at, readLines(f), f, Readable(f))
         /\ \E at : At(at, chainLinks(f), f, Linked(f))
  <1>1. ASSUME NEW p PROVE \E at : At(at, Picked(f, p), f, p)
    <2>1. PICK at : Chosen(at, f, p, Picked(f, p), Len(f))
      BY PickedPlaces
    <2>2. At(at, Picked(f, p), f, p)
      BY <2>1 DEF Chosen, At
    <2> QED
      BY <2>2
  <1>2. readLines(f) = Picked(f, Readable(f)) /\ chainLinks(f) = Picked(f, Linked(f))
    BY DEF readLines, chainLinks, Readable, Linked
  <1> QED
    BY <1>1, <1>2

LEMMA Verified ==
  ASSUME NEW f
  PROVE  VerifyTrail(f) <=> chainLinks(f) # <<>> /\ Chained(chainLinks(f))
  BY DEF VerifyTrail, Chained

(* The tip that is resumed is a hash of the file; where all that carries a  *)
(* hash can be read, it is that of the last link.                          *)
LEMMA ResumedTip ==
  ASSUME NEW f \in Seq(Chunks)
  PROVE  /\ resumeTip(f) \in {genesis} \cup {f[i].chain : i \in 1..Len(f)}
         /\ (\A i \in 1..Len(f) : hasHash(f, i) <=> i \in Linked(f))
              => resumeTip(f) = TipOf(chainLinks(f))
  <1> DEFINE hashed == {i \in 1..Len(f) : hasHash(f, i)}
             links == chainLinks(f)
  <1>1. resumeTip(f) = IF hashed = {} THEN genesis ELSE f[Max(hashed)].chain
    BY DEF resumeTip
  <1>2. Len(f) \in Nat /\ hashed \in SUBSET (1..Len(f)) /\ links \in Seq(Chunks)
    BY LenProperties, LinksType
  <1>3. hashed # {} => Max(hashed) \in hashed /\ \A i \in hashed : Max(hashed) >= i
    BY <1>2, MaxOfSome
  <1>4. resumeTip(f) \in {genesis} \cup {f[i].chain : i \in 1..Len(f)}
    BY <1>1, <1>2, <1>3
  <1>5. ASSUME \A i \in 1..Len(f) : hasHash(f, i) <=> i \in Linked(f)
        PROVE  resumeTip(f) = TipOf(links)
    <2>1. \A i : i \in hashed <=> i \in 1..Len(f) /\ i \in Linked(f)
      BY <1>5
    <2>2. PICK at : At(at, links, f, Linked(f))
      BY LinesAt
    <2> HIDE DEF hashed, links
    <2>3. CASE hashed = {}
      <3>1. ~(1 \in 1..Len(links))
        BY <2>1, <2>2, <2>3 DEF At
      <3>2. links = <<>>
        BY <1>2, <3>1, LenProperties, EmptySeq
      <3> QED
        BY <1>1, <2>3, <3>2 DEF TipOf
    <2>4. CASE hashed # {}
      <3> DEFINE m == Max(hashed)
                 n == Len(links)
      <3>1. m \in hashed /\ \A i \in hashed : m >= i
        BY <1>3, <2>4
      <3> HIDE DEF m
      <3>2. PICK k \in 1..n : at[k] = m
        BY <2>1, <2>2, <3>1 DEF At
      <3>3. n \in Nat /\ n \in 1..n /\ links # <<>>
        BY <1>2, <3>2, LenProperties, EmptySeq
      <3>4. at[n] \in hashed /\ links[n] = f[at[n]]
        BY <2>1, <2>2, <3>3 DEF At
      <3>5. ~(k < n)
        <4>1. k < n => at[k] < at[n]
          BY <2>2, <3>2, <3>3 DEF At
        <4>2. hashed \subseteq Nat
          BY <1>2
        <4>3. m >= at[n] /\ m \in Nat /\ at[n] \in Nat
          BY <3>1, <3>4, <4>2
        <4> QED
          BY <3>2, <4>1, <4>3
      <3>6. k = n
        BY <3>2, <3>3, <3>5
      <3> QED
        BY <1>1, <2>4, <3>2, <3>3, <3>4, <3>6 DEF TipOf, Last, m
    <2> QED
      BY <2>3, <2>4
  <1> QED
    BY <1>4, <1>5

LEMMA ResumedCycle ==
  ASSUME NEW f \in Seq(Chunks), NEW n \in Nat, \A i \in 1..Len(f) : f[i].cycle <= n
  PROVE  /\ resumeCycle(f) \in 0..n
         /\ \A i \in 1..Len(f) : (IF asMd THEN f[i].heading ELSE readable(f, i)) =>
              f[i].cycle <= resumeCycle(f)
  <1> DEFINE places == {j \in 1..Len(f) : IF asMd THEN f[j].heading ELSE readable(f, j)}
             s == {0} \cup {f[i].cycle : i \in places}
  <1>1. resumeCycle(f) = Max(s)
    BY DEF resumeCycle
  <1>2. s \in SUBSET (0..n) /\ s # {}
    <2>1. \A i \in 1..Len(f) : f[i].cycle \in 0..n
      <3>1. \A i \in 1..Len(f) : f[i] \in Chunks
        BY LenProperties
      <3> QED
        BY <3>1 DEF Chunks
    <2> QED
      BY <2>1
  <1>3. \A i \in 1..Len(f) :
          (IF asMd THEN f[i].heading ELSE readable(f, i)) => f[i].cycle \in s
    OBVIOUS
  <1> HIDE DEF s
  <1>4. Max(s) \in s /\ \A y \in s : Max(s) >= y
    BY <1>2, MaxOfNumbers
  <1>5. resumeCycle(f) \in 0..n
    BY <1>1, <1>2, <1>4
  <1>6. ASSUME NEW i \in 1..Len(f), IF asMd THEN f[i].heading ELSE readable(f, i)
        PROVE  f[i].cycle <= resumeCycle(f)
    <2>1. f[i].cycle \in s
      BY <1>3, <1>6
    <2> QED
      BY <1>1, <1>2, <1>4, <2>1
  <1> QED
    BY <1>5, <1>6

------------------------------------------------------------------------------
(* The steps *)

(* What is left of a chunk of which not all was written: its hash and its   *)
(* payload, and no heading it did not have.                                 *)
Part(x, r) ==
  /\ x \in Chunks /\ x.cut \in {"bare", "half"}
  /\ x.payload = r.payload /\ x.chain = r.chain
  /\ x.cycle = r.cycle /\ x.epoch = r.epoch
  /\ x.heading => r.heading
  /\ x.cut # "half" => r.cut # "half" /\ x.heading = r.heading

LEMMA CutShortPart ==
  ASSUME NEW r \in Chunks, NEW x \in CutShort(r)
  PROVE  Part(x, r)
  <1>1. CASE \E h \in {FALSE, r.heading} : x = [r EXCEPT !.cut = "half", !.heading = h]
    <2>1. PICK h \in {FALSE, r.heading} : x = [r EXCEPT !.cut = "half", !.heading = h]
      BY <1>1
    <2>2. h \in BOOLEAN /\ (h => r.heading)
      BY <2>1 DEF Chunks
    <2> HIDE DEF Part
    <2> QED
      BY <2>1, <2>2 DEF Part, Chunks
  <1>2. CASE x = [r EXCEPT !.cut = "bare"] /\ r.cut # "half"
    BY <1>2 DEF Part, Chunks
  <1> QED
    BY <1>1, <1>2 DEF CutShort

(* A write puts the chunk into the file, or fails having put there a part   *)
(* of it or nothing.                                                        *)
Puts(s, c, x) ==
  /\ file' = Append(file, x)
  /\ \/ x = Chunk(s, c) /\ UNCHANGED faults
     \/ Part(x, Chunk(s, c)) /\ Strike("failed")
Fails == Strike("failed") /\ UNCHANGED file

(* A crash that takes the last write, and one that cuts it.                *)
Loses == Strike("lost") /\ file' = Front(file)
Tears(x) == Strike("torn") /\ Part(x, Last(file)) /\ file' = Append(Front(file), x)

(* Nothing unstrikes a fault, and the codec stays.                          *)
LEMMA StepFaults ==
  ASSUME TrailNext
  PROVE  asMd' = asMd /\ faults \subseteq faults'
  <1>1. ASSUME NEW s \in Session, OpenTrailFile(s) PROVE asMd' = asMd /\ faults \subseteq faults'
    BY <1>1 DEF OpenTrailFile, Strike
  <1>2. ASSUME NEW s \in Session, Close(s) PROVE asMd' = asMd /\ faults \subseteq faults'
    BY <1>2 DEF Close
  <1>3. ASSUME NEW s \in Session, NEW c \in CyclesFor(s), WriteRecord(s, c)
        PROVE  asMd' = asMd /\ faults \subseteq faults'
    BY <1>3 DEF WriteRecord, Strike
  <1>4. ASSUME Crash PROVE asMd' = asMd /\ faults \subseteq faults'
    BY <1>4 DEF Crash, Strike
  <1>5. ASSUME Edit PROVE asMd' = asMd /\ faults \subseteq faults'
    BY <1>5 DEF Edit, Strike
  <1> QED
    BY <1>1, <1>2, <1>3, <1>4, <1>5 DEF TrailNext

(* What is read of the file in the next state is what is read of it then.   *)
LEMMA NextRead ==
  ASSUME asMd' = asMd
  PROVE  /\ chainLinks(file)' = chainLinks(file')
         /\ VerifyTrail(file)' <=> VerifyTrail(file')
         /\ \A i : readable(file, i)' <=> readable(file', i)
         /\ Orderly(file)' <=> Orderly(file')
         /\ Orderly(Front(file))' <=> Orderly(Front(file'))
  <1>1. \A i : readable(file, i)' <=> readable(file', i)
    BY DEF readable, StartsLine
  <1>2. chainLinks(file)' = chainLinks(file')
    BY DEF chainLinks, readable, StartsLine
  <1>3. VerifyTrail(file)' <=> VerifyTrail(file')
    BY <1>2 DEF VerifyTrail
  <1>4. Orderly(file)' <=> Orderly(file')
    BY DEF Orderly, readable, StartsLine
  <1>5. Orderly(Front(file))' <=> Orderly(Front(file'))
    BY DEF Orderly, readable, StartsLine
  <1> QED
    BY <1>1, <1>2, <1>3, <1>4, <1>5

LEMMA ClosedHandle ==
  /\ Closed \in Handles /\ ~Closed.open /\ ~Closed.begun
  /\ Closed.cycleNo = 0 /\ Closed.lastCycle = 0 /\ Closed.tip = genesis
  BY EmptySeq DEF Closed, Handles, genesis

LEMMA OpenedHandle ==
  ASSUME Types, Numbered, NEW s \in Session, OpenTrailFile(s)
  PROVE  /\ handle' \in [Session -> Handles]
         /\ \A t \in Session : t # s => handle'[t] = handle[t]
         /\ handle'[s].open /\ ~handle'[s].begun
         /\ handle'[s].tip = resumeTip(file)
         /\ handle'[s].cycleNo = resumeCycle(file)
         /\ handle'[s].lastCycle = resumeCycle(file)
         /\ resumeCycle(file) \in 0..written
         /\ \A i \in 1..Len(file) : (IF asMd THEN file[i].heading ELSE readable(file, i)) =>
              file[i].cycle <= resumeCycle(file)
         /\ opened' \in Nat
  <1> DEFINE h == [open |-> TRUE, tip |-> resumeTip(file), lastCycle |-> resumeCycle(file),
                   cycleNo |-> resumeCycle(file), begun |-> FALSE, epoch |-> opened + 1]
  <1>1. handle \in [Session -> Handles] /\ file \in Seq(Chunks) /\ opened \in Nat
        /\ written \in Nat
    BY TrailAssumption DEF Types
  <1>2. resumeTip(file) \in Seq(Nat)
    <2>1. /\ resumeTip(file) \in {genesis} \cup {file[i].chain : i \in 1..Len(file)}
          /\ \A i \in 1..Len(file) : file[i] \in Chunks
      BY <1>1, ResumedTip, LenProperties
    <2>2. \A i \in 1..Len(file) : file[i].chain \in Seq(Nat)
      BY <2>1 DEF Chunks
    <2> QED
      BY <2>1, <2>2, EmptySeq DEF genesis
  <1>3. /\ resumeCycle(file) \in 0..written
        /\ \A i \in 1..Len(file) : (IF asMd THEN file[i].heading ELSE readable(file, i)) =>
              file[i].cycle <= resumeCycle(file)
    BY <1>1, ResumedCycle DEF Numbered
  <1>4. h \in Handles
    BY <1>1, <1>2, <1>3 DEF Handles
  <1>5. /\ h.open /\ ~h.begun /\ h.tip = resumeTip(file) /\ h.cycleNo = resumeCycle(file)
        /\ h.lastCycle = resumeCycle(file)
    OBVIOUS
  <1>6. handle' = [handle EXCEPT ![s] = h] /\ opened' = opened + 1
    BY DEF OpenTrailFile
  <1> HIDE DEF h
  <1>7. handle' \in [Session -> Handles] /\ handle'[s] = h
        /\ \A t \in Session : t # s => handle'[t] = handle[t]
    BY <1>1, <1>4, <1>6
  <1> QED
    BY <1>1, <1>3, <1>5, <1>6, <1>7

LEMMA ChunkWritten ==
  ASSUME Types, Numbered, Headed, NEW s \in Session, NEW c \in CyclesFor(s)
  PROVE  /\ c \in Nat \ {0} /\ c <= written + 1
         /\ c = handle[s].cycleNo + 1 \/ (c = handle[s].cycleNo /\ handle[s].begun)
         /\ Chunk(s, c) \in Chunks
         /\ Chunk(s, c).cut = "whole" /\ Chunk(s, c).payload = written + 1
         /\ Chunk(s, c).chain = chainLink(handle[s].tip, written + 1)
         /\ Chunk(s, c).cycle = c /\ Chunk(s, c).epoch = handle[s].epoch
         /\ Chunk(s, c).heading <=> asMd /\ c = handle[s].cycleNo + 1
         /\ chainLink(handle[s].tip, written + 1) \in Seq(Nat)
         /\ Chunk(s, c).chain # genesis
  <1>1. handle[s] \in Handles /\ written \in Nat /\ asMd \in BOOLEAN
    BY TrailAssumption DEF Types
  <1>2. /\ handle[s].cycleNo \in Nat /\ handle[s].lastCycle = handle[s].cycleNo
        /\ handle[s].tip \in Seq(Nat) /\ handle[s].epoch \in Nat
        /\ handle[s].cycleNo <= written /\ (handle[s].begun => handle[s].cycleNo # 0)
    <2>1. handle[s].cycleNo \in Nat /\ handle[s].tip \in Seq(Nat) /\ handle[s].epoch \in Nat
      BY <1>1 DEF Handles
    <2>2. handle[s].lastCycle = handle[s].cycleNo
      BY DEF Headed
    <2>3. handle[s].cycleNo <= written
      BY DEF Numbered
    <2>4. handle[s].begun => handle[s].cycleNo # 0
      BY DEF Numbered
    <2> QED
      BY <2>1, <2>2, <2>3, <2>4
  <1>3. c = handle[s].cycleNo + 1 \/ (c = handle[s].cycleNo /\ handle[s].begun)
    BY DEF CyclesFor
  <1>4. c \in Nat \ {0} /\ c <= written + 1
    BY <1>1, <1>2, <1>3
  <1>5. chainLink(handle[s].tip, written + 1) \in Seq(Nat)
    BY <1>1, <1>2, AppendProperties DEF chainLink
  <1>6. Chunk(s, c).heading <=> asMd /\ c = handle[s].cycleNo + 1
    <2>1. c # handle[s].lastCycle <=> c = handle[s].cycleNo + 1
      BY <1>2, <1>3
    <2>2. Chunk(s, c).heading = (asMd /\ c # handle[s].lastCycle)
      BY DEF Chunk
    <2> QED
      BY <2>1, <2>2
  <1>7. Chunk(s, c).heading \in BOOLEAN
    BY <1>1 DEF Chunk
  <1>8. Chunk(s, c) \in Chunks
    BY <1>1, <1>2, <1>4, <1>5 DEF Chunk, Chunks
  <1>9. chainLink(handle[s].tip, written + 1) # genesis
    <2>1. handle[s].tip \in Seq(Nat) /\ written + 1 \in Nat
      BY <1>1, <1>2
    <2>2. Append(handle[s].tip, written + 1) # <<>>
      BY <2>1, AppendProperties
    <2> QED
      BY <2>2 DEF chainLink, genesis
  <1> QED
    BY <1>3, <1>4, <1>5, <1>6, <1>8, <1>9 DEF Chunk

LEMMA Advanced ==
  ASSUME Types, Numbered, Headed, NEW s \in Session, NEW c \in CyclesFor(s), Advance(s, c)
  PROVE  /\ handle' \in [Session -> Handles]
         /\ \A t \in Session : t # s => handle'[t] = handle[t]
         /\ handle'[s].open = handle[s].open /\ handle'[s].begun
         /\ handle'[s].tip = chainLink(handle[s].tip, written + 1)
         /\ handle'[s].cycleNo = c /\ handle'[s].lastCycle = c
         /\ handle'[s].epoch = handle[s].epoch
  <1> DEFINE h == [handle[s] EXCEPT !.tip = chainLink(@, written + 1), !.lastCycle = c,
                                    !.cycleNo = c, !.begun = TRUE]
  <1>1. handle \in [Session -> Handles] /\ handle[s] \in Handles
    BY DEF Types
  <1>2. c \in Nat /\ chainLink(handle[s].tip, written + 1) \in Seq(Nat)
    BY ChunkWritten
  <1>3. handle' = [handle EXCEPT ![s] = h]
    BY <1>1 DEF Advance
  <1>4. /\ h \in Handles /\ h.open = handle[s].open /\ h.begun
        /\ h.tip = chainLink(handle[s].tip, written + 1)
        /\ h.cycleNo = c /\ h.lastCycle = c /\ h.epoch = handle[s].epoch
    BY <1>1, <1>2 DEF Handles
  <1> HIDE DEF h
  <1>5. handle' \in [Session -> Handles] /\ handle'[s] = h
        /\ \A t \in Session : t # s => handle'[t] = handle[t]
    BY <1>1, <1>3, <1>4
  <1> QED
    BY <1>4, <1>5

------------------------------------------------------------------------------
(* The types, the numbering and the sessions *)

(* What a write puts into the file.                                         *)
LEMMA WrittenFile ==
  ASSUME Types, Numbered, Headed, NEW s \in Session, NEW c \in CyclesFor(s), WriteRecord(s, c)
  PROVE  /\ handle[s].open /\ Advance(s, c) /\ written' = written + 1
         /\ written < MaxRecords /\ written \in Nat
         /\ UNCHANGED <<asMd, opened, before>>
         /\ Fails \/ \E x \in Chunks : Puts(s, c, x)
         /\ Chunk(s, c) \in Chunks
  <1>1. Chunk(s, c) \in Chunks
    BY ChunkWritten
  <1>2. /\ handle[s].open /\ Advance(s, c) /\ written' = written + 1
        /\ written < MaxRecords /\ written \in Nat
        /\ UNCHANGED <<asMd, opened, before>>
    BY TrailAssumption DEF WriteRecord, Types
  <1> DEFINE r == Chunk(s, c)
  <1>3. \/ file' = Append(file, r) /\ UNCHANGED faults
        \/ Strike("failed") /\ file' = file
        \/ Strike("failed") /\ \E x \in CutShort(r) : file' = Append(file, x)
    BY DEF WriteRecord
  <1>4. \A x \in CutShort(r) : Part(x, r)
    BY <1>1, CutShortPart
  <1>5. \A x : Part(x, r) => x \in Chunks
    BY DEF Part
  <1> HIDE DEF r
  <1>6. Fails \/ \E x \in Chunks : Puts(s, c, x)
    <2>1. CASE file' = Append(file, r) /\ UNCHANGED faults
      <3>1. Puts(s, c, r)
        BY <2>1 DEF Puts, r
      <3> QED
        BY <1>1, <3>1 DEF r
    <2>2. CASE Strike("failed") /\ file' = file
      BY <2>2 DEF Fails
    <2>3. CASE Strike("failed") /\ \E x \in CutShort(r) : file' = Append(file, x)
      <3>1. PICK x \in CutShort(r) : file' = Append(file, x)
        BY <2>3
      <3>2. Part(x, r) /\ x \in Chunks
        BY <1>4, <1>5
      <3>3. Puts(s, c, x)
        BY <2>3, <3>1, <3>2 DEF Puts, r
      <3> QED
        BY <3>2, <3>3
    <2> QED
      BY <1>3, <2>1, <2>2, <2>3
  <1> QED
    BY <1>1, <1>2, <1>6

(* What it puts there has the payload, the cycle and the hash of the chunk. *)
LEMMA WhatIsPut ==
  ASSUME Types, Numbered, Headed, NEW s \in Session, NEW c \in CyclesFor(s),
         NEW x \in Chunks, Puts(s, c, x)
  PROVE  /\ x.payload = written + 1 /\ x.chain = chainLink(handle[s].tip, written + 1)
         /\ x.chain # genesis /\ x.cycle = c /\ x.epoch = handle[s].epoch
         /\ x.heading => Chunk(s, c).heading
         /\ x.cut # "half" => x.heading = Chunk(s, c).heading
         /\ "failed" \notin faults' => x = Chunk(s, c) /\ x.cut = "whole"
         /\ Len(file') = Len(file) + 1 /\ file'[Len(file) + 1] = x /\ Len(file) \in Nat
         /\ \A i \in 1..Len(file) : file'[i] = file[i]
         /\ file \in Seq(Chunks) /\ file' \in Seq(Chunks) /\ file' # <<>>
         /\ faults \subseteq faults' /\ faults' \subseteq faults \cup {"failed"}
  <1>1. file \in Seq(Chunks) /\ file' = Append(file, x)
    BY DEF Types, Puts
  <1>2. /\ Len(file') = Len(file) + 1 /\ file'[Len(file) + 1] = x /\ Len(file) \in Nat
        /\ \A i \in 1..Len(file) : file'[i] = file[i]
        /\ file' \in Seq(Chunks) /\ file' # <<>>
    BY <1>1, AppendProperties, LenProperties
  <1>3. faults \subseteq faults' /\ faults' \subseteq faults \cup {"failed"}
    BY DEF Puts, Strike
  <1>4. /\ Chunk(s, c).cut = "whole" /\ Chunk(s, c).payload = written + 1
        /\ Chunk(s, c).chain = chainLink(handle[s].tip, written + 1)
        /\ Chunk(s, c).cycle = c /\ Chunk(s, c).epoch = handle[s].epoch
        /\ Chunk(s, c).chain # genesis
    BY ChunkWritten
  <1> DEFINE r == Chunk(s, c)
  <1>5. x = r \/ (Part(x, r) /\ "failed" \in faults')
    BY DEF Puts, Strike
  <1>6. /\ r.cut = "whole" /\ r.payload = written + 1
        /\ r.chain = chainLink(handle[s].tip, written + 1)
        /\ r.cycle = c /\ r.epoch = handle[s].epoch /\ r.chain # genesis
    BY <1>4
  <1> HIDE DEF r
  <1>7. /\ x.payload = r.payload /\ x.chain = r.chain /\ x.cycle = r.cycle /\ x.epoch = r.epoch
        /\ x.heading => r.heading
        /\ x.cut # "half" => x.heading = r.heading
        /\ "failed" \notin faults' => x = r
    BY <1>5 DEF Part
  <1>8. /\ x.payload = written + 1 /\ x.chain = chainLink(handle[s].tip, written + 1)
        /\ x.chain # genesis /\ x.cycle = c /\ x.epoch = handle[s].epoch
        /\ "failed" \notin faults' => x = r /\ x.cut = "whole"
    BY <1>6, <1>7
  <1> QED
    BY <1>1, <1>2, <1>3, <1>7, <1>8 DEF r

(* A crash leaves the file without its last write, or with a part of it.    *)
LEMMA CrashedFile ==
  ASSUME Types, Crash
  PROVE  /\ file # <<>> /\ Len(file) \in Nat \ {0} /\ Last(file) = file[Len(file)]
         /\ Last(file) \in Chunks /\ Front(file) \in Seq(Chunks)
         /\ Len(Front(file)) = Len(file) - 1
         /\ \A i \in 1..(Len(file) - 1) : Front(file)[i] = file[i]
         /\ file = Append(Front(file), Last(file))
         /\ Loses \/ \E x \in Chunks : Tears(x)
         /\ handle' = [s \in Session |-> Closed]
         /\ UNCHANGED <<asMd, written, opened, before>>
  <1>1. file # <<>> /\ handle' = [s \in Session |-> Closed]
        /\ UNCHANGED <<asMd, written, opened, before>>
    BY DEF Crash
  <1>2. file \in Seq(Chunks)
    BY DEF Types
  <1>3. Last(file) \in Chunks
    BY <1>1, <1>2, FrontAndLast
  <1>4. Loses \/ \E x \in Chunks : Tears(x)
    <2> DEFINE l == Last(file)
    <2>1. \/ Loses
          \/ Strike("torn") /\ \E x \in CutShort(l) : file' = Append(Front(file), x)
      BY DEF Crash, Loses
    <2>2. \A x \in CutShort(l) : Part(x, l)
      BY <1>3, CutShortPart
    <2> HIDE DEF l
    <2>3. CASE Strike("torn") /\ \E x \in CutShort(l) : file' = Append(Front(file), x)
      <3>1. PICK x \in CutShort(l) : file' = Append(Front(file), x)
        BY <2>3
      <3>2. Part(x, l)
        BY <2>2
      <3>3. x \in Chunks
        BY <3>2 DEF Part
      <3>4. Tears(x)
        BY <2>3, <3>1, <3>2 DEF Tears, l
      <3> QED
        BY <3>3, <3>4
    <2> QED
      BY <2>1, <2>3
  <1> QED
    BY <1>1, <1>2, <1>4, FrontAndLast

(* What is torn, at its place. *)
LEMMA WhatIsTorn ==
  ASSUME Types, Crash, NEW x \in Chunks, Tears(x)
  PROVE  /\ Part(x, Last(file))
         /\ file' \in Seq(Chunks) /\ Len(file') = Len(file) /\ file'[Len(file)] = x
         /\ \A i \in 1..(Len(file) - 1) : file'[i] = file[i]
         /\ "torn" \notin faults /\ faults' = faults \cup {"torn"}
  <1> DEFINE f == Front(file)
             n == Len(file)
  <1>1. /\ n \in Nat \ {0} /\ f \in Seq(Chunks) /\ Len(f) = n - 1
        /\ \A i \in 1..(n - 1) : f[i] = file[i]
    BY CrashedFile
  <1>2. Part(x, Last(file)) /\ file' = Append(f, x) /\ "torn" \notin faults
        /\ faults' = faults \cup {"torn"}
    BY DEF Tears, Strike
  <1> HIDE DEF f, n
  <1>3. /\ Append(f, x) \in Seq(Chunks) /\ Len(Append(f, x)) = Len(f) + 1
        /\ Append(f, x)[Len(f) + 1] = x
        /\ \A i \in 1..Len(f) : Append(f, x)[i] = f[i]
    BY <1>1, AppendProperties
  <1>4. Len(f) + 1 = n
    BY <1>1
  <1> QED
    BY <1>1, <1>2, <1>3, <1>4 DEF n

(* What an edit makes of the lines: each is a line there was, but for its   *)
(* payload, its number or a hash it lost, and can be read only if that      *)
(* could.                                                                   *)
ComesFrom(g, j, f, i) ==
  /\ g[j].cut = f[i].cut /\ g[j].heading = f[i].heading
  /\ g[j].chain \in {genesis, f[i].chain}
  /\ g[j].payload \in {0, f[i].payload}
  /\ g[j].cycle = f[i].cycle \/ (g[j].cycle >= 1 /\ g[j].cycle <= written)
  /\ readable(g, j) => readable(f, i)

EditOf(g, f) ==
  g \in Seq(Chunks) /\ \A j \in 1..Len(g) : \E i \in 1..Len(f) : ComesFrom(g, j, f, i)

(* One line is changed, and keeps its place. *)
LEMMA OneChanged ==
  ASSUME NEW f \in Seq(Chunks), NEW i \in 1..Len(f), NEW x \in Chunks,
         x.cut = f[i].cut, x.heading = f[i].heading, x.chain = f[i].chain,
         x.payload \in {0, f[i].payload},
         x.cycle = f[i].cycle \/ (x.cycle >= 1 /\ x.cycle <= written)
  PROVE  EditOf([f EXCEPT ![i] = x], f)
  <1> DEFINE g == [f EXCEPT ![i] = x]
             n == Len(f)
  <1>1. /\ g \in Seq(Chunks) /\ Len(g) = n /\ n \in Nat
        /\ \A j \in 1..n : g[j] = IF j = i THEN x ELSE f[j]
    BY ExceptSeq, LenProperties
  <1> HIDE DEF g, n
  <1>2. \A j \in 1..n : g[j].cut = f[j].cut /\ g[j].heading = f[j].heading
    BY <1>1
  <1>3. ASSUME NEW j \in 1..n PROVE ComesFrom(g, j, f, j)
    <2>1. j = 1 \/ j - 1 \in 1..n
      BY <1>1
    <2>2. readable(g, j) => readable(f, j)
      BY <1>1, <1>2, <2>1, ReadableIs DEF n
    <2>3. /\ g[j].chain \in {genesis, f[j].chain} /\ g[j].payload \in {0, f[j].payload}
          /\ g[j].cycle = f[j].cycle \/ (g[j].cycle >= 1 /\ g[j].cycle <= written)
      BY <1>1
    <2> QED
      BY <1>2, <2>2, <2>3 DEF ComesFrom
  <1>4. EditOf(g, f)
    BY <1>1, <1>3 DEF EditOf, n
  <1> QED
    BY <1>4 DEF g

LEMMA SomeTakenOut ==
  ASSUME NEW f \in Seq(Chunks), asMd \/ \A i \in 1..Len(f) : ~f[i].heading,
         NEW i \in 1..Len(f), NEW k \in i..Len(f),
         StartsLine(f, i), k = Len(f) \/ StartsLine(f, k + 1)
  PROVE  EditOf(SubSeq(f, 1, i - 1) \o SubSeq(f, k + 1, Len(f)), f)
  <1> DEFINE g == SubSeq(f, 1, i - 1) \o SubSeq(f, k + 1, Len(f))
             n == Len(f)
             d == k - (i - 1)
  <1>1. /\ g \in Seq(Chunks) /\ Len(g) = n - d
        /\ \A j \in 1..Len(g) : g[j] = IF j < i THEN f[j] ELSE f[j + d]
    BY RunTakenOut
  <1>2. n \in Nat /\ i \in 1..n /\ k \in i..n /\ d = k - (i - 1)
    BY LenProperties
  <1>3. /\ i = 1 \/ f[i - 1].cut = "whole" \/ f[i].heading
        /\ k = n \/ f[k].cut = "whole" \/ f[k + 1].heading
    <2>1. i = 1 \/ f[i - 1].cut = "whole" \/ f[i].heading
      BY DEF StartsLine
    <2>2. (k + 1) - 1 = k /\ k + 1 # 1
      BY <1>2
    <2>3. k = n \/ f[k].cut = "whole" \/ f[k + 1].heading
      BY <2>2 DEF StartsLine
    <2> QED
      BY <2>1, <2>3
  <1> HIDE DEF g, n, d
  <1>4. asMd \/ \A j \in 1..n : ~f[j].heading
    BY DEF n
  <1>5. ASSUME NEW j \in 1..Len(g), j < i PROVE ComesFrom(g, j, f, j) /\ j \in 1..n
    <2>1. j \in 1..n /\ g[j] = f[j] /\ (j # 1 => j - 1 \in 1..Len(g) /\ j - 1 < i)
      BY <1>1, <1>2, <1>5
    <2>2. j # 1 => g[j - 1] = f[j - 1]
      BY <1>1, <2>1
    <2>3. j = Len(g) => j = i - 1
      BY <1>1, <1>2, <1>5
    <2>4. j = Len(g) => asMd \/ f[j].cut = "whole"
      BY <1>2, <1>3, <1>4, <2>3
    <2>5. readable(g, j) => readable(f, j)
      <3>1. readable(g, j) => /\ f[j].cut # "half"
                              /\ j = 1 \/ f[j - 1].cut = "whole" \/ f[j].heading
                              /\ asMd \/ j = Len(g) \/ f[j].cut = "whole"
        BY <1>1, <2>1, <2>2, ReadableIs
      <3>2. readable(f, j) <=> /\ f[j].cut # "half"
                               /\ j = 1 \/ f[j - 1].cut = "whole" \/ f[j].heading
                               /\ asMd \/ j = n \/ f[j].cut = "whole"
        BY <2>1, ReadableIs DEF n
      <3> QED
        BY <2>4, <3>1, <3>2
    <2> QED
      BY <2>1, <2>5 DEF ComesFrom
  <1>6. ASSUME NEW j \in 1..Len(g), ~(j < i) PROVE ComesFrom(g, j, f, j + d) /\ j + d \in 1..n
    <2>1. /\ j + d \in 1..n /\ g[j] = f[j + d] /\ j + d # 1
          /\ j = Len(g) <=> j + d = n
      BY <1>1, <1>2, <1>6
    <2>2. j = i => j + d = k + 1 /\ (j + d) - 1 = k /\ k # n
      BY <1>1, <1>2
    <2>3. j # i => j # 1 /\ j - 1 \in 1..Len(g) /\ ~(j - 1 < i) /\ (j - 1) + d = (j + d) - 1
      BY <1>1, <1>2, <1>6
    <2>4. j # i => g[j - 1] = f[(j + d) - 1]
      BY <1>1, <2>3
    <2>5. readable(g, j) => f[(j + d) - 1].cut = "whole" \/ f[j + d].heading
      <3>1. CASE j = i
        BY <1>3, <2>2, <3>1
      <3>2. CASE j # i
        BY <1>1, <2>1, <2>3, <2>4, <3>2, ReadableIs
      <3> QED
        BY <3>1, <3>2
    <2>6. readable(g, j) => f[j + d].cut # "half" /\ (asMd \/ j + d = n \/ f[j + d].cut = "whole")
      BY <1>1, <2>1, ReadableIs
    <2>7. readable(g, j) => readable(f, j + d)
      BY <2>1, <2>5, <2>6, ReadableIs DEF n
    <2> QED
      BY <2>1, <2>7 DEF ComesFrom
  <1>7. EditOf(g, f)
    BY <1>1, <1>5, <1>6 DEF EditOf, n
  <1> QED
    BY <1>7 DEF g

LEMMA OnePutIn ==
  ASSUME NEW f \in Seq(Chunks), NEW i \in 1..(Len(f) + 1), StartsLine(f, i),
         NEW k \in 1..Len(f), readable(f, k), NEW x \in Chunks,
         x.cut = f[k].cut, x.heading = f[k].heading, x.chain \in {genesis, f[k].chain},
         x.payload \in {0, f[k].payload}, x.cycle = f[k].cycle
  PROVE  EditOf(InsertAt(f, i, x), f)
  <1> DEFINE g == InsertAt(f, i, x)
             n == Len(f)
  <1>1. /\ g \in Seq(Chunks) /\ Len(g) = n + 1
        /\ \A j \in 1..(n + 1) : g[j] = IF j < i THEN f[j] ELSE IF j = i THEN x ELSE f[j - 1]
    BY InsertAtPlaces
  <1>2. n \in Nat /\ i \in 1..(n + 1)
    BY LenProperties
  <1>3. i \in 1..n => i = 1 \/ f[i - 1].cut = "whole" \/ f[i].heading
    BY DEF StartsLine
  <1> HIDE DEF g, n
  <1>4. ASSUME NEW j \in 1..(n + 1), j < i PROVE ComesFrom(g, j, f, j) /\ j \in 1..n
    <2>1. /\ j \in 1..n /\ g[j] = f[j] /\ j # Len(g) /\ j \in 1..Len(g)
          /\ j # 1 => j - 1 \in 1..(n + 1) /\ j - 1 < i
      BY <1>1, <1>2, <1>4
    <2>2. j # 1 => g[j - 1] = f[j - 1]
      BY <1>1, <2>1
    <2>3. readable(g, j) => readable(f, j)
      <3>1. readable(g, j) => /\ f[j].cut # "half"
                              /\ j = 1 \/ f[j - 1].cut = "whole" \/ f[j].heading
                              /\ asMd \/ f[j].cut = "whole"
        BY <1>1, <2>1, <2>2, ReadableIs
      <3> QED
        BY <2>1, <3>1, ReadableIs DEF n
    <2> QED
      BY <2>1, <2>3 DEF ComesFrom
  <1>5. ASSUME NEW j \in 1..(n + 1), j = i PROVE ComesFrom(g, j, f, k)
    <2>1. g[j] = x
      BY <1>1, <1>2, <1>5
    <2> QED
      BY <2>1 DEF ComesFrom
  <1>6. ASSUME NEW j \in 1..(n + 1), j > i PROVE ComesFrom(g, j, f, j - 1) /\ j - 1 \in 1..n
    <2>1. /\ j - 1 \in 1..n /\ g[j] = f[j - 1] /\ j \in 1..Len(g) /\ j # 1
          /\ j = Len(g) <=> j - 1 = n
      BY <1>1, <1>2, <1>6
    <2>2. readable(g, j) => j - 1 = 1 \/ f[(j - 1) - 1].cut = "whole" \/ f[j - 1].heading
      <3>1. CASE j - 1 = i
        BY <1>3, <2>1, <3>1
      <3>2. CASE j - 1 # i
        <4>1. /\ j - 1 \in 1..(n + 1) /\ ~(j - 1 < i)
          BY <1>2, <1>6, <2>1
        <4>2. g[j - 1] = f[(j - 1) - 1]
          BY <1>1, <3>2, <4>1
        <4> QED
          BY <1>1, <2>1, <4>2, ReadableIs
      <3> QED
        BY <3>1, <3>2
    <2>3. readable(g, j) => f[j - 1].cut # "half" /\ (asMd \/ j - 1 = n \/ f[j - 1].cut = "whole")
      BY <1>1, <2>1, ReadableIs
    <2>4. readable(g, j) => readable(f, j - 1)
      BY <2>1, <2>2, <2>3, ReadableIs DEF n
    <2> QED
      BY <2>1, <2>4 DEF ComesFrom
  <1>7. EditOf(g, f)
    <2>1. \A j \in 1..(n + 1) : j < i \/ j = i \/ j > i
      BY <1>2
    <2> QED
      BY <1>1, <1>4, <1>5, <1>6, <2>1 DEF EditOf, n
  <1> QED
    BY <1>7 DEF g

LEMMA Edited ==
  ASSUME Types, Plain, Edit
  PROVE  /\ EditOf(file', file)
         /\ "edit" \notin faults /\ faults' = faults \cup {"edit"} /\ "edit" \in FaultKind
         /\ before' = IF VerifyTrail(file)
                      THEN [verified |-> TRUE, read |-> payloads(chainLinks(file)),
                            written |-> written]
                      ELSE Unedited
         /\ UNCHANGED <<asMd, handle, written, opened>>
  <1>1. /\ file \in Seq(Chunks) /\ \A i \in 1..Len(file) : file[i] \in Chunks
        /\ written \in Nat
    BY LenProperties, TrailAssumption DEF Types
  <1>2. CASE Change
    <2>1. PICK i \in 1..Len(file) : file' = [file EXCEPT ![i].payload = 0]
      BY <1>2 DEF Change
    <2> DEFINE x == [file[i] EXCEPT !.payload = 0]
    <2>2. /\ x \in Chunks /\ x.cut = file[i].cut /\ x.heading = file[i].heading
          /\ x.chain = file[i].chain /\ x.payload \in {0, file[i].payload}
          /\ x.cycle = file[i].cycle
      BY <1>1 DEF Chunks
    <2>3. file' = [file EXCEPT ![i] = x]
      BY <1>1, <2>1
    <2> HIDE DEF x
    <2>4. EditOf([file EXCEPT ![i] = x], file)
      BY <1>1, <2>2, OneChanged
    <2> QED
      BY <2>3, <2>4 DEF Edit, Strike
  <1>3. CASE Renumber
    <2>1. PICK i \in 1..Len(file), n \in 1..written : file' = [file EXCEPT ![i].cycle = n]
      BY <1>3 DEF Renumber
    <2> DEFINE x == [file[i] EXCEPT !.cycle = n]
    <2>2. /\ x \in Chunks /\ x.cut = file[i].cut /\ x.heading = file[i].heading
          /\ x.chain = file[i].chain /\ x.payload \in {0, file[i].payload}
          /\ x.cycle >= 1 /\ x.cycle <= written
      <3>1. n \in Nat \ {0} /\ n >= 1 /\ n <= written
        BY <1>1
      <3> QED
        BY <1>1, <3>1 DEF Chunks
    <2>3. file' = [file EXCEPT ![i] = x]
      BY <1>1, <2>1
    <2> HIDE DEF x
    <2>4. EditOf([file EXCEPT ![i] = x], file)
      BY <1>1, <2>2, OneChanged
    <2> QED
      BY <2>3, <2>4 DEF Edit, Strike
  <1>4. CASE TakeOut
    <2>1. PICK i \in 1..Len(file), k \in 1..Len(file) :
            /\ k \in i..Len(file)
            /\ StartsLine(file, i) /\ (k = Len(file) \/ StartsLine(file, k + 1))
            /\ file' = SubSeq(file, 1, i - 1) \o SubSeq(file, k + 1, Len(file))
      <3>1. \A i \in 1..Len(file) : \A k \in i..Len(file) : k \in 1..Len(file)
        BY <1>1, LenProperties
      <3> QED
        BY <1>4, <3>1 DEF TakeOut
    <2>2. EditOf(file', file)
      BY <1>1, <2>1, SomeTakenOut DEF Plain
    <2> QED
      BY <2>2 DEF Edit, Strike
  <1>5. CASE PutIn
    <2>0. PICK i \in 1..(Len(file) + 1), k \in 1..Len(file) :
            /\ StartsLine(file, i) /\ readable(file, k)
            /\ \E p \in {0, file[k].payload}, h \in {genesis, file[k].chain} :
                 file' = InsertAt(file, i, [file[k] EXCEPT !.payload = p, !.chain = h])
      BY <1>5 DEF PutIn
    <2>1. PICK p \in {0, file[k].payload}, h \in {genesis, file[k].chain} :
            file' = InsertAt(file, i, [file[k] EXCEPT !.payload = p, !.chain = h])
      BY <2>0
    <2> DEFINE x == [file[k] EXCEPT !.payload = p, !.chain = h]
    <2>2. /\ x \in Chunks /\ x.cut = file[k].cut /\ x.heading = file[k].heading
          /\ x.chain \in {genesis, file[k].chain} /\ x.payload \in {0, file[k].payload}
          /\ x.cycle = file[k].cycle
      <3>1. file[k] \in Chunks /\ genesis \in Seq(Nat)
        BY <1>1, EmptySeq DEF genesis
      <3>2. p \in Nat /\ h \in Seq(Nat)
        BY <3>1 DEF Chunks
      <3> QED
        BY <3>1, <3>2 DEF Chunks
    <2>3. file' = InsertAt(file, i, x)
      BY <2>1
    <2> HIDE DEF x
    <2>4. EditOf(file', file)
      BY <1>1, <2>0, <2>2, <2>3, OnePutIn
    <2> QED
      BY <2>4 DEF Edit, Strike
  <1> QED
    BY <1>2, <1>3, <1>4, <1>5 DEF Edit

(* A step of a session, a crash or an edit. *)
LEMMA StepCases ==
  ASSUME TrailNext
  PROVE  \/ \E s \in Session : OpenTrailFile(s)
         \/ \E s \in Session : Close(s)
         \/ \E s \in Session : \E c \in CyclesFor(s) : WriteRecord(s, c)
         \/ Crash
         \/ Edit
  BY DEF TrailNext

Basics == Types /\ Numbered /\ OpenOnce /\ AllWhole /\ Headed /\ Plain /\ Unforged

LEMMA OpenStep ==
  ASSUME Basics, NEW s \in Session, OpenTrailFile(s)
  PROVE  Basics'
  <1>1. /\ handle' \in [Session -> Handles]
        /\ \A t \in Session : t # s => handle'[t] = handle[t]
        /\ ~handle'[s].begun
        /\ handle'[s].cycleNo = resumeCycle(file)
        /\ handle'[s].lastCycle = resumeCycle(file)
        /\ resumeCycle(file) \in 0..written
        /\ opened' \in Nat
    BY OpenedHandle DEF Basics
  <1>2. UNCHANGED <<asMd, file, written, before>> /\ faults \subseteq faults'
        /\ faults' \subseteq FaultKind
    BY DEF OpenTrailFile, Strike, Basics, Types
  <1>3. written \in Nat
    BY TrailAssumption DEF Basics, Types
  <1>4. Types'
    BY <1>1, <1>2 DEF Basics, Types
  <1>5. Numbered'
    <2>1. \A i \in 1..Len(file) : file[i].payload <= written /\ file[i].cycle <= written
      BY DEF Basics, Numbered
    <2>2. \A t \in Session : handle'[t].cycleNo <= written
      <3>1. \A t \in Session : handle[t].cycleNo <= written
        BY DEF Basics, Numbered
      <3>2. handle'[s].cycleNo <= written
        BY <1>1, <1>3
      <3> QED
        BY <1>1, <3>1, <3>2
    <2>3. \A t \in Session : handle'[t].begun => handle'[t].cycleNo # 0
      <3>1. \A t \in Session : handle[t].begun => handle[t].cycleNo # 0
        BY DEF Basics, Numbered
      <3> QED
        BY <1>1, <3>1
    <2> QED
      BY <1>2, <2>1, <2>2, <2>3 DEF Numbered, Basics
  <1>6. OpenOnce'
    <2> SUFFICES ASSUME "overlap" \notin faults', NEW t \in Session, NEW u \in Session,
                        handle'[t].open, handle'[u].open
                 PROVE  t = u
      BY DEF OpenOnce, Spared
    <2>1. ~ (\E v \in Session : handle[v].open)
      BY DEF OpenTrailFile, Strike
    <2> QED
      BY <1>1, <2>1
  <1>7. AllWhole'
    BY <1>2 DEF Basics, AllWhole, Spared
  <1>8. Headed'
    BY <1>1 DEF Basics, Headed
  <1>9. Plain' /\ Unforged'
    BY <1>2 DEF Basics, Plain, Unforged, Spared, Serial
  <1> QED
    BY <1>4, <1>5, <1>6, <1>7, <1>8, <1>9 DEF Basics

LEMMA CloseStep ==
  ASSUME Basics, NEW s \in Session, Close(s)
  PROVE  Basics'
  <1>1. handle \in [Session -> Handles] /\ UNCHANGED <<asMd, file, written, opened, faults, before>>
        /\ handle' = [handle EXCEPT ![s] = Closed]
    BY DEF Basics, Types, Close
  <1>2. /\ handle' \in [Session -> Handles] /\ handle'[s] = Closed
        /\ \A t \in Session : t # s => handle'[t] = handle[t]
    BY <1>1, ClosedHandle
  <1>3. written \in Nat
    BY TrailAssumption DEF Basics, Types
  <1>4. Types'
    BY <1>1, <1>2 DEF Basics, Types
  <1>5. Numbered'
    <2>1. \A i \in 1..Len(file) : file[i].payload <= written /\ file[i].cycle <= written
      BY DEF Basics, Numbered
    <2>2. \A t \in Session : handle'[t].cycleNo <= written
      <3>1. \A t \in Session : handle[t].cycleNo <= written
        BY DEF Basics, Numbered
      <3>2. handle'[s].cycleNo <= written
        BY <1>2, <1>3, ClosedHandle
      <3> QED
        BY <1>2, <3>1, <3>2
    <2>3. \A t \in Session : handle'[t].begun => handle'[t].cycleNo # 0
      <3>1. \A t \in Session : handle[t].begun => handle[t].cycleNo # 0
        BY DEF Basics, Numbered
      <3> QED
        BY <1>2, <3>1, ClosedHandle
    <2> QED
      BY <1>1, <2>1, <2>2, <2>3 DEF Numbered, Basics
  <1>6. OpenOnce'
    <2> SUFFICES ASSUME "overlap" \notin faults', NEW t \in Session, NEW u \in Session,
                        handle'[t].open, handle'[u].open
                 PROVE  t = u
      BY DEF OpenOnce, Spared
    <2>1. t # s /\ u # s
      BY <1>2, ClosedHandle
    <2>2. handle[t].open /\ handle[u].open /\ "overlap" \notin faults
      BY <1>1, <1>2, <2>1
    <2> QED
      BY <2>2 DEF Basics, OpenOnce, Spared
  <1>7. AllWhole'
    BY <1>1 DEF Basics, AllWhole, Spared
  <1>8. Headed'
    BY <1>2, ClosedHandle DEF Basics, Headed
  <1>9. Plain' /\ Unforged'
    BY <1>1 DEF Basics, Plain, Unforged, Spared, Serial
  <1> QED
    BY <1>4, <1>5, <1>6, <1>7, <1>8, <1>9 DEF Basics

LEMMA WriteStep ==
  ASSUME Basics, NEW s \in Session, NEW c \in CyclesFor(s), WriteRecord(s, c)
  PROVE  Basics'
  <1>1. Types /\ Numbered /\ Headed /\ Plain
    BY DEF Basics
  <1>2. /\ UNCHANGED <<asMd, opened, before>> /\ written' = written + 1 /\ Advance(s, c)
        /\ written < MaxRecords /\ handle[s].open /\ written \in Nat
        /\ Fails \/ \E x \in Chunks : Puts(s, c, x)
    BY <1>1, WrittenFile
  <1>3. /\ handle' \in [Session -> Handles]
        /\ \A t \in Session : t # s => handle'[t] = handle[t]
        /\ handle'[s].open = handle[s].open /\ handle'[s].begun
        /\ handle'[s].cycleNo = c /\ handle'[s].lastCycle = c
    BY <1>1, <1>2, Advanced
  <1>4. /\ c \in Nat \ {0} /\ c <= written + 1
        /\ Chunk(s, c).heading => asMd
    BY <1>1, ChunkWritten
  <1>5. written' \in 0..MaxRecords /\ file \in Seq(Chunks) /\ Len(file) \in Nat
    BY <1>1, <1>2, TrailAssumption, LenProperties DEF Types
  <1>6. /\ faults \subseteq faults' /\ faults' \subseteq FaultKind
        /\ "edit" \notin faults' <=> "edit" \notin faults
    BY <1>1, <1>2 DEF Types, Fails, Puts, Strike
  <1>7. /\ file' \in Seq(Chunks)
        /\ \A i \in 1..Len(file') :
             \/ i \in 1..Len(file) /\ file'[i] = file[i]
             \/ /\ i = Len(file) + 1 /\ file'[i].payload = written + 1 /\ file'[i].cycle = c
                /\ file'[i].chain # genesis
                /\ file'[i].heading => asMd
                /\ "failed" \notin faults' => file'[i].cut = "whole"
    <2>1. CASE Fails
      BY <1>5, <2>1 DEF Fails
    <2>2. CASE \E x \in Chunks : Puts(s, c, x)
      <3>1. PICK x \in Chunks : Puts(s, c, x)
        BY <2>2
      <3>2. /\ x.payload = written + 1 /\ x.chain # genesis /\ x.cycle = c
            /\ x.heading => Chunk(s, c).heading
            /\ "failed" \notin faults' => x.cut = "whole"
            /\ Len(file') = Len(file) + 1 /\ file'[Len(file) + 1] = x
            /\ \A i \in 1..Len(file) : file'[i] = file[i]
            /\ file' \in Seq(Chunks)
        BY <1>1, <3>1, WhatIsPut
      <3>3. \A i \in 1..Len(file') : i \in 1..Len(file) \/ i = Len(file) + 1
        BY <1>5, <3>2
      <3> QED
        BY <1>4, <3>2, <3>3
    <2> QED
      BY <1>2, <2>1, <2>2
  <1>8. Types'
    BY <1>1, <1>2, <1>3, <1>5, <1>6, <1>7 DEF Types
  <1>9. Numbered'
    <2>1. \A i \in 1..Len(file) : /\ file[i].payload <= written /\ file[i].cycle <= written
                                  /\ file[i].payload \in Nat /\ file[i].cycle \in Nat
      <3>1. \A i \in 1..Len(file) : file[i] \in Chunks
        BY <1>5, LenProperties
      <3> QED
        BY <1>1, <3>1 DEF Numbered, Chunks
    <2>2. \A i \in 1..Len(file') : file'[i].payload <= written + 1 /\ file'[i].cycle <= written + 1
      BY <1>2, <1>4, <1>7, <2>1
    <2>3. \A t \in Session : handle'[t].cycleNo <= written + 1
      <3>1. \A t \in Session : handle[t].cycleNo <= written /\ handle[t].cycleNo \in Nat
        <4>1. \A t \in Session : handle[t].cycleNo <= written
          BY <1>1 DEF Numbered
        <4>2. \A t \in Session : handle[t].cycleNo \in Nat
          BY <1>1 DEF Types, Handles
        <4> QED
          BY <4>1, <4>2
      <3>2. \A t \in Session : handle[t].cycleNo <= written + 1
        BY <1>2, <3>1
      <3> QED
        BY <1>3, <1>4, <3>2
    <2>4. \A t \in Session : handle'[t].begun => handle'[t].cycleNo # 0
      <3>1. \A t \in Session : handle[t].begun => handle[t].cycleNo # 0
        BY <1>1 DEF Numbered
      <3> QED
        BY <1>3, <1>4, <3>1
    <2>5. before'.written <= written'
      <3>1. before.written <= written /\ before.written \in Nat
        BY <1>1, TrailAssumption DEF Numbered, Types, Edits
      <3> QED
        BY <1>2, <3>1
    <2> QED
      BY <1>2, <2>2, <2>3, <2>4, <2>5 DEF Numbered
  <1>10. OpenOnce'
    <2> SUFFICES ASSUME "overlap" \notin faults', NEW t \in Session, NEW u \in Session,
                        handle'[t].open, handle'[u].open
                 PROVE  t = u
      BY DEF OpenOnce, Spared
    <2>1. handle[t].open /\ handle[u].open /\ "overlap" \notin faults
      BY <1>2, <1>3, <1>6
    <2> QED
      BY <2>1 DEF Basics, OpenOnce, Spared
  <1>11. AllWhole'
    <2> SUFFICES ASSUME "torn" \notin faults', "failed" \notin faults', NEW i \in 1..Len(file')
                 PROVE  file'[i].cut = "whole"
      BY DEF AllWhole, Spared
    <2>1. \A j \in 1..Len(file) : file[j].cut = "whole"
      BY <1>6 DEF Basics, AllWhole, Spared
    <2> QED
      BY <1>7, <2>1
  <1>12. Headed'
    BY <1>3 DEF Basics, Headed
  <1>13. Plain'
    BY <1>1, <1>2, <1>7 DEF Plain
  <1>14. Unforged'
    <2> SUFFICES ASSUME "edit" \notin faults'
                 PROVE  /\ \A i \in 1..Len(file') : file'[i].chain # genesis
                        /\ \A i, j \in 1..Len(file') : i < j => file'[i].payload < file'[j].payload
      BY DEF Unforged, Spared, Serial, genesis
    <2>1. /\ \A i \in 1..Len(file) : file[i].chain # genesis
          /\ \A i, j \in 1..Len(file) : i < j => file[i].payload < file[j].payload
      BY <1>6 DEF Basics, Unforged, Spared, Serial
    <2>2. \A i \in 1..Len(file) : file[i].payload <= written /\ file[i].payload \in Nat
      <3>1. \A i \in 1..Len(file) : file[i] \in Chunks
        BY <1>5, LenProperties
      <3> QED
        BY <1>1, <3>1 DEF Numbered, Chunks
    <2>3. ASSUME NEW i \in 1..Len(file'), NEW j \in 1..Len(file'), i < j
          PROVE  file'[i].payload < file'[j].payload
      <3>1. i \in 1..Len(file) /\ file'[i] = file[i]
        BY <1>5, <1>7, <2>3
      <3>2. CASE j \in 1..Len(file) /\ file'[j] = file[j]
        BY <2>1, <2>3, <3>1, <3>2
      <3>3. CASE file'[j].payload = written + 1
        BY <1>2, <2>2, <3>1, <3>3
      <3> QED
        BY <1>7, <3>2, <3>3
    <2> QED
      BY <1>7, <2>1, <2>3
  <1> QED
    BY <1>8, <1>9, <1>10, <1>11, <1>12, <1>13, <1>14 DEF Basics

LEMMA CrashStep ==
  ASSUME Basics, Crash
  PROVE  Basics'
  <1> DEFINE n == Len(file)
  <1>1. Types /\ Numbered /\ Plain
    BY DEF Basics
  <1>2. /\ n \in Nat \ {0} /\ Last(file) = file[n] /\ Last(file) \in Chunks
        /\ Front(file) \in Seq(Chunks) /\ Len(Front(file)) = n - 1
        /\ \A i \in 1..(n - 1) : Front(file)[i] = file[i]
        /\ Loses \/ \E x \in Chunks : Tears(x)
        /\ handle' = [s \in Session |-> Closed]
        /\ UNCHANGED <<asMd, written, opened, before>>
    BY <1>1, CrashedFile
  <1>3. /\ faults \subseteq faults' /\ faults' \subseteq FaultKind
        /\ "edit" \notin faults' <=> "edit" \notin faults
    BY <1>1, <1>2 DEF Types, Loses, Tears, Strike
  <1> HIDE DEF n
  <1>4. /\ file' \in Seq(Chunks)
        /\ \A i \in 1..Len(file') :
             /\ i \in 1..n /\ file'[i].payload = file[i].payload /\ file'[i].cycle = file[i].cycle
             /\ file'[i].chain = file[i].chain /\ (file'[i].heading => file[i].heading)
             /\ file'[i].cut = file[i].cut \/ "torn" \in faults'
    <2>1. CASE Loses
      <3>1. file' = Front(file)
        BY <2>1 DEF Loses
      <3>2. \A i \in 1..(n - 1) : i \in 1..n
        BY <1>2
      <3> QED
        BY <1>2, <3>1, <3>2
    <2>2. CASE \E x \in Chunks : Tears(x)
      <3>1. PICK x \in Chunks : Tears(x)
        BY <2>2
      <3>2. /\ Part(x, Last(file))
            /\ file' \in Seq(Chunks) /\ Len(file') = n /\ file'[n] = x
            /\ \A i \in 1..(n - 1) : file'[i] = file[i]
            /\ "torn" \in faults'
        BY <1>1, <3>1, WhatIsTorn DEF n
      <3>3. /\ x.payload = file[n].payload /\ x.cycle = file[n].cycle
            /\ x.chain = file[n].chain /\ (x.heading => file[n].heading)
        BY <1>2, <3>2 DEF Part
      <3>4. \A i \in 1..n : i = n \/ i \in 1..(n - 1)
        BY <1>2
      <3> QED
        BY <3>2, <3>3, <3>4
    <2> QED
      BY <1>2, <2>1, <2>2
  <1>5. \A t \in Session : handle'[t] = Closed
    BY <1>2
  <1>6. handle' \in [Session -> Handles]
    BY <1>2, ClosedHandle
  <1>7. Types'
    BY <1>1, <1>2, <1>3, <1>4, <1>6 DEF Types
  <1>8. Numbered'
    <2>1. \A i \in 1..n : file[i].payload <= written /\ file[i].cycle <= written
      BY <1>1 DEF Numbered, n
    <2>2. \A i \in 1..Len(file') : file'[i].payload <= written /\ file'[i].cycle <= written
      BY <1>4, <2>1
    <2>3. written \in Nat /\ before.written <= written
      BY <1>1, TrailAssumption DEF Types, Numbered
    <2>4. \A t \in Session : handle'[t].cycleNo <= written
      BY <1>5, <2>3, ClosedHandle
    <2>5. \A t \in Session : handle'[t].begun => handle'[t].cycleNo # 0
      BY <1>5, ClosedHandle
    <2> QED
      BY <1>2, <2>2, <2>3, <2>4, <2>5 DEF Numbered
  <1>9. OpenOnce'
    BY <1>5, ClosedHandle DEF OpenOnce
  <1>10. AllWhole'
    <2> SUFFICES ASSUME "torn" \notin faults', "failed" \notin faults', NEW i \in 1..Len(file')
                 PROVE  file'[i].cut = "whole"
      BY DEF AllWhole, Spared
    <2>1. \A j \in 1..n : file[j].cut = "whole"
      BY <1>3 DEF Basics, AllWhole, Spared, n
    <2> QED
      BY <1>4, <2>1
  <1>11. Headed'
    BY <1>5, ClosedHandle DEF Headed
  <1>12. Plain'
    BY <1>1, <1>2, <1>4 DEF Plain, n
  <1>13. Unforged'
    <2> SUFFICES ASSUME "edit" \notin faults'
                 PROVE  /\ \A i \in 1..Len(file') : file'[i].chain # genesis
                        /\ \A i, j \in 1..Len(file') : i < j => file'[i].payload < file'[j].payload
      BY DEF Unforged, Spared, Serial, genesis
    <2>1. /\ \A i \in 1..n : file[i].chain # genesis
          /\ \A i, j \in 1..n : i < j => file[i].payload < file[j].payload
      BY <1>3 DEF Basics, Unforged, Spared, Serial, n
    <2> QED
      BY <1>4, <2>1
  <1> QED
    BY <1>7, <1>8, <1>9, <1>10, <1>11, <1>12, <1>13 DEF Basics

(* The history of an edit. *)
LEMMA EditsType ==
  ASSUME Types, Plain, Edit
  PROVE  before' \in Edits /\ before'.written <= written
  <1>1. written \in 0..MaxRecords /\ written \in Nat /\ file \in Seq(Chunks)
    BY TrailAssumption DEF Types
  <1>2. before' = IF VerifyTrail(file)
                  THEN [verified |-> TRUE, read |-> payloads(chainLinks(file)),
                        written |-> written]
                  ELSE Unedited
    BY Edited
  <1>3. payloads(chainLinks(file)) \in Seq(Nat)
    <2>1. chainLinks(file) \in Seq(Chunks) /\ Len(chainLinks(file)) \in Nat
      BY <1>1, LinksType
    <2>2. \A i \in 1..Len(chainLinks(file)) : chainLinks(file)[i].payload \in Nat
      <3>1. \A i \in 1..Len(chainLinks(file)) : chainLinks(file)[i] \in Chunks
        BY <2>1, LenProperties
      <3> QED
        BY <3>1 DEF Chunks
    <2> QED
      BY <2>1, <2>2, IsASeq DEF payloads
  <1>4. CASE VerifyTrail(file)
    <2> DEFINE b == [verified |-> TRUE, read |-> payloads(chainLinks(file)), written |-> written]
    <2>1. b \in Edits /\ b.written <= written
      BY <1>1, <1>3 DEF Edits
    <2> QED
      BY <1>2, <1>4, <2>1
  <1>5. CASE ~VerifyTrail(file)
    <2>1. Unedited \in Edits /\ Unedited.written <= written
      BY <1>1, TrailAssumption, EmptySeq DEF Edits, Unedited
    <2> QED
      BY <1>2, <1>5, <2>1
  <1> QED
    BY <1>4, <1>5

LEMMA EditStep ==
  ASSUME Basics, Edit
  PROVE  Basics'
  <1>1. Types /\ Numbered /\ Plain
    BY DEF Basics
  <1>2. /\ EditOf(file', file) /\ faults' = faults \cup {"edit"} /\ "edit" \in FaultKind
        /\ UNCHANGED <<asMd, handle, written, opened>>
    BY <1>1, Edited
  <1>3. before' \in Edits /\ before'.written <= written
    BY <1>1, EditsType
  <1>4. /\ file' \in Seq(Chunks)
        /\ \A j \in 1..Len(file') : \E i \in 1..Len(file) :
             /\ file'[j].cut = file[i].cut /\ file'[j].heading = file[i].heading
             /\ file'[j].payload \in {0, file[i].payload}
             /\ file'[j].cycle = file[i].cycle \/ (file'[j].cycle >= 1 /\ file'[j].cycle <= written)
    BY <1>2 DEF EditOf, ComesFrom
  <1>5. Types'
    BY <1>1, <1>2, <1>3, <1>4 DEF Types
  <1>6. Numbered'
    <2>1. \A i \in 1..Len(file) : file[i].payload <= written /\ file[i].cycle <= written
      BY <1>1 DEF Numbered
    <2>2. written \in Nat
      BY <1>1, TrailAssumption DEF Types
    <2>3. \A j \in 1..Len(file') : file'[j].payload <= written /\ file'[j].cycle <= written
      BY <1>4, <2>1, <2>2
    <2>4. \A t \in Session : handle[t].cycleNo <= written
      BY <1>1 DEF Numbered
    <2>5. \A t \in Session : handle[t].begun => handle[t].cycleNo # 0
      BY <1>1 DEF Numbered
    <2> QED
      BY <1>2, <1>3, <2>3, <2>4, <2>5 DEF Numbered
  <1>7. OpenOnce'
    BY <1>2 DEF Basics, OpenOnce, Spared
  <1>8. AllWhole'
    <2> SUFFICES ASSUME "torn" \notin faults', "failed" \notin faults', NEW i \in 1..Len(file')
                 PROVE  file'[i].cut = "whole"
      BY DEF AllWhole, Spared
    <2>1. \A j \in 1..Len(file) : file[j].cut = "whole"
      BY <1>2 DEF Basics, AllWhole, Spared
    <2> QED
      BY <1>4, <2>1
  <1>9. Headed'
    BY <1>2 DEF Basics, Headed
  <1>10. Plain'
    BY <1>1, <1>2, <1>4 DEF Plain
  <1>11. Unforged'
    BY <1>2 DEF Unforged, Spared
  <1> QED
    BY <1>5, <1>6, <1>7, <1>8, <1>9, <1>10, <1>11 DEF Basics

LEMMA BasicsStep ==
  ASSUME Basics, TrailNext
  PROVE  Basics'
  BY StepCases, OpenStep, CloseStep, WriteStep, CrashStep, EditStep

------------------------------------------------------------------------------
(* The chain continues *)

(* The invariant of the chain, where its faults have not struck. *)
LinksKept ==
  /\ Chained(chainLinks(file))
  /\ \A i \in 1..Len(file) : file[i].cut # "half" => readable(file, i)
  /\ \A s \in Session : handle[s].open =>
       /\ handle[s].tip = TipOf(chainLinks(file))
       /\ EndsWhole(file) \/ (asMd /\ ~handle[s].begun)

ChainFaults == Spared({"edit", "failed", "overlap"}) /\ (asMd \/ Spared({"torn"}))

LEMMA ChainStep ==
  ASSUME Basics, ChainIntact, TrailNext
  PROVE  ChainIntact'
  <1> SUFFICES ASSUME ChainFaults'
               PROVE  LinksKept'
    BY DEF ChainIntact, ChainFaults, LinksKept
  <1>1. asMd' = asMd /\ faults \subseteq faults'
    BY StepFaults
  <1>2. ChainFaults
    BY <1>1 DEF ChainFaults, Spared
  <1>3. LinksKept
    BY <1>2 DEF ChainIntact, ChainFaults, LinksKept
  <1>4. /\ "edit" \notin faults' /\ "failed" \notin faults' /\ "overlap" \notin faults'
        /\ asMd \/ "torn" \notin faults'
    BY <1>1 DEF ChainFaults, Spared
  <1>5. file \in Seq(Chunks) /\ Types /\ Numbered /\ Headed
    BY DEF Basics, Types
  <1>6. chainLinks(file) \in Seq(Chunks)
    BY <1>5, LinksType
  <1>7. \A s, t \in Session : handle[s].open /\ handle[t].open => s = t
    BY <1>1, <1>4 DEF Basics, OpenOnce, Spared
  <1>8. asMd \/ (EndsWhole(file) /\ \A i \in 1..Len(file) : file[i].cut = "whole")
    <2>1. CASE ~asMd
      <3>1. \A i \in 1..Len(file) : file[i].cut = "whole"
        BY <1>1, <1>4, <2>1 DEF Basics, AllWhole, Spared
      <3> QED
        BY <1>5, <3>1, AllRead
    <2> QED
      BY <2>1
  <1>9. /\ chainLinks(file)' = chainLinks(file')
        /\ \A i : readable(file, i)' <=> readable(file', i)
    BY <1>1, NextRead
  <1> DEFINE Kept ==
        /\ Chained(chainLinks(file'))
        /\ \A i \in 1..Len(file') : file'[i].cut # "half" => readable(file', i)
        /\ \A t \in Session : handle'[t].open =>
             /\ handle'[t].tip = TipOf(chainLinks(file'))
             /\ EndsWhole(file') \/ (asMd /\ ~handle'[t].begun)
  <1> SUFFICES Kept
    BY <1>1, <1>9 DEF LinksKept, EndsWhole, Chained, TipOf
  <1>16. \A i \in 1..Len(file) : file[i].chain # genesis
    BY <1>1, <1>4 DEF Basics, Unforged, Spared, Serial
  <1>17. \A i \in 1..Len(file) : file[i].cut # "half" => readable(file, i)
    BY <1>3 DEF LinksKept
  <1>10. ASSUME NEW s \in Session, OpenTrailFile(s)
         PROVE  Kept
    <2>1. /\ \A t \in Session : t # s => handle'[t] = handle[t]
          /\ ~handle'[s].begun /\ handle'[s].tip = resumeTip(file)
      BY <1>5, <1>10, OpenedHandle
    <2>2. file' = file
      BY <1>10 DEF OpenTrailFile
    <2>3. \A i \in 1..Len(file) : hasHash(file, i) <=> i \in Linked(file)
      <3>1. \A i \in 1..Len(file) : readable(file, i) => file[i].cut # "half"
        BY DEF readable
      <3> QED
        BY <1>16, <1>17, <3>1 DEF hasHash, Linked
    <2>4. resumeTip(file) = TipOf(chainLinks(file))
      BY <1>5, <2>3, ResumedTip
    <2> QED
      BY <1>3, <1>8, <2>1, <2>2, <2>4 DEF LinksKept
  <1>11. ASSUME NEW s \in Session, Close(s)
         PROVE  Kept
    <2>1. /\ file' = file /\ handle'[s] = Closed
          /\ \A t \in Session : t # s => handle'[t] = handle[t]
      BY <1>11 DEF Close, Types, Basics
    <2> QED
      BY <1>3, <2>1, ClosedHandle DEF LinksKept
  <1>12. ASSUME NEW s \in Session, NEW c \in CyclesFor(s), WriteRecord(s, c)
         PROVE  Kept
    <2> DEFINE r == Chunk(s, c)
               l == chainLinks(file)
               n == Len(file)
    <2>1. /\ r \in Chunks /\ r.cut = "whole" /\ r.payload = written + 1
          /\ r.chain = chainLink(handle[s].tip, written + 1) /\ r.chain # genesis
          /\ r.heading <=> asMd /\ c = handle[s].cycleNo + 1
          /\ c = handle[s].cycleNo + 1 \/ (c = handle[s].cycleNo /\ handle[s].begun)
      BY <1>5, ChunkWritten
    <2>2. handle[s].open /\ Advance(s, c) /\ file' = Append(file, r)
      <3>1. handle[s].open /\ Advance(s, c) /\ (Fails \/ \E x \in Chunks : Puts(s, c, x))
        BY <1>5, <1>12, WrittenFile
      <3> QED
        BY <1>4, <3>1 DEF Fails, Puts, Strike
    <2>3. handle[s].tip = TipOf(l) /\ (EndsWhole(file) \/ (asMd /\ ~handle[s].begun)) /\ Chained(l)
      BY <1>3, <2>2 DEF LinksKept
    <2>4. /\ \A t \in Session : t # s => handle'[t] = handle[t]
          /\ handle'[s].tip = r.chain
      BY <1>5, <2>1, <2>2, Advanced
    <2> HIDE DEF r
    <2>5. EndsWhole(file) \/ r.heading
      BY <2>1, <2>3
    <2>6. chainLinks(file') = Append(l, r)
      BY <1>5, <1>8, <2>1, <2>2, <2>5, LinksOfAppend
    <2>7. l \in Seq(Chunks)
      BY <1>6
    <2> HIDE DEF l
    <2>8. Chained(chainLinks(file')) /\ TipOf(chainLinks(file')) = r.chain
      BY <2>1, <2>3, <2>6, <2>7, ChainedAppend
    <2>9. /\ Len(file') = n + 1 /\ file'[n + 1] = r /\ n \in Nat
          /\ \A i \in 1..n : file'[i] = file[i]
          /\ file' \in Seq(Chunks)
      BY <1>5, <2>1, <2>2, AppendProperties, LenProperties
    <2>10. EndsWhole(file')
      BY <2>1, <2>9 DEF EndsWhole
    <2>11. ASSUME NEW i \in 1..Len(file'), file'[i].cut # "half" PROVE readable(file', i)
      <3>1. CASE i = n + 1
        BY <1>5, <2>1, <2>2, <2>5, <3>1, ReadableOfAppend
      <3>2. CASE i \in 1..n
        <4>1. readable(file, i)
          BY <1>17, <2>9, <2>11, <3>2
        <4> QED
          BY <1>5, <1>8, <2>1, <2>2, <3>2, <4>1, ReadableOfAppend
      <3> QED
        BY <2>9, <3>1, <3>2
    <2>12. \A t \in Session : handle'[t].open => t = s
      BY <1>7, <2>2, <2>4
    <2> QED
      BY <2>4, <2>8, <2>10, <2>11, <2>12
  <1>13. CASE Crash
    <2> DEFINE f == Front(file)
               r == Last(file)
               n == Len(file)
               l == chainLinks(f)
    <2>1. /\ r \in Chunks /\ f \in Seq(Chunks) /\ n \in Nat \ {0} /\ r = file[n]
          /\ Len(f) = n - 1 /\ \A i \in 1..(n - 1) : f[i] = file[i]
          /\ file = Append(f, r) /\ l \in Seq(Chunks)
          /\ handle' = [s \in Session |-> Closed]
      BY <1>5, <1>13, CrashedFile, LinksType
    <2>2. Loses \/ \E x \in Chunks : Tears(x)
      BY <1>5, <1>13, CrashedFile
    <2>3. /\ Loses => file' = f
          /\ \A x \in Chunks : Tears(x) => file' = Append(f, x) /\ Part(x, r) /\ "torn" \in faults'
      BY DEF Loses, Tears, Strike
    <2>4. \A s \in Session : ~handle'[s].open
      BY <2>1, ClosedHandle
    <2>5. n \in 1..n /\ r.chain # genesis /\ (r.cut # "half" => readable(file, n))
      BY <1>16, <1>17, <2>1
    <2> HIDE DEF f, r, l
    <2>6. asMd \/ EndsWhole(f)
      <3>1. ~asMd => \A i \in 1..Len(f) : f[i].cut = "whole"
        <4>1. \A i \in 1..Len(f) : i \in 1..n
          BY <2>1
        <4> QED
          BY <1>8, <2>1, <4>1
      <3> QED
        BY <2>1, <3>1, AllRead
    <2>7. chainLinks(file) = IF r.cut # "half" /\ (EndsWhole(f) \/ r.heading)
                             THEN Append(l, r) ELSE l
      BY <2>1, <2>5, <2>6, LinksOfAppend DEF l
    <2>8. Chained(chainLinks(file))
      BY <1>3 DEF LinksKept
    <2>9. /\ Chained(l)
          /\ r.cut # "half" /\ (EndsWhole(f) \/ r.heading) => r.chain = chainLink(TipOf(l), r.payload)
      BY <2>1, <2>7, <2>8, ChainedAppend
    <2>10. ASSUME NEW i \in 1..Len(f), f[i].cut # "half" PROVE readable(f, i)
      <3>1. i \in 1..n /\ file[i] = f[i]
        BY <2>1
      <3>2. readable(file, i)
        BY <1>17, <2>10, <3>1
      <3> QED
        BY <2>1, <3>2, ReadableOfAppend
    <2>11. CASE Loses
      BY <2>3, <2>4, <2>9, <2>10, <2>11 DEF l
    <2>12. CASE \E x \in Chunks : Tears(x)
      <3>1. PICK x \in Chunks : Tears(x)
        BY <2>12
      <3>2. /\ file' = Append(f, x) /\ asMd
            /\ x.payload = r.payload /\ x.chain = r.chain
            /\ x.cut # "half" => r.cut # "half" /\ x.heading = r.heading
        BY <1>1, <1>4, <2>3, <3>1 DEF Part
      <3>3. chainLinks(file') = IF x.cut # "half" /\ (EndsWhole(f) \/ x.heading)
                                THEN Append(l, x) ELSE l
        BY <2>1, <2>5, <2>6, <3>2, LinksOfAppend DEF l
      <3>4. Chained(chainLinks(file'))
        <4>1. CASE x.cut # "half" /\ (EndsWhole(f) \/ x.heading)
          <5>1. x.chain = chainLink(TipOf(l), x.payload)
            BY <2>9, <3>2, <4>1
          <5> QED
            BY <2>1, <2>9, <3>3, <4>1, <5>1, ChainedAppend
        <4> QED
          BY <2>9, <3>3, <4>1
      <3>5. Len(file') = Len(f) + 1 /\ Len(f) \in Nat /\ file'[Len(f) + 1] = x
            /\ \A i \in 1..Len(f) : file'[i] = f[i]
        BY <2>1, <3>2, AppendProperties, LenProperties
      <3>6. ASSUME NEW i \in 1..Len(file'), file'[i].cut # "half" PROVE readable(file', i)
        <4>1. CASE i = Len(f) + 1
          <5>1. x.cut # "half" /\ r.cut # "half" /\ x.heading = r.heading
            BY <3>2, <3>5, <3>6, <4>1
          <5>2. n = Len(f) + 1
            BY <2>1
          <5>3. EndsWhole(f) \/ r.heading
            BY <2>1, <2>5, <5>1, <5>2, ReadableOfAppend
          <5> QED
            BY <2>1, <3>2, <4>1, <5>1, <5>3, ReadableOfAppend
        <4>2. CASE i \in 1..Len(f)
          <5>1. readable(f, i)
            BY <2>10, <3>5, <3>6, <4>2
          <5> QED
            BY <2>1, <3>2, <4>2, <5>1, ReadableOfAppend
        <4> QED
          BY <3>5, <4>1, <4>2
      <3> QED
        BY <2>4, <3>4, <3>6
    <2> QED
      BY <2>2, <2>11, <2>12
  <1>14. CASE Edit
    <2>1. "edit" \in faults'
      BY <1>14 DEF Edit, Strike
    <2> QED
      BY <1>4, <2>1
  <1> QED
    BY <1>10, <1>11, <1>12, <1>13, <1>14, StepCases

------------------------------------------------------------------------------
(* The hashes agree *)

LEMMA AgreeFewer ==
  ASSUME NEW H, NEW G, G \subseteq H, NEW n \in Nat, NEW m \in Nat, n <= m, AllAgree(H, n)
  PROVE  AllAgree(G, m)
  <1>1. ASSUME NEW c \in G, NEW i \in 1..Len(c) PROVE 1 <= c[i] /\ c[i] <= m
    <2>1. c \in Seq(Nat) /\ 1 <= c[i] /\ c[i] <= n
      BY DEF AllAgree
    <2>2. c[i] \in Nat
      BY <2>1, LenProperties
    <2> QED
      BY <2>1, <2>2
  <1>2. /\ \A c \in G : c \in Seq(Nat)
        /\ \A c, d \in G : Agree(c, d)
    BY DEF AllAgree
  <1> QED
    BY <1>1, <1>2 DEF AllAgree

(* One of them is continued by a record there was not before.               *)
LEMMA AgreeContinued ==
  ASSUME NEW H, NEW n \in Nat, AllAgree(H, n), NEW h \in H
  PROVE  AllAgree(H \cup {Append(h, n + 1)}, n + 1)
  <1> DEFINE e == Append(h, n + 1)
             m == Len(h)
  <1>1. /\ \A c \in H : c \in Seq(Nat) /\ \A i \in 1..Len(c) : 1 <= c[i] /\ c[i] <= n
        /\ \A c, d \in H : Agree(c, d)
    BY DEF AllAgree
  <1>2. \A c \in H : \A i \in 1..Len(c) : c[i] \in Nat
    <2>1. \A c \in H : c \in Seq(Nat)
      BY <1>1
    <2> QED
      BY <2>1, LenProperties
  <1>3. /\ e \in Seq(Nat) /\ m \in Nat /\ Len(e) = m + 1 /\ e[m + 1] = n + 1
        /\ \A i \in 1..m : e[i] = h[i]
    BY <1>1, AppendProperties, LenProperties
  <1> HIDE DEF e, m
  <1>4. \A i \in 1..(m + 1) : i \in 1..m \/ i = m + 1
    BY <1>3
  <1>5. \A c \in H : \A i \in 1..Len(c) : c[i] # n + 1 /\ 1 <= c[i] /\ c[i] <= n + 1
    BY <1>1, <1>2
  <1>6. \A i \in 1..m : h[i] # n + 1 /\ 1 <= h[i] /\ h[i] <= n + 1
    BY <1>5 DEF m
  <1>7. \A i \in 1..(m + 1) : 1 <= e[i] /\ e[i] <= n + 1
    BY <1>3, <1>4, <1>6
  <1>8. ASSUME NEW d \in H PROVE Agree(e, d) /\ Agree(d, e)
    <2>1. Agree(h, d) /\ Agree(d, h)
      BY <1>1
    <2>2. ASSUME NEW i \in 1..(m + 1), NEW j \in 1..Len(d), e[i] = d[j]
          PROVE  i = j /\ \A k \in 1..i : e[k] = d[k]
      <3>1. i \in 1..m /\ e[i] = h[i]
        BY <1>3, <1>4, <1>5, <2>2
      <3>2. i = j /\ \A k \in 1..i : h[k] = d[k]
        BY <2>1, <2>2, <3>1 DEF Agree, m
      <3>3. \A k \in 1..i : k \in 1..m
        BY <1>3, <3>1
      <3> QED
        BY <1>3, <3>2, <3>3
    <2> QED
      BY <1>3, <2>2 DEF Agree
  <1>9. Agree(e, e)
    <2> SUFFICES ASSUME NEW i \in 1..(m + 1), NEW j \in 1..(m + 1), e[i] = e[j]
                 PROVE  i = j
      BY <1>3 DEF Agree
    <2>1. CASE i \in 1..m /\ j \in 1..m
      <3>1. h[i] = h[j] /\ Agree(h, h)
        BY <1>1, <1>3, <2>1
      <3> QED
        BY <2>1, <3>1 DEF Agree, m
    <2>2. CASE i = m + 1 \/ j = m + 1
      BY <1>3, <1>4, <1>6, <2>2
    <2> QED
      BY <1>4, <2>1, <2>2
  <1>10. AllAgree(H \cup {e}, n + 1)
    <2>1. ASSUME NEW c \in H \cup {e}
          PROVE  c \in Seq(Nat) /\ \A i \in 1..Len(c) : 1 <= c[i] /\ c[i] <= n + 1
      BY <1>1, <1>3, <1>5, <1>7
    <2>2. ASSUME NEW c \in H \cup {e}, NEW d \in H \cup {e} PROVE Agree(c, d)
      BY <1>1, <1>8, <1>9
    <2> QED
      BY <2>1, <2>2 DEF AllAgree
  <1> QED
    BY <1>10 DEF e

(* In a chain the hash of a link is taken over the payloads up to it.       *)
LEMMA ChainOfPayloads ==
  ASSUME NEW links \in Seq(Chunks), Chained(links)
  PROVE  /\ payloads(links) \in Seq(Nat) /\ Len(payloads(links)) = Len(links)
         /\ \A k \in 1..Len(links) : payloads(links)[k] = links[k].payload
         /\ links # <<>> => payloads(links) = links[Len(links)].chain
  <1> DEFINE n == Len(links)
             Over(i) == /\ Len(links[i].chain) = i
                        /\ \A k \in 1..i : links[i].chain[k] = links[k].payload
             S == {m \in Nat : m + 1 <= n => Over(m + 1)}
  <1>1. n \in Nat /\ \A i \in 1..n : links[i] \in Chunks
    BY LenProperties
  <1>2. \A i \in 1..n : links[i].payload \in Nat /\ links[i].chain \in Seq(Nat)
    BY <1>1 DEF Chunks
  <1>3. \A i \in 1..n : links[i].chain = Append(IF i = 1 THEN <<>> ELSE links[i - 1].chain,
                                                links[i].payload)
    BY DEF Chained, chainLink, genesis
  <1>4. 0 \in S
    <2> SUFFICES ASSUME 1 <= n PROVE Over(1)
      OBVIOUS
    <2>1. 1 \in 1..n /\ <<>> \in Seq(Nat) /\ Len(<<>>) = 0
      BY <1>1, EmptySeq
    <2>2. links[1].chain = Append(<<>>, links[1].payload)
      BY <1>3, <2>1
    <2>3. Len(links[1].chain) = 1 /\ links[1].chain[1] = links[1].payload
      BY <1>2, <2>1, <2>2, AppendProperties
    <2> QED
      BY <2>3
  <1>5. ASSUME NEW m \in Nat, m \in S PROVE m + 1 \in S
    <2> SUFFICES ASSUME (m + 1) + 1 <= n PROVE Over((m + 1) + 1)
      OBVIOUS
    <2> DEFINE i == m + 1
               c == links[i].chain
    <2>1. i \in 1..n /\ i + 1 \in 1..n /\ i + 1 # 1 /\ (i + 1) - 1 = i /\ i \in Nat /\ m + 1 <= n
      BY <1>1
    <2>2. Over(i)
      BY <1>5, <2>1
    <2>3. links[i + 1].chain = Append(c, links[i + 1].payload)
      BY <1>3, <2>1
    <2>4. c \in Seq(Nat) /\ links[i + 1].payload \in Nat /\ Len(c) = i
          /\ \A k \in 1..i : c[k] = links[k].payload
      BY <1>2, <2>1, <2>2
    <2> HIDE DEF c, i, Over
    <2>5. /\ Len(links[i + 1].chain) = i + 1
          /\ links[i + 1].chain[i + 1] = links[i + 1].payload
          /\ \A k \in 1..i : links[i + 1].chain[k] = c[k]
      BY <2>3, <2>4, AppendProperties
    <2>6. \A k \in 1..(i + 1) : k \in 1..i \/ k = i + 1
      BY <2>1
    <2>7. Over(i + 1)
      BY <2>4, <2>5, <2>6 DEF Over
    <2> QED
      BY <2>7 DEF i
  <1> DEFINE q == payloads(links)
  <1>6. /\ q \in Seq(Nat) /\ Len(q) = n
        /\ \A k \in 1..n : q[k] = links[k].payload
    <2>1. q = [k \in 1..n |-> links[k].payload]
      BY DEF payloads
    <2> HIDE DEF q
    <2> QED
      BY <1>1, <1>2, <2>1, IsASeq
  <1>7. ASSUME links # <<>> PROVE q = links[n].chain
    <2>1. n - 1 \in Nat /\ (n - 1) + 1 = n /\ n \in 1..n
      BY <1>1, <1>7, EmptySeq
    <2> HIDE DEF Over
    <2>2. \A m \in Nat : m \in S => m + 1 \in S
      BY <1>5
    <2>3. n - 1 \in S
      <3> HIDE DEF S
      <3>1. Nat \subseteq S
        BY <1>4, <2>2, SetInduction
      <3> QED
        BY <2>1, <3>1
    <2>4. Over(n)
      BY <2>1, <2>3
    <2>5. Len(links[n].chain) = n /\ \A k \in 1..n : links[n].chain[k] = links[k].payload
      BY <2>4 DEF Over
    <2>6. links[n].chain \in Seq(Nat)
      BY <1>2, <2>1
    <2> DEFINE c == links[n].chain
    <2>7. c \in Seq(Nat) /\ Len(c) = n /\ \A k \in 1..n : c[k] = links[k].payload
      BY <2>5, <2>6
    <2> HIDE DEF q, n, c
    <2>8. Len(q) = Len(c) /\ \A k \in 1..Len(q) : q[k] = c[k]
      BY <1>6, <2>7
    <2>9. q = c
      BY <1>6, <2>7, <2>8, SeqEqual
    <2> QED
      BY <2>9 DEF c
  <1> QED
    BY <1>6, <1>7

LEMMA HashesStep ==
  ASSUME Basics, HashesAgree, TrailNext
  PROVE  HashesAgree'
  <1>1. /\ Types /\ Numbered /\ Headed /\ Plain
        /\ file \in Seq(Chunks) /\ handle \in [Session -> Handles] /\ written \in Nat
    BY TrailAssumption DEF Basics, Types
  <1>2. Hashes' = {genesis, before'.read} \cup {file'[i].chain : i \in 1..Len(file')}
                                         \cup {handle'[s].tip : s \in Session}
    BY DEF Hashes, genesis
  <1>3. AllAgree(Hashes, written)
    BY DEF HashesAgree
  <1>4. /\ genesis \in Hashes /\ before.read \in Hashes
        /\ \A i \in 1..Len(file) : file[i].chain \in Hashes
        /\ \A s \in Session : handle[s].tip \in Hashes
    BY DEF Hashes
  <1>5. ASSUME written' = written, before'.read \in Hashes,
               \A i \in 1..Len(file') : file'[i].chain \in Hashes,
               \A s \in Session : handle'[s].tip \in Hashes
        PROVE  HashesAgree'
    <2> DEFINE G == Hashes'
    <2>1. G \subseteq Hashes
      BY <1>2, <1>4, <1>5
    <2> HIDE DEF G
    <2>2. AllAgree(G, written)
      BY <1>1, <1>3, <2>1, AgreeFewer
    <2> QED
      BY <1>5, <2>2 DEF HashesAgree, G, AllAgree, Agree
  <1>6. ASSUME NEW s \in Session, OpenTrailFile(s) PROVE HashesAgree'
    <2>1. /\ \A t \in Session : t # s => handle'[t] = handle[t]
          /\ handle'[s].tip = resumeTip(file)
      BY <1>1, <1>6, OpenedHandle
    <2>2. resumeTip(file) \in Hashes
      BY <1>1, <1>4, ResumedTip
    <2>3. UNCHANGED <<file, written, before>>
      BY <1>6 DEF OpenTrailFile
    <2>4. \A t \in Session : handle'[t].tip \in Hashes
      BY <1>4, <2>1, <2>2
    <2> QED
      BY <1>4, <1>5, <2>3, <2>4
  <1>7. ASSUME NEW s \in Session, Close(s) PROVE HashesAgree'
    <2>1. /\ \A t \in Session : t # s => handle'[t] = handle[t]
          /\ handle'[s] = Closed /\ UNCHANGED <<file, written, before>>
      BY <1>1, <1>7 DEF Close
    <2>2. \A t \in Session : handle'[t].tip \in Hashes
      BY <1>4, <2>1, ClosedHandle
    <2> QED
      BY <1>4, <1>5, <2>1, <2>2
  <1>8. ASSUME NEW s \in Session, NEW c \in CyclesFor(s), WriteRecord(s, c) PROVE HashesAgree'
    <2> DEFINE e == Append(handle[s].tip, written + 1)
               G == Hashes'
    <2>1. /\ Advance(s, c) /\ written' = written + 1 /\ before' = before
          /\ Fails \/ \E x \in Chunks : Puts(s, c, x)
      BY <1>1, <1>8, WrittenFile
    <2>2. /\ \A t \in Session : t # s => handle'[t] = handle[t]
          /\ handle'[s].tip = e
      BY <1>1, <2>1, Advanced DEF chainLink
    <2>3. \A i \in 1..Len(file') : file'[i].chain \in Hashes \cup {e}
      <3>1. CASE Fails
        BY <1>4, <3>1 DEF Fails
      <3>2. CASE \E x \in Chunks : Puts(s, c, x)
        <4>1. PICK x \in Chunks : Puts(s, c, x)
          BY <3>2
        <4>2. /\ x.chain = e
              /\ Len(file') = Len(file) + 1 /\ file'[Len(file) + 1] = x /\ Len(file) \in Nat
              /\ \A i \in 1..Len(file) : file'[i] = file[i]
          BY <1>1, <4>1, WhatIsPut DEF chainLink
        <4>3. \A i \in 1..Len(file') : i \in 1..Len(file) \/ i = Len(file) + 1
          BY <4>2
        <4> QED
          BY <1>4, <4>2, <4>3
      <3> QED
        BY <2>1, <3>1, <3>2
    <2>4. \A t \in Session : handle'[t].tip \in Hashes \cup {e}
      BY <1>4, <2>2
    <2>5. handle[s].tip \in Hashes
      BY <1>4
    <2>6. AllAgree(Hashes \cup {e}, written + 1)
      BY <1>1, <1>3, <2>5, AgreeContinued
    <2> HIDE DEF e
    <2>7. G \subseteq Hashes \cup {e}
      BY <1>2, <1>4, <2>1, <2>3, <2>4
    <2> HIDE DEF G
    <2>8. AllAgree(G, written + 1)
      BY <1>1, <2>6, <2>7, AgreeFewer
    <2> QED
      BY <2>1, <2>8 DEF HashesAgree, G, AllAgree, Agree
  <1>9. CASE Crash
    <2>1. /\ Len(file) \in Nat \ {0} /\ Last(file) = file[Len(file)]
          /\ Len(Front(file)) = Len(file) - 1
          /\ \A i \in 1..(Len(file) - 1) : Front(file)[i] = file[i]
          /\ Loses \/ \E x \in Chunks : Tears(x)
          /\ handle' = [s \in Session |-> Closed]
          /\ UNCHANGED <<written, before>>
      BY <1>1, <1>9, CrashedFile
    <2>2. \A s \in Session : handle'[s].tip \in Hashes
      BY <1>4, <2>1, ClosedHandle
    <2>3. \A i \in 1..Len(file') : file'[i].chain \in Hashes
      <3>1. CASE Loses
        <4>1. file' = Front(file) /\ \A i \in 1..(Len(file) - 1) : i \in 1..Len(file)
          BY <2>1, <3>1 DEF Loses
        <4> QED
          BY <1>4, <2>1, <4>1
      <3>2. CASE \E x \in Chunks : Tears(x)
        <4>1. PICK x \in Chunks : Tears(x)
          BY <3>2
        <4>2. /\ Part(x, Last(file))
              /\ Len(file') = Len(file) /\ file'[Len(file)] = x
              /\ \A i \in 1..(Len(file) - 1) : file'[i] = file[i]
          BY <1>1, <1>9, <4>1, WhatIsTorn
        <4>3. x.chain = file[Len(file)].chain /\ Len(file) \in 1..Len(file)
          BY <2>1, <4>2 DEF Part
        <4>4. \A i \in 1..Len(file') : i \in 1..Len(file) /\ (i = Len(file) \/ i \in 1..(Len(file) - 1))
          BY <2>1, <4>2
        <4> QED
          BY <1>4, <4>2, <4>3, <4>4
      <3> QED
        BY <2>1, <3>1, <3>2
    <2> QED
      BY <1>4, <1>5, <2>1, <2>2, <2>3
  <1>10. CASE Edit
    <2>1. /\ EditOf(file', file)
          /\ before' = IF VerifyTrail(file)
                       THEN [verified |-> TRUE, read |-> payloads(chainLinks(file)),
                             written |-> written]
                       ELSE Unedited
          /\ UNCHANGED <<handle, written>>
      BY <1>1, <1>10, Edited
    <2>2. \A i \in 1..Len(file') : file'[i].chain \in Hashes
      BY <1>4, <2>1 DEF EditOf, ComesFrom
    <2>3. before'.read \in Hashes
      <3>1. CASE VerifyTrail(file)
        <4> DEFINE links == chainLinks(file)
        <4>1. links # <<>> /\ Chained(links) /\ links \in Seq(Chunks)
          BY <1>1, <3>1, Verified, LinksType
        <4>2. PICK at : At(at, links, file, Linked(file))
          BY <1>1, LinesAt
        <4>3. before'.read = payloads(links)
          BY <2>1, <3>1
        <4> HIDE DEF links
        <4>4. payloads(links) = links[Len(links)].chain
          BY <4>1, ChainOfPayloads
        <4>5. Len(links) \in 1..Len(links)
          BY <4>1, LenProperties, EmptySeq
        <4>6. links[Len(links)] = file[at[Len(links)]] /\ at[Len(links)] \in 1..Len(file)
          BY <4>2, <4>5 DEF At
        <4> QED
          BY <1>4, <4>3, <4>4, <4>6
      <3>2. CASE ~VerifyTrail(file)
        BY <1>4, <2>1, <3>2 DEF Unedited, genesis
      <3> QED
        BY <3>1, <3>2
    <2> QED
      BY <1>4, <1>5, <2>1, <2>2, <2>3
  <1> QED
    BY <1>6, <1>7, <1>8, <1>9, <1>10, StepCases

------------------------------------------------------------------------------
(* What an edit left *)

(* What is torn can be read less.                                           *)
LEMMA TornReadable ==
  ASSUME NEW f \in Seq(Chunks), NEW x \in Chunks, NEW r \in Chunks, Part(x, r)
  PROVE  \A i \in 1..(Len(f) + 1) : readable(Append(f, x), i) => readable(Append(f, r), i)
  <1> DEFINE g == Append(f, x)
             h == Append(f, r)
             n == Len(f)
  <1>1. /\ n \in Nat /\ g \in Seq(Chunks) /\ h \in Seq(Chunks)
        /\ Len(g) = n + 1 /\ Len(h) = n + 1
        /\ \A i \in 1..n : g[i] = f[i] /\ h[i] = f[i]
    BY AppendProperties, LenProperties
  <1>2. readable(g, n + 1) => readable(h, n + 1)
    <2>1. x.cut # "half" => r.cut # "half" /\ x.heading = r.heading
      BY DEF Part
    <2> QED
      BY <2>1, ReadableOfAppend
  <1> HIDE DEF g, h, n
  <1>3. ASSUME NEW i \in 1..n, readable(g, i) PROVE readable(h, i)
    <2>1. /\ i \in 1..Len(g) /\ i \in 1..Len(h) /\ i # Len(g)
          /\ i = 1 \/ i - 1 \in 1..n
      BY <1>1
    <2>2. /\ g[i].cut # "half"
          /\ i = 1 \/ g[i - 1].cut = "whole" \/ g[i].heading
          /\ asMd \/ g[i].cut = "whole"
      BY <1>1, <1>3, <2>1, ReadableIs
    <2>3. g[i] = h[i] /\ (i = 1 \/ g[i - 1] = h[i - 1])
      BY <1>1, <2>1
    <2> QED
      BY <1>1, <2>1, <2>2, <2>3, ReadableIs
  <1>4. \A i \in 1..(n + 1) : i \in 1..n \/ i = n + 1
    BY <1>1
  <1> QED
    BY <1>2, <1>3, <1>4 DEF g, h, n

LEMMA EditKnownStep ==
  ASSUME Basics, EditKnown, TrailNext
  PROVE  EditKnown'
  <1> DEFINE KnownTo(b, p) == \/ p = 0
                              \/ p > b.written
                              \/ \E k \in 1..Len(b.read) : b.read[k] = p
  <1>1. asMd' = asMd /\ faults \subseteq faults'
    BY StepFaults
  <1>2. /\ Types /\ Numbered /\ Headed /\ Plain /\ Unforged
        /\ file \in Seq(Chunks) /\ Len(file) \in Nat /\ written \in Nat
    BY TrailAssumption, LenProperties DEF Basics, Types
  <1>3. EditKnown' <=>
          (before'.verified /\ "lost" \notin faults' =>
             \A i \in 1..Len(file') :
               readable(file', i) /\ file'[i].chain # genesis => KnownTo(before', file'[i].payload))
    <2>1. \A i : readable(file, i)' <=> readable(file', i)
      BY <1>1, NextRead
    <2> QED
      BY <2>1 DEF EditKnown, Known, Spared, genesis
  <1>4. before.verified /\ "lost" \notin faults =>
          \A i \in 1..Len(file) :
            readable(file, i) /\ file[i].chain # genesis => KnownTo(before, file[i].payload)
    BY DEF EditKnown, Known, Spared
  <1> SUFFICES ASSUME before'.verified, "lost" \notin faults', NEW i \in 1..Len(file'),
                      readable(file', i), file'[i].chain # genesis
               PROVE  KnownTo(before', file'[i].payload)
    BY <1>3
  <1> HIDE DEF KnownTo
  <1>5. ASSUME before' = before, NEW j \in 1..Len(file), readable(file, j),
               file'[i].chain = file[j].chain, file'[i].payload = file[j].payload
        PROVE  KnownTo(before', file'[i].payload)
    <2>1. before.verified /\ "lost" \notin faults
      BY <1>1, <1>5
    <2>2. KnownTo(before, file[j].payload)
      BY <1>4, <1>5, <2>1
    <2> QED
      BY <1>5, <2>2
  <1>6. CASE UNCHANGED <<file, before>>
    BY <1>5, <1>6
  <1>7. ASSUME NEW s \in Session, NEW c \in CyclesFor(s), WriteRecord(s, c)
        PROVE  KnownTo(before', file'[i].payload)
    <2>1. before' = before /\ (Fails \/ \E x \in Chunks : Puts(s, c, x))
      BY <1>2, <1>7, WrittenFile
    <2>2. CASE Fails
      BY <1>6, <2>1, <2>2 DEF Fails
    <2>3. CASE \E x \in Chunks : Puts(s, c, x)
      <3>1. PICK x \in Chunks : Puts(s, c, x)
        BY <2>3
      <3>2. /\ x.payload = written + 1 /\ file' = Append(file, x)
            /\ Len(file') = Len(file) + 1 /\ file'[Len(file) + 1] = x
            /\ \A j \in 1..Len(file) : file'[j] = file[j]
        BY <1>2, <3>1, WhatIsPut DEF Puts
      <3>3. CASE i = Len(file) + 1
        <4>1. before.written \in Nat /\ before.written <= written
          BY <1>2, TrailAssumption DEF Types, Edits, Numbered
        <4>2. file'[i].payload > before'.written
          BY <1>2, <2>1, <3>2, <3>3, <4>1
        <4> QED
          BY <4>2 DEF KnownTo
      <3>4. CASE i \in 1..Len(file)
        <4>1. readable(file, i)
          BY <1>2, <3>2, <3>4, ReadableOfAppend
        <4> QED
          BY <1>5, <2>1, <3>2, <3>4, <4>1
      <3> QED
        BY <1>2, <3>2, <3>3, <3>4
    <2> QED
      BY <2>1, <2>2, <2>3
  <1>8. CASE Crash
    <2>1. /\ Len(file) \in Nat \ {0} /\ Last(file) = file[Len(file)] /\ Last(file) \in Chunks
          /\ Front(file) \in Seq(Chunks) /\ Len(Front(file)) = Len(file) - 1
          /\ file = Append(Front(file), Last(file))
          /\ Loses \/ \E x \in Chunks : Tears(x)
          /\ before' = before
      BY <1>2, <1>8, CrashedFile
    <2>2. CASE Loses
      BY <2>2 DEF Loses, Strike
    <2>3. CASE \E x \in Chunks : Tears(x)
      <3>1. PICK x \in Chunks : Tears(x)
        BY <2>3
      <3>2. /\ Part(x, Last(file)) /\ file' = Append(Front(file), x)
            /\ Len(file') = Len(file) /\ file'[Len(file)] = x
            /\ \A j \in 1..(Len(file) - 1) : file'[j] = file[j]
        BY <1>2, <1>8, <3>1, WhatIsTorn DEF Tears
      <3>3. i \in 1..(Len(Front(file)) + 1) /\ i \in 1..Len(file)
            /\ (i = Len(file) \/ i \in 1..(Len(file) - 1))
        BY <2>1, <3>2
      <3> DEFINE f == Front(file)
                 r == Last(file)
      <3>4. f \in Seq(Chunks) /\ r \in Chunks /\ Part(x, r) /\ i \in 1..(Len(f) + 1)
            /\ file' = Append(f, x) /\ file = Append(f, r)
        BY <2>1, <3>2, <3>3
      <3> HIDE DEF f, r
      <3>5. readable(Append(f, x), i) => readable(Append(f, r), i)
        BY <3>4, TornReadable
      <3>6. readable(file, i)
        BY <3>4, <3>5
      <3>7. file'[i].chain = file[i].chain /\ file'[i].payload = file[i].payload
        BY <2>1, <3>2, <3>3 DEF Part
      <3> QED
        BY <1>5, <2>1, <3>3, <3>6, <3>7
    <2> QED
      BY <2>1, <2>2, <2>3
  <1>9. CASE Edit
    <2> DEFINE links == chainLinks(file)
               q == payloads(links)
    <2>1. /\ EditOf(file', file) /\ "edit" \notin faults
          /\ before' = IF VerifyTrail(file)
                       THEN [verified |-> TRUE, read |-> q, written |-> written]
                       ELSE Unedited
      BY <1>2, <1>9, Edited
    <2>2. links \in Seq(Chunks) /\ Len(links) \in Nat
      BY <1>2, LinksType
    <2>3. PICK at : At(at, links, file, Linked(file))
      BY <1>2, LinesAt
    <2>4. Len(q) = Len(links) /\ \A k \in 1..Len(links) : q[k] = links[k].payload
      <3>1. q = [k \in 1..Len(links) |-> links[k].payload]
        BY DEF payloads
      <3>2. \A k \in 1..Len(links) : links[k].payload \in Nat
        <4>1. \A k \in 1..Len(links) : links[k] \in Chunks
          BY <2>2, LenProperties
        <4> QED
          BY <4>1 DEF Chunks
      <3> HIDE DEF q, links
      <3> QED
        BY <2>2, <3>1, <3>2, IsASeq
    <2> HIDE DEF q, links
    <2>5. before'.read = q
      BY <2>1 DEF Unedited
    <2>6. PICK j \in 1..Len(file) : ComesFrom(file', i, file, j)
      BY <2>1 DEF EditOf
    <2>7. CASE file'[i].payload = 0
      BY <2>7 DEF KnownTo
    <2>8. CASE file'[i].payload = file[j].payload
      <3>1. readable(file, j)
        BY <2>6 DEF ComesFrom
      <3>2. file[j].chain # genesis
        BY <1>2, <2>1 DEF Unforged, Spared, Serial
      <3>3. j \in Linked(file)
        BY <3>1, <3>2 DEF Linked
      <3>4. PICK k \in 1..Len(links) : at[k] = j
        BY <2>3, <3>3 DEF At
      <3>5. q[k] = file[j].payload /\ k \in 1..Len(q)
        BY <2>3, <2>4, <3>4 DEF At
      <3> QED
        BY <2>5, <2>8, <3>5 DEF KnownTo
    <2> QED
      BY <2>6, <2>7, <2>8 DEF ComesFrom
  <1>10. ASSUME NEW s \in Session, OpenTrailFile(s) PROVE KnownTo(before', file'[i].payload)
    BY <1>6, <1>10 DEF OpenTrailFile
  <1>11. ASSUME NEW s \in Session, Close(s) PROVE KnownTo(before', file'[i].payload)
    BY <1>6, <1>11 DEF Close
  <1> QED
    BY <1>7, <1>8, <1>9, <1>10, <1>11, StepCases

------------------------------------------------------------------------------
(* The cycle numbers *)

(* The parts of the invariant, of a file and of the handle on it. *)
AheadOf(f, h) ==
  \A i \in 1..Len(f) : readable(f, i) =>
    /\ f[i].cycle <= h.cycleNo
    /\ h.begun /\ f[i].epoch # h.epoch => f[i].cycle < h.cycleNo

HeadedUpTo(f, i) == \E j \in 1..i : f[j].heading /\ f[j].cycle = f[i].cycle

HeadingOf(f, c) == \E j \in 1..Len(f) : f[j].heading /\ f[j].cycle = c

CycleFaults == Spared({"overlap", "edit"}) /\ (asMd => Spared({"failed"}))

OrderKept ==
  /\ Orderly(file)
  /\ Spared({"lost"}) /\ file # <<>> => Orderly(Front(file))
  /\ \A s \in Session : handle[s].open => AheadOf(file, handle[s])
  /\ asMd => /\ \A i \in 1..Len(file) : file[i].cut # "half" => HeadedUpTo(file, i)
             /\ \A s \in Session : handle[s].open /\ handle[s].begun =>
                  HeadingOf(file, handle[s].cycleNo)

LEMMA InOrderIs == InOrder <=> (CycleFaults => OrderKept)
  <1>1. HeadedCycles <=>
          /\ \A i \in 1..Len(file) : file[i].cut # "half" => HeadedUpTo(file, i)
          /\ \A s \in Session : handle[s].open /\ handle[s].begun =>
               HeadingOf(file, handle[s].cycleNo)
    BY DEF HeadedCycles, HeadedUpTo, HeadingOf
  <1>2. \A s \in Session : Ahead(s) <=> AheadOf(file, handle[s])
    BY DEF Ahead, AheadOf
  <1> QED
    BY <1>1, <1>2 DEF InOrder, CycleFaults, OrderKept

LEMMA FrontOfAppend ==
  ASSUME NEW f \in Seq(Chunks), NEW x \in Chunks
  PROVE  Front(Append(f, x)) = f
  <1> DEFINE g == Append(f, x)
  <1>1. /\ g \in Seq(Chunks) /\ g # <<>> /\ Len(g) = Len(f) + 1 /\ Len(f) \in Nat
        /\ \A i \in 1..Len(f) : g[i] = f[i]
    BY AppendProperties, LenProperties
  <1> HIDE DEF g
  <1>2. /\ Front(g) \in Seq(Chunks) /\ Len(Front(g)) = Len(g) - 1
        /\ \A i \in 1..(Len(g) - 1) : Front(g)[i] = g[i]
    BY <1>1, FrontAndLast
  <1>3. Len(g) - 1 = Len(f)
    BY <1>1
  <1>4. Len(Front(g)) = Len(f) /\ \A i \in 1..Len(Front(g)) : Front(g)[i] = f[i]
    BY <1>1, <1>2, <1>3
  <1>5. Front(g) = f
    BY <1>2, <1>4, SeqEqual
  <1> QED
    BY <1>5 DEF g

(* A chunk comes after what can be read of a file. *)
After(f, r) ==
  \A i \in 1..Len(f) : readable(f, i) =>
    f[i].cycle <= r.cycle /\ (f[i].cycle = r.cycle => f[i].epoch = r.epoch)

LEMMA OrderlyAppend ==
  ASSUME NEW f \in Seq(Chunks), NEW r \in Chunks, Orderly(f), After(f, r)
  PROVE  Orderly(Append(f, r))
  <1> DEFINE g == Append(f, r)
             n == Len(f)
  <1>1. /\ n \in Nat /\ Len(g) = n + 1 /\ g[n + 1] = r
        /\ \A i \in 1..n : g[i] = f[i]
    BY AppendProperties, LenProperties
  <1>2. \A i \in 1..n : readable(g, i) => readable(f, i)
    BY ReadableOfAppend
  <1>3. \A i, j \in 1..n : i < j /\ readable(f, i) /\ readable(f, j) =>
           /\ f[i].cycle <= f[j].cycle
           /\ f[i].cycle = f[j].cycle => f[i].epoch = f[j].epoch
    BY DEF Orderly
  <1>4. \A i \in 1..n : readable(f, i) =>
           f[i].cycle <= r.cycle /\ (f[i].cycle = r.cycle => f[i].epoch = r.epoch)
    BY DEF After
  <1> HIDE DEF g, n
  <1>5. ASSUME NEW i \in 1..(n + 1), NEW j \in 1..(n + 1), i < j, readable(g, i), readable(g, j)
        PROVE  /\ g[i].cycle <= g[j].cycle
               /\ g[i].cycle = g[j].cycle => g[i].epoch = g[j].epoch
    <2>1. i \in 1..n /\ (j \in 1..n \/ j = n + 1)
      BY <1>1, <1>5
    <2>2. g[i] = f[i] /\ readable(f, i)
      BY <1>1, <1>2, <1>5, <2>1
    <2>3. CASE j \in 1..n
      <3>1. g[j] = f[j] /\ readable(f, j)
        BY <1>1, <1>2, <1>5, <2>3
      <3> QED
        BY <1>3, <1>5, <2>1, <2>2, <2>3, <3>1
    <2>4. CASE j = n + 1
      <3>1. g[j] = r
        BY <1>1, <2>4
      <3> QED
        BY <1>4, <2>1, <2>2, <3>1
    <2> QED
      BY <2>1, <2>3, <2>4
  <1>6. Orderly(g)
    BY <1>1, <1>5 DEF Orderly
  <1> QED
    BY <1>6 DEF g

(* Where a part of the last chunk stands in its place.                       *)
LEMMA OrderlyTorn ==
  ASSUME NEW f \in Seq(Chunks), NEW r \in Chunks, NEW x \in Chunks,
         Orderly(Append(f, r)), Part(x, r)
  PROVE  Orderly(Append(f, x))
  <1> DEFINE g == Append(f, r)
             h == Append(f, x)
             n == Len(f)
  <1>1. /\ n \in Nat /\ Len(g) = n + 1 /\ g[n + 1] = r /\ \A i \in 1..n : g[i] = f[i]
        /\ Len(h) = n + 1 /\ h[n + 1] = x /\ \A i \in 1..n : h[i] = f[i]
    BY AppendProperties, LenProperties
  <1>2. \A i \in 1..(n + 1) : readable(h, i) => readable(g, i)
    BY TornReadable
  <1>3. \A i, j \in 1..(n + 1) : i < j /\ readable(g, i) /\ readable(g, j) =>
           /\ g[i].cycle <= g[j].cycle
           /\ g[i].cycle = g[j].cycle => g[i].epoch = g[j].epoch
    BY <1>1 DEF Orderly
  <1> HIDE DEF g, h, n
  <1>4. \A i \in 1..(n + 1) : h[i].cycle = g[i].cycle /\ h[i].epoch = g[i].epoch
    <2>1. \A i \in 1..(n + 1) : i \in 1..n \/ i = n + 1
      BY <1>1
    <2>2. x.cycle = r.cycle /\ x.epoch = r.epoch
      BY DEF Part
    <2> QED
      BY <1>1, <2>1, <2>2
  <1>5. \A i, j \in 1..Len(h) : i < j /\ readable(h, i) /\ readable(h, j) =>
           /\ h[i].cycle <= h[j].cycle
           /\ h[i].cycle = h[j].cycle => h[i].epoch = h[j].epoch
    BY <1>1, <1>2, <1>3, <1>4
  <1> QED
    BY <1>5 DEF Orderly, h

LEMMA InOrderStep ==
  ASSUME Basics, InOrder, TrailNext, Basics'
  PROVE  InOrder'
  <1> DEFINE Kept ==
        /\ Orderly(file')
        /\ "lost" \notin faults' /\ file' # <<>> => Orderly(Front(file'))
        /\ \A s \in Session : handle'[s].open => AheadOf(file', handle'[s])
        /\ asMd => /\ \A i \in 1..Len(file') : file'[i].cut # "half" => HeadedUpTo(file', i)
                   /\ \A s \in Session : handle'[s].open /\ handle'[s].begun =>
                        HeadingOf(file', handle'[s].cycleNo)
  <1>1. asMd' = asMd /\ faults \subseteq faults'
    BY StepFaults
  <1>2. InOrder' <=> (CycleFaults' => OrderKept')
    BY InOrderIs, PTL
  <1>3. OrderKept' <=> Kept
    <2>1. /\ Orderly(file)' <=> Orderly(file')
          /\ Orderly(Front(file))' <=> Orderly(Front(file'))
      BY <1>1, NextRead
    <2>2. \A s : AheadOf(file, handle[s])' <=> AheadOf(file', handle'[s])
      BY <1>1 DEF AheadOf, readable, StartsLine
    <2> QED
      BY <1>1, <2>1, <2>2 DEF OrderKept, HeadedUpTo, HeadingOf, Spared
  <1> SUFFICES ASSUME CycleFaults' PROVE Kept
    BY <1>2, <1>3
  <1>4. /\ "overlap" \notin faults' /\ "edit" \notin faults' /\ (asMd => "failed" \notin faults')
        /\ CycleFaults
    BY <1>1 DEF CycleFaults, Spared
  <1>5. /\ Orderly(file)
        /\ "lost" \notin faults /\ file # <<>> => Orderly(Front(file))
        /\ \A s \in Session : handle[s].open => AheadOf(file, handle[s])
        /\ asMd => /\ \A i \in 1..Len(file) : file[i].cut # "half" => HeadedUpTo(file, i)
                   /\ \A s \in Session : handle[s].open /\ handle[s].begun =>
                        HeadingOf(file, handle[s].cycleNo)
    <2>1. OrderKept
      BY <1>4, InOrderIs
    <2> QED
      BY <2>1 DEF OrderKept, Spared
  <1>6. file \in Seq(Chunks) /\ file' \in Seq(Chunks) /\ Types /\ Numbered /\ Headed
        /\ Len(file) \in Nat /\ \A i \in 1..Len(file) : file[i] \in Chunks
    <2>1. file \in Seq(Chunks) /\ file' \in Seq(Chunks) /\ Types /\ Numbered /\ Headed
      BY DEF Basics, Types
    <2> QED
      BY <2>1, LenProperties
  <1>7. \A s, t \in Session : handle[s].open /\ handle[t].open => s = t
    BY <1>1, <1>4 DEF Basics, OpenOnce, Spared
  <1>8. \A i \in 1..Len(file) : file[i].cycle \in Nat
    BY <1>6 DEF Chunks
  <1>9. ASSUME NEW s \in Session, OpenTrailFile(s) PROVE Kept
    <2>1. /\ \A t \in Session : t # s => handle'[t] = handle[t]
          /\ ~handle'[s].begun /\ handle'[s].cycleNo = resumeCycle(file)
          /\ \A i \in 1..Len(file) : (IF asMd THEN file[i].heading ELSE readable(file, i)) =>
               file[i].cycle <= resumeCycle(file)
      BY <1>6, <1>9, OpenedHandle
    <2>2. file' = file
      BY <1>9 DEF OpenTrailFile
    <2>3. ASSUME NEW i \in 1..Len(file), readable(file, i)
          PROVE  file[i].cycle <= resumeCycle(file)
      <3>1. CASE ~asMd
        BY <2>1, <2>3, <3>1
      <3>2. CASE asMd
        <4>1. file[i].cut # "half"
          BY <2>3 DEF readable
        <4>2. PICK j \in 1..i : file[j].heading /\ file[j].cycle = file[i].cycle
          BY <1>5, <3>2, <4>1 DEF HeadedUpTo
        <4>3. j \in 1..Len(file)
          BY <1>6
        <4> QED
          BY <2>1, <3>2, <4>2, <4>3
      <3> QED
        BY <3>1, <3>2
    <2>4. AheadOf(file, handle'[s])
      BY <2>1, <2>3 DEF AheadOf
    <2> QED
      BY <1>1, <1>5, <2>1, <2>2, <2>4
  <1>10. ASSUME NEW s \in Session, Close(s) PROVE Kept
    <2>1. /\ file' = file /\ handle'[s] = Closed /\ faults' = faults
          /\ \A t \in Session : t # s => handle'[t] = handle[t]
      BY <1>6, <1>10 DEF Close, Types
    <2> QED
      BY <1>5, <2>1, ClosedHandle
  <1>11. ASSUME NEW s \in Session, NEW c \in CyclesFor(s), WriteRecord(s, c)
         PROVE  /\ After(file, Chunk(s, c))
                /\ AheadOf(file, handle'[s])
                /\ \A t \in Session : handle'[t].open => t = s
                /\ handle'[s].cycleNo = c /\ handle'[s].epoch = Chunk(s, c).epoch
                /\ asMd => Chunk(s, c).heading \/ HeadingOf(file, c)
                /\ Chunk(s, c).cycle = c /\ c \in Nat
    <2>1. /\ c = handle[s].cycleNo + 1 \/ (c = handle[s].cycleNo /\ handle[s].begun)
          /\ Chunk(s, c).cycle = c /\ Chunk(s, c).epoch = handle[s].epoch
          /\ Chunk(s, c).heading <=> asMd /\ c = handle[s].cycleNo + 1
      BY <1>6, ChunkWritten
    <2>2. handle[s].open /\ Advance(s, c)
      BY <1>6, <1>11, WrittenFile
    <2>3. /\ \A t \in Session : t # s => handle'[t] = handle[t]
          /\ handle'[s].cycleNo = c /\ handle'[s].epoch = handle[s].epoch
      BY <1>6, <2>2, Advanced
    <2>4. handle[s].cycleNo \in Nat
      BY <1>6 DEF Types, Handles
    <2>5. ASSUME NEW i \in 1..Len(file), readable(file, i)
          PROVE  file[i].cycle <= c /\ (file[i].epoch # handle[s].epoch => file[i].cycle < c)
      <3>1. /\ file[i].cycle <= handle[s].cycleNo
            /\ handle[s].begun /\ file[i].epoch # handle[s].epoch =>
                 file[i].cycle < handle[s].cycleNo
        BY <1>5, <2>2, <2>5 DEF AheadOf
      <3>2. CASE c = handle[s].cycleNo + 1
        BY <1>8, <2>4, <3>1, <3>2
      <3>3. CASE c = handle[s].cycleNo /\ handle[s].begun
        BY <3>1, <3>3
      <3> QED
        BY <2>1, <3>2, <3>3
    <2>6. AheadOf(file, handle'[s])
      BY <2>3, <2>5 DEF AheadOf
    <2>7. After(file, Chunk(s, c))
      <3>1. c \in Nat
        BY <2>1, <2>4
      <3>2. \A i \in 1..Len(file) : readable(file, i) =>
              file[i].cycle <= c /\ (file[i].cycle = c => file[i].epoch = handle[s].epoch)
        BY <1>8, <2>5, <3>1
      <3> QED
        BY <2>1, <3>2 DEF After
    <2>8. \A t \in Session : handle'[t].open => t = s
      BY <1>7, <2>2, <2>3
    <2>9. asMd => Chunk(s, c).heading \/ HeadingOf(file, c)
      <3>1. asMd /\ handle[s].begun => HeadingOf(file, handle[s].cycleNo)
        BY <1>5, <2>2
      <3> QED
        BY <2>1, <3>1
    <2>10. c \in Nat
      BY <2>1, <2>4
    <2> QED
      BY <2>1, <2>3, <2>6, <2>7, <2>8, <2>9, <2>10
  <1>12. ASSUME NEW s \in Session, NEW c \in CyclesFor(s), WriteRecord(s, c),
                NEW r \in Chunks, Puts(s, c, r)
         PROVE  Kept
    <2> DEFINE n == Len(file)
    <2>1. r.cycle = c /\ r.epoch = Chunk(s, c).epoch /\ (asMd => r = Chunk(s, c))
      <3>1. r.cycle = c /\ r.epoch = handle[s].epoch /\ Chunk(s, c).epoch = handle[s].epoch
        BY <1>6, <1>12, WhatIsPut, ChunkWritten
      <3>2. "failed" \notin faults' => r = Chunk(s, c)
        BY <1>6, <1>12, WhatIsPut
      <3> QED
        BY <1>4, <3>1, <3>2
    <2>2. /\ After(file, r) /\ AheadOf(file, handle'[s])
          /\ \A t \in Session : handle'[t].open => t = s
          /\ handle'[s].cycleNo = c /\ handle'[s].epoch = r.epoch
          /\ asMd => r.heading \/ HeadingOf(file, c)
      BY <1>11, <1>12, <2>1 DEF After
    <2>3. file' = Append(file, r)
      BY <1>12 DEF Puts
    <2>4. /\ Len(file') = n + 1 /\ file'[n + 1] = r /\ n \in Nat
          /\ \A i \in 1..n : file'[i] = file[i]
      BY <1>6, <2>1, <2>3, AppendProperties
    <2>5. Orderly(file') /\ Front(file') = file
      BY <1>5, <1>6, <2>1, <2>2, <2>3, OrderlyAppend, FrontOfAppend
    <2>6. \A i \in 1..n : readable(file', i) => readable(file, i)
      BY <1>6, <2>1, <2>3, ReadableOfAppend
    <2>7. \A i \in 1..Len(file') : i \in 1..n \/ i = n + 1
      BY <2>4
    <2>8. c \in Nat
      BY <1>11, <1>12
    <2> HIDE DEF n
    <2>9. AheadOf(file', handle'[s])
      <3> SUFFICES ASSUME NEW i \in 1..Len(file'), readable(file', i)
                   PROVE  /\ file'[i].cycle <= handle'[s].cycleNo
                          /\ handle'[s].begun /\ file'[i].epoch # handle'[s].epoch =>
                               file'[i].cycle < handle'[s].cycleNo
        BY DEF AheadOf
      <3>1. CASE i = n + 1
        BY <2>1, <2>2, <2>4, <2>8, <3>1
      <3>2. CASE i \in 1..n
        <4>1. file'[i] = file[i] /\ readable(file, i)
          BY <2>4, <2>6, <3>2
        <4> QED
          BY <2>2, <3>2, <4>1 DEF AheadOf, n
      <3> QED
        BY <2>7, <3>1, <3>2
    <2>10. ASSUME asMd
           PROVE  /\ HeadingOf(file', c)
                  /\ \A i \in 1..Len(file') : file'[i].cut # "half" => HeadedUpTo(file', i)
      <3>1. HeadingOf(file', c)
        <4>1. CASE r.heading
          <5>1. n + 1 \in 1..Len(file') /\ file'[n + 1].heading /\ file'[n + 1].cycle = c
            BY <2>1, <2>4, <4>1
          <5> QED
            BY <5>1 DEF HeadingOf
        <4>2. CASE HeadingOf(file, c)
          <5>1. PICK j \in 1..n : file[j].heading /\ file[j].cycle = c
            BY <4>2 DEF HeadingOf, n
          <5>2. j \in 1..Len(file') /\ file'[j] = file[j]
            BY <2>4
          <5> QED
            BY <5>1, <5>2 DEF HeadingOf
        <4> QED
          BY <2>2, <2>10, <4>1, <4>2
      <3>2. ASSUME NEW i \in 1..Len(file'), file'[i].cut # "half"
            PROVE  HeadedUpTo(file', i)
        <4>1. CASE i = n + 1
          BY <2>1, <2>4, <3>1, <4>1 DEF HeadedUpTo, HeadingOf
        <4>2. CASE i \in 1..n
          <5>1. file'[i] = file[i]
            BY <2>4, <4>2
          <5>2. PICK j \in 1..i : file[j].heading /\ file[j].cycle = file[i].cycle
            BY <1>5, <2>10, <3>2, <4>2, <5>1 DEF HeadedUpTo, n
          <5>3. file'[j] = file[j]
            BY <2>4, <4>2
          <5> QED
            BY <5>1, <5>2, <5>3 DEF HeadedUpTo
        <4> QED
          BY <2>7, <4>1, <4>2
      <3> QED
        BY <3>1, <3>2
    <2> QED
      BY <1>5, <2>2, <2>5, <2>9, <2>10
  <1>13. ASSUME NEW s \in Session, NEW c \in CyclesFor(s), WriteRecord(s, c), Fails
         PROVE  Kept
    <2>1. /\ file' = file /\ "failed" \in faults'
          /\ "lost" \in faults' <=> "lost" \in faults
      BY <1>13 DEF Fails, Strike
    <2>2. ~asMd
      BY <1>4, <2>1
    <2>3. /\ AheadOf(file, handle'[s])
          /\ \A t \in Session : handle'[t].open => t = s
      BY <1>11, <1>13
    <2> QED
      BY <1>1, <1>5, <2>1, <2>2, <2>3
  <1>14. CASE Crash
    <2> DEFINE f == Front(file)
               r == Last(file)
               n == Len(file)
    <2>1. /\ file # <<>> /\ n \in Nat \ {0} /\ r = file[n] /\ r \in Chunks /\ f \in Seq(Chunks)
          /\ Len(f) = n - 1 /\ \A i \in 1..(n - 1) : f[i] = file[i]
          /\ file = Append(f, r)
          /\ Loses \/ \E x \in Chunks : Tears(x)
          /\ handle' = [s \in Session |-> Closed]
      BY <1>6, <1>14, CrashedFile
    <2>2. \A s \in Session : ~handle'[s].open
      BY <2>1, ClosedHandle
    <2>3. /\ Loses => file' = f
          /\ \A x \in Chunks : Tears(x) => Part(x, r) /\ file' = Append(f, x)
          /\ "lost" \notin faults => Orderly(f)
      BY <1>5, <2>1 DEF Loses, Tears
    <2> HIDE DEF f, r, n
    <2>4. ASSUME asMd, NEW i \in 1..(n - 1), file[i].cut # "half"
          PROVE  \E j \in 1..i : file[j].heading /\ file[j].cycle = file[i].cycle
      <3>1. i \in 1..Len(file)
        BY <2>1 DEF n
      <3> QED
        BY <1>5, <2>4, <3>1 DEF HeadedUpTo
    <2>5. CASE Loses
      <3>1. "lost" \notin faults /\ "lost" \in faults'
        BY <2>5 DEF Loses, Strike
      <3>2. ASSUME asMd, NEW i \in 1..Len(f), f[i].cut # "half"
            PROVE  HeadedUpTo(f, i)
        <4>1. i \in 1..(n - 1) /\ f[i] = file[i]
          BY <2>1
        <4>2. PICK j \in 1..i : file[j].heading /\ file[j].cycle = file[i].cycle
          BY <2>4, <3>2, <4>1
        <4>3. f[j] = file[j]
          BY <2>1, <4>1
        <4> QED
          BY <4>1, <4>2, <4>3 DEF HeadedUpTo
      <3> QED
        BY <2>2, <2>3, <2>5, <3>1, <3>2
    <2>6. CASE \E x \in Chunks : Tears(x)
      <3>1. PICK x \in Chunks : Tears(x)
        BY <2>6
      <3>2. "lost" \in faults' <=> "lost" \in faults
        BY <3>1 DEF Tears, Strike
      <3>3. /\ Part(x, r) /\ file' = Append(f, x)
            /\ x.cycle = r.cycle
            /\ x.cut # "half" => r.cut # "half" /\ x.heading = r.heading
        BY <2>3, <3>1 DEF Part
      <3>6. Orderly(file')
        BY <1>5, <2>1, <3>3, OrderlyTorn
      <3>7. Front(file') = f
        BY <2>1, <3>3, FrontOfAppend
      <3>8. /\ Len(file') = n /\ file'[n] = x
            /\ \A i \in 1..(n - 1) : file'[i] = file[i]
        <4>1. (n - 1) + 1 = n /\ n - 1 \in Nat
          BY <2>1
        <4>2. /\ Len(Append(f, x)) = Len(f) + 1 /\ Append(f, x)[Len(f) + 1] = x
              /\ \A i \in 1..Len(f) : Append(f, x)[i] = f[i]
          BY <2>1, AppendProperties
        <4> QED
          BY <2>1, <3>3, <4>1, <4>2
      <3>9. ASSUME asMd, NEW i \in 1..Len(file'), file'[i].cut # "half"
            PROVE  HeadedUpTo(file', i)
        <4>1. i \in 1..(n - 1) \/ i = n
          BY <2>1, <3>8
        <4>2. CASE i \in 1..(n - 1)
          <5>1. PICK j \in 1..i : file[j].heading /\ file[j].cycle = file[i].cycle
            BY <2>4, <3>8, <3>9, <4>2
          <5>2. file'[j] = file[j] /\ file'[i] = file[i]
            BY <3>8, <4>2
          <5> QED
            BY <5>1, <5>2 DEF HeadedUpTo
        <4>3. CASE i = n
          <5>1. r.cut # "half" /\ x.heading = r.heading
            BY <3>3, <3>8, <3>9, <4>3
          <5>2. file[n].cut # "half" /\ n \in 1..Len(file)
            BY <2>1, <5>1 DEF n
          <5>3. PICK j \in 1..n : file[j].heading /\ file[j].cycle = file[n].cycle
            BY <1>5, <3>9, <5>2 DEF HeadedUpTo
          <5>4. file'[n].cycle = file[n].cycle /\ file'[n].heading = file[n].heading
            BY <2>1, <3>3, <3>8, <5>1
          <5>5. j = n \/ j \in 1..(n - 1)
            BY <2>1
          <5>6. file'[j].heading /\ file'[j].cycle = file'[n].cycle
            BY <3>8, <5>3, <5>4, <5>5
          <5> QED
            BY <4>3, <5>6 DEF HeadedUpTo
        <4> QED
          BY <4>1, <4>2, <4>3
      <3> QED
        BY <2>2, <2>3, <3>2, <3>6, <3>7, <3>9
    <2> QED
      BY <2>1, <2>5, <2>6
  <1>15. CASE Edit
    BY <1>4, <1>15 DEF Edit, Strike
  <1>16. ASSUME NEW s \in Session, NEW c \in CyclesFor(s), WriteRecord(s, c) PROVE Kept
    <2>1. Fails \/ \E x \in Chunks : Puts(s, c, x)
      BY <1>6, <1>16, WrittenFile
    <2> QED
      BY <1>12, <1>13, <1>16, <2>1
  <1> QED
    BY <1>9, <1>10, <1>14, <1>15, <1>16, StepCases

------------------------------------------------------------------------------
(* What the faults cost *)

Told(f) == {f[i].payload : i \in Settled(f)}

LEMMA ToldOfAppend ==
  ASSUME NEW f \in Seq(Chunks), NEW x \in Chunks
  PROVE  Told(Append(f, x)) =
           Told(f) \cup (IF x.cut = "whole" /\ EndsWhole(f) THEN {x.payload} ELSE {})
  <1> DEFINE g == Append(f, x)
             n == Len(f)
  <1>1. /\ n \in Nat /\ Len(g) = n + 1 /\ g[n + 1] = x
        /\ \A i \in 1..n : g[i] = f[i]
    BY AppendProperties, LenProperties
  <1>2. f = <<>> <=> n = 0
    BY EmptySeq
  <1> HIDE DEF g
  <1>3. \A i : i \in Settled(g) <=>
          i \in 1..(n + 1) /\ g[i].cut = "whole" /\ (i = 1 \/ g[i - 1].cut = "whole")
    BY <1>1 DEF Settled
  <1>4. \A i : i \in Settled(f) <=>
          i \in 1..n /\ f[i].cut = "whole" /\ (i = 1 \/ f[i - 1].cut = "whole")
    BY DEF Settled
  <1>5. n + 1 \in Settled(g) <=> x.cut = "whole" /\ EndsWhole(f)
    <2>1. n + 1 \in 1..(n + 1) /\ (n + 1) - 1 = n
      BY <1>1
    <2>2. CASE n = 0
      BY <1>1, <1>2, <1>3, <2>1, <2>2 DEF EndsWhole
    <2>3. CASE n # 0
      <3>1. n \in 1..n /\ n + 1 # 1
        BY <1>1, <2>3
      <3> QED
        BY <1>1, <1>2, <1>3, <2>1, <2>3, <3>1 DEF EndsWhole
    <2> QED
      BY <2>2, <2>3
  <1> HIDE DEF n
  <1>6. \A i \in 1..n : i \in Settled(g) <=> i \in Settled(f)
    <2> SUFFICES ASSUME NEW i \in 1..n PROVE i \in Settled(g) <=> i \in Settled(f)
      OBVIOUS
    <2>1. i \in 1..(n + 1) /\ (i = 1 \/ i - 1 \in 1..n)
      BY <1>1
    <2>2. g[i] = f[i] /\ (i = 1 \/ g[i - 1] = f[i - 1])
      BY <1>1, <2>1
    <2> QED
      BY <1>3, <1>4, <2>1, <2>2
  <1>7. \A i : i \in Settled(g) => i \in 1..n \/ i = n + 1
    BY <1>1, <1>3
  <1>8. \A p : p \in Told(g) <=> p \in Told(f) \/ (n + 1 \in Settled(g) /\ p = x.payload)
    <2> SUFFICES ASSUME NEW p
                 PROVE  p \in Told(g) <=> p \in Told(f) \/ (n + 1 \in Settled(g) /\ p = x.payload)
      OBVIOUS
    <2>1. p \in Told(g) <=> \E i \in Settled(g) : p = g[i].payload
      BY DEF Told
    <2>2. p \in Told(f) <=> \E i \in Settled(f) : p = f[i].payload
      BY DEF Told
    <2>3. ASSUME NEW i \in Settled(g), p = g[i].payload
          PROVE  p \in Told(f) \/ (n + 1 \in Settled(g) /\ p = x.payload)
      BY <1>1, <1>6, <1>7, <2>2, <2>3
    <2>4. ASSUME NEW i \in Settled(f), p = f[i].payload PROVE p \in Told(g)
      <3>1. i \in 1..n
        BY <1>4
      <3>2. i \in Settled(g) /\ g[i] = f[i]
        BY <1>1, <1>6, <3>1
      <3> QED
        BY <2>1, <2>4, <3>2
    <2>5. n + 1 \in Settled(g) /\ p = x.payload => p \in Told(g)
      BY <1>1, <2>1
    <2> QED
      BY <2>1, <2>2, <2>3, <2>4, <2>5
  <1>9. Told(g) = Told(f) \cup (IF x.cut = "whole" /\ EndsWhole(f) THEN {x.payload} ELSE {})
    BY <1>5, <1>8
  <1> QED
    BY <1>9 DEF g

LEMMA OneMore ==
  ASSUME NEW A, NEW B, NEW e, IsFiniteSet(B)
  PROVE  /\ A \subseteq B => Cardinality(A) \in Nat /\ Cardinality(A) <= Cardinality(B)
         /\ A \subseteq B \cup {e} =>
              Cardinality(A) \in Nat /\ Cardinality(A) <= Cardinality(B) + 1
  <1>1. Cardinality(B) \in Nat
    BY FS_CardinalityType
  <1>2. /\ IsFiniteSet(B \cup {e}) /\ Cardinality(B \cup {e}) \in Nat
        /\ Cardinality(B \cup {e}) <= Cardinality(B) + 1
    <2>1. IsFiniteSet(B \cup {e})
          /\ Cardinality(B \cup {e}) = IF e \in B THEN Cardinality(B) ELSE Cardinality(B) + 1
      BY FS_AddElement
    <2> QED
      BY <1>1, <2>1
  <1>3. ASSUME A \subseteq B
        PROVE  Cardinality(A) \in Nat /\ Cardinality(A) <= Cardinality(B)
    BY <1>3, FS_Subset, FS_CardinalityType
  <1>4. ASSUME A \subseteq B \cup {e}
        PROVE  Cardinality(A) \in Nat /\ Cardinality(A) <= Cardinality(B \cup {e})
    BY <1>2, <1>4, FS_Subset, FS_CardinalityType
  <1>5. A \subseteq B \cup {e} =>
          Cardinality(A) \in Nat /\ Cardinality(A) <= Cardinality(B) + 1
    <2> SUFFICES ASSUME A \subseteq B \cup {e}
                 PROVE  Cardinality(A) \in Nat /\ Cardinality(A) <= Cardinality(B) + 1
      OBVIOUS
    <2>1. Cardinality(A) \in Nat /\ Cardinality(A) <= Cardinality(B \cup {e})
      BY <1>4
    <2> QED
      BY <1>1, <1>2, <2>1
  <1> QED
    BY <1>3, <1>5

LEMMA MissedFinite ==
  ASSUME NEW f, NEW n \in Nat
  PROVE  /\ IsFiniteSet(Missed(f, n)) /\ Cardinality(Missed(f, n)) \in Nat
         /\ Missed(f, n) = (1..n) \ Told(f)
         /\ Owed(f) \in {0, 1} /\ (EndsWhole(f) <=> Owed(f) = 0)
  <1>1. IsFiniteSet(1..n)
    BY FS_Interval
  <1>2. Missed(f, n) = (1..n) \ Told(f)
    BY DEF Missed, Told
  <1>3. Missed(f, n) \subseteq 1..n
    BY <1>2
  <1>4. IsFiniteSet(Missed(f, n))
    BY <1>1, <1>3, FS_Subset
  <1> QED
    BY <1>2, <1>4, FS_CardinalityType DEF Owed

LEMMA PaidForStep ==
  ASSUME Basics, PaidFor, TrailNext
  PROVE  PaidFor'
  <1> DEFINE toll(k) == (IF "lost" \in k THEN 1 ELSE 0)
                        + (IF "torn" \in k THEN 2 ELSE 0)
                        + (IF "failed" \in k THEN 2 ELSE 0)
             M == Missed(file, written)
             N == Missed(file', written')
  <1>1. asMd' = asMd /\ faults \subseteq faults'
    BY StepFaults
  <1>2. /\ Types /\ Numbered /\ Headed /\ Plain
        /\ file \in Seq(Chunks) /\ Len(file) \in Nat /\ written \in Nat
    BY TrailAssumption, LenProperties DEF Basics, Types
  <1>3. \A k : toll(k) \in Nat
    OBVIOUS
  <1>4. /\ \A k : "lost" \notin k => toll(k \cup {"lost"}) = toll(k) + 1
        /\ \A k : "torn" \notin k => toll(k \cup {"torn"}) = toll(k) + 2
        /\ \A k : "failed" \notin k => toll(k \cup {"failed"}) = toll(k) + 2
    OBVIOUS
  <1>5. Toll = toll(faults) /\ Toll' = toll(faults')
    BY DEF Toll
  <1> HIDE DEF toll
  <1>6. PaidFor' <=> (~asMd /\ "edit" \notin faults' =>
                        Cardinality(N) + Owed(file') <= toll(faults'))
    BY <1>1, <1>5 DEF PaidFor, Spared, Missed, Owed, Settled, EndsWhole
  <1>7. ~asMd /\ "edit" \notin faults => Cardinality(M) + Owed(file) <= toll(faults)
    BY <1>5 DEF PaidFor, Spared
  <1> SUFFICES ASSUME ~asMd, "edit" \notin faults'
               PROVE  Cardinality(N) + Owed(file') <= toll(faults')
    BY <1>6
  <1>8. Cardinality(M) + Owed(file) <= toll(faults)
    BY <1>1, <1>7
  <1>9. /\ IsFiniteSet(M) /\ Cardinality(M) \in Nat /\ M = (1..written) \ Told(file)
        /\ Owed(file) \in {0, 1} /\ (EndsWhole(file) <=> Owed(file) = 0)
    BY <1>2, MissedFinite
  <1>10. ASSUME written' \in Nat
         PROVE  /\ N = (1..written') \ Told(file') /\ Cardinality(N) \in Nat
                /\ Owed(file') \in {0, 1} /\ (EndsWhole(file') <=> Owed(file') = 0)
    BY <1>10, MissedFinite
  <1> HIDE DEF M, N
  <1>11. ASSUME UNCHANGED <<file, written>>, toll(faults') = toll(faults)
         PROVE  Cardinality(N) + Owed(file') <= toll(faults')
    BY <1>8, <1>11 DEF M, N
  <1>12. ASSUME NEW s \in Session, OpenTrailFile(s)
         PROVE  Cardinality(N) + Owed(file') <= toll(faults')
    <2>1. UNCHANGED <<file, written>> /\ (faults' = faults \/ faults' = faults \cup {"overlap"})
      BY <1>12 DEF OpenTrailFile, Strike
    <2>2. toll(faults') = toll(faults)
      BY <2>1 DEF toll
    <2> QED
      BY <1>11, <2>1, <2>2
  <1>13. ASSUME NEW s \in Session, Close(s)
         PROVE  Cardinality(N) + Owed(file') <= toll(faults')
    BY <1>11, <1>13 DEF Close
  <1>14. ASSUME NEW s \in Session, NEW c \in CyclesFor(s), WriteRecord(s, c)
         PROVE  Cardinality(N) + Owed(file') <= toll(faults')
    <2>1. /\ written' = written + 1 /\ written' \in Nat
          /\ Fails \/ \E x \in Chunks : Puts(s, c, x)
      BY <1>2, <1>14, WrittenFile
    <2>2. 1..(written + 1) = (1..written) \cup {written + 1}
      BY <1>2
    <2>3. N = (1..written') \ Told(file') /\ Cardinality(N) \in Nat
          /\ Owed(file') \in {0, 1} /\ (EndsWhole(file') <=> Owed(file') = 0)
      BY <1>10, <2>1
    <2>4. CASE Fails
      <3>1. file' = file /\ toll(faults') = toll(faults) + 2
        BY <1>4, <2>4 DEF Fails, Strike
      <3>2. N \subseteq M \cup {written + 1}
        BY <1>9, <2>1, <2>2, <2>3, <3>1
      <3>3. Cardinality(N) <= Cardinality(M) + 1
        BY <1>9, <3>2, OneMore
      <3> QED
        BY <1>3, <1>8, <1>9, <2>3, <3>1, <3>3
    <2>5. CASE \E x \in Chunks : Puts(s, c, x)
      <3>1. PICK x \in Chunks : Puts(s, c, x)
        BY <2>5
      <3>2. /\ x.payload = written + 1 /\ file' = Append(file, x)
            /\ Len(file') = Len(file) + 1 /\ file'[Len(file) + 1] = x /\ file' # <<>>
        BY <1>2, <3>1, WhatIsPut DEF Puts
      <3>3. Told(file') = Told(file) \cup
              (IF x.cut = "whole" /\ EndsWhole(file) THEN {written + 1} ELSE {})
        BY <1>2, <3>2, ToldOfAppend
      <3>4. EndsWhole(file') <=> x.cut = "whole"
        BY <3>2 DEF EndsWhole
      <3>5. N \subseteq M \cup {written + 1}
        BY <1>9, <2>1, <2>2, <2>3, <3>3
      <3>6. Cardinality(N) <= Cardinality(M) + 1
        BY <1>9, <3>5, OneMore
      <3>7. CASE x = Chunk(s, c) /\ UNCHANGED faults
        <4>1. x.cut = "whole"
          BY <1>2, <3>7, ChunkWritten
        <4>2. CASE EndsWhole(file)
          <5>1. N \subseteq M
            BY <1>9, <2>1, <2>2, <2>3, <3>3, <4>1, <4>2
          <5>2. Cardinality(N) <= Cardinality(M)
            BY <1>9, <5>1, OneMore
          <5> QED
            BY <1>3, <1>8, <1>9, <2>3, <3>4, <3>7, <4>1, <4>2, <5>2
        <4>3. CASE ~EndsWhole(file)
          <5>1. Owed(file) = 1 /\ Owed(file') = 0
            BY <1>9, <2>3, <3>4, <4>1, <4>3
          <5> QED
            BY <1>3, <1>8, <1>9, <2>3, <3>6, <3>7, <5>1
        <4> QED
          BY <4>2, <4>3
      <3>8. CASE Strike("failed")
        <4>1. toll(faults') = toll(faults) + 2
          BY <1>4, <3>8 DEF Strike
        <4> QED
          BY <1>3, <1>8, <1>9, <2>3, <3>6, <4>1
      <3> QED
        BY <3>1, <3>7, <3>8 DEF Puts
    <2> QED
      BY <2>1, <2>4, <2>5
  <1>15. CASE Crash
    <2> DEFINE f == Front(file)
               r == Last(file)
    <2>1. /\ r \in Chunks /\ f \in Seq(Chunks) /\ file = Append(f, r) /\ written' = written
          /\ Loses \/ \E x \in Chunks : Tears(x)
      BY <1>2, <1>15, CrashedFile
    <2>2. N = (1..written) \ Told(file') /\ Cardinality(N) \in Nat
          /\ Owed(file') \in {0, 1} /\ (EndsWhole(file') <=> Owed(file') = 0)
      BY <1>2, <1>10, <2>1
    <2> HIDE DEF f, r
    <2>3. Told(file) = Told(f) \cup (IF r.cut = "whole" /\ EndsWhole(f) THEN {r.payload} ELSE {})
      BY <2>1, ToldOfAppend
    <2>4. (1..written) \ Told(f) \subseteq M \cup {r.payload}
      BY <1>9, <2>3
    <2>5. CASE Loses
      <3>1. file' = f /\ toll(faults') = toll(faults) + 1
        BY <1>4, <2>5 DEF Loses, Strike, f
      <3>2. CASE EndsWhole(f)
        <4>1. Cardinality(N) <= Cardinality(M) + 1
          BY <1>9, <2>2, <2>4, <3>1, OneMore
        <4> QED
          BY <1>3, <1>8, <1>9, <2>2, <3>1, <3>2, <4>1
      <3>3. CASE ~EndsWhole(f)
        <4>1. N \subseteq M
          BY <1>9, <2>2, <2>3, <3>1, <3>3
        <4>2. Cardinality(N) <= Cardinality(M)
          BY <1>9, <4>1, OneMore
        <4> QED
          BY <1>3, <1>8, <1>9, <2>2, <3>1, <4>2
      <3> QED
        BY <3>2, <3>3
    <2>6. CASE \E x \in Chunks : Tears(x)
      <3>1. PICK x \in Chunks : Tears(x)
        BY <2>6
      <3>2. file' = Append(f, x) /\ toll(faults') = toll(faults) + 2
        BY <1>4, <3>1 DEF Tears, Strike, f
      <3>3. Told(f) \subseteq Told(file')
        BY <2>1, <3>2, ToldOfAppend
      <3>4. Cardinality(N) <= Cardinality(M) + 1
        BY <1>9, <2>2, <2>4, <3>3, OneMore
      <3> QED
        BY <1>3, <1>8, <1>9, <2>2, <3>2, <3>4
    <2> QED
      BY <2>1, <2>5, <2>6
  <1>16. CASE Edit
    BY <1>16 DEF Edit, Strike
  <1> QED
    BY <1>12, <1>13, <1>14, <1>15, <1>16, StepCases

------------------------------------------------------------------------------
(* The invariant *)

LEMMA TrailInvInit ==
  ASSUME TrailInit PROVE TrailInv
  <1>1. /\ file = <<>> /\ Len(file) = 0 /\ written = 0 /\ opened = 0 /\ faults = {}
        /\ handle = [s \in Session |-> Closed] /\ asMd \in BOOLEAN /\ before = Unedited
    BY DEF TrailInit
  <1>2. \A s \in Session :
          handle[s] = Closed /\ ~handle[s].open /\ ~handle[s].begun /\ Closed \in Handles
          /\ handle[s].cycleNo = 0 /\ handle[s].lastCycle = 0 /\ handle[s].tip = genesis
    BY <1>1, ClosedHandle
  <1>3. before \in Edits /\ ~before.verified /\ before.written = 0 /\ before.read = genesis
    BY <1>1, TrailAssumption, EmptySeq DEF Unedited, Edits, genesis
  <1>4. Types /\ Numbered /\ OpenOnce /\ AllWhole /\ Headed /\ Plain /\ Unforged
    BY <1>1, <1>2, <1>3, TrailAssumption, EmptySeq
       DEF Types, Numbered, OpenOnce, AllWhole, Headed, Plain, Unforged, Serial
  <1>5. file \in Seq(Chunks)
    BY <1>4 DEF Types
  <1>6. chainLinks(file) = <<>>
    <2>1. PICK at : At(at, chainLinks(file), file, Linked(file))
      BY <1>5, LinesAt
    <2>2. chainLinks(file) \in Seq(Chunks) /\ Len(chainLinks(file)) \in Nat
      BY <1>5, LinksType
    <2>3. ~(1 \in 1..Len(chainLinks(file)))
      <3>1. \A k \in 1..Len(chainLinks(file)) : at[k] \in 1..Len(file)
        BY <2>1 DEF At
      <3>2. 1..Len(file) = {}
        BY <1>1
      <3> QED
        BY <3>1, <3>2
    <2>4. Len(chainLinks(file)) = 0
      BY <2>2, <2>3
    <2> QED
      BY <2>2, <2>4, EmptySeq
  <1>7. ChainIntact
    <2>1. Chained(<<>>) /\ TipOf(<<>>) = genesis
      BY EmptySeq DEF Chained, TipOf
    <2> QED
      BY <1>1, <1>2, <1>6, <2>1 DEF ChainIntact
  <1>8. HashesAgree
    <2>1. Hashes \subseteq {genesis}
      BY <1>1, <1>2, <1>3 DEF Hashes
    <2>2. genesis \in Seq(Nat) /\ Len(genesis) = 0
      BY EmptySeq DEF genesis
    <2> HIDE DEF Hashes, genesis
    <2>3. \A c \in Hashes : c \in Seq(Nat) /\ Len(c) = 0
      BY <2>1, <2>2
    <2>4. \A c, d \in Hashes : Agree(c, d)
      BY <2>3 DEF Agree
    <2> QED
      BY <2>3, <2>4 DEF HashesAgree, AllAgree
  <1>9. EditKnown
    BY <1>3 DEF EditKnown
  <1>10. InOrder
    BY <1>1, <1>2 DEF InOrder, Orderly, HeadedCycles
  <1>11. PaidFor
    <2>1. Missed(file, written) = {} /\ Owed(file) = 0
      BY <1>1 DEF Missed, Owed, EndsWhole
    <2>2. Toll = 0
      BY <1>1 DEF Toll
    <2> QED
      BY <2>1, <2>2, FS_EmptySet DEF PaidFor
  <1> QED
    BY <1>4, <1>7, <1>8, <1>9, <1>10, <1>11 DEF TrailInv

(* Nothing changes. *)
LEMMA TrailInvStutters ==
  ASSUME TrailInv, UNCHANGED trailVars PROVE TrailInv'
  <1>1. /\ asMd' = asMd /\ file' = file /\ handle' = handle /\ before' = before
        /\ written' = written /\ opened' = opened /\ faults' = faults
    BY DEF trailVars
  <1>2. (Types /\ Numbered /\ OpenOnce /\ AllWhole /\ Headed /\ Plain /\ Unforged)'
    BY <1>1 DEF TrailInv, Types, Numbered, OpenOnce, AllWhole, Headed, Plain, Unforged,
                Serial, Spared
  <1>3. /\ chainLinks(file)' = chainLinks(file)
        /\ \A i : readable(file, i)' <=> readable(file, i)
        /\ Orderly(file)' <=> Orderly(file)
        /\ Orderly(Front(file))' <=> Orderly(Front(file))
    BY <1>1, NextRead
  <1>4. ChainIntact'
    BY <1>1, <1>3 DEF TrailInv, ChainIntact, Spared, Chained, TipOf, EndsWhole
  <1>5. HashesAgree'
    <2> DEFINE G == Hashes'
    <2>1. G = Hashes
      BY <1>1 DEF Hashes, genesis
    <2> HIDE DEF G
    <2>2. AllAgree(G, written')
      BY <1>1, <2>1 DEF TrailInv, HashesAgree
    <2> QED
      BY <2>2 DEF HashesAgree, G, AllAgree, Agree
  <1>6. EditKnown'
    BY <1>1, <1>3 DEF TrailInv, EditKnown, Known, Spared
  <1>7. InOrder'
    BY <1>1, <1>3 DEF TrailInv, InOrder, Spared, Ahead, HeadedCycles
  <1>8. PaidFor'
    BY <1>1 DEF TrailInv, PaidFor, Spared, Missed, Settled, Owed, EndsWhole, Toll
  <1> QED
    BY <1>2, <1>4, <1>5, <1>6, <1>7, <1>8 DEF TrailInv

(* What every session, crash and edit of the trail file keeps (the opens,   *)
(* writes, closes of trailfile.go:37-127).                                  *)
THEOREM TrailInvariance == TrailSpec => []TrailInv
  <1>1. TrailInit => TrailInv
    BY TrailInvInit
  <1>2. TrailInv /\ [TrailNext]_trailVars => TrailInv'
    <2> SUFFICES ASSUME TrailInv, [TrailNext]_trailVars PROVE TrailInv'
      OBVIOUS
    <2>1. CASE TrailNext
      <3>1. Basics /\ ChainIntact /\ HashesAgree /\ EditKnown /\ InOrder /\ PaidFor
        BY DEF TrailInv, Basics
      <3>2. Basics'
        BY <2>1, <3>1, BasicsStep
      <3>3. ChainIntact' /\ HashesAgree' /\ EditKnown' /\ InOrder' /\ PaidFor'
        BY <2>1, <3>1, <3>2, ChainStep, HashesStep, EditKnownStep, InOrderStep, PaidForStep
      <3> QED
        BY <3>2, <3>3 DEF TrailInv, Basics
    <2> QED
      BY <2>1, TrailInvStutters
  <1> QED
    BY <1>1, <1>2, PTL DEF TrailSpec

------------------------------------------------------------------------------
(* What it gives *)

(* The state of the file and of its sessions is well formed: every chunk of *)
(* the file holds a record that was written and a cycle number from 1 on    *)
(* (trailfile.go:71-127).                                                   *)
THEOREM TrailTypeCorrect == TrailSpec => []TrailTypeOK
  <1>1. TrailInv => TrailTypeOK
    <2> SUFFICES ASSUME TrailInv PROVE TrailTypeOK
      OBVIOUS
    <2>1. /\ Types
          /\ \A i \in 1..Len(file) : file[i].payload <= written /\ file[i].cycle <= written
          /\ \A s \in Session : handle[s].cycleNo <= written
      BY DEF TrailInv, Numbered
    <2>2. written \in Nat /\ written <= MaxRecords /\ MaxRecords \in Nat
      BY <2>1, TrailAssumption DEF Types
    <2>3. ASSUME NEW i \in 1..Len(file)
          PROVE  /\ file[i].cut \in {"whole", "bare", "half"}
                 /\ file[i].payload \in 0..MaxRecords
                 /\ file[i].cycle \in 1..MaxRecords
      <3>1. file[i] \in Chunks
        BY <2>1 DEF Types
      <3>2. /\ file[i].cut \in {"whole", "bare", "half"}
            /\ file[i].payload \in Nat /\ file[i].cycle \in Nat \ {0}
        BY <3>1 DEF Chunks
      <3> QED
        BY <2>1, <2>2, <3>2
    <2>4. ASSUME NEW s \in Session PROVE handle[s].cycleNo \in 0..MaxRecords
      <3>1. handle[s].cycleNo \in Nat
        BY <2>1 DEF Types, Handles
      <3> QED
        BY <2>1, <2>2, <3>1
    <2>5. before.verified \in BOOLEAN /\ before.written \in 0..MaxRecords
      BY <2>1 DEF Types, Edits
    <2> QED
      BY <2>1, <2>3, <2>4, <2>5 DEF TrailTypeOK, Types
  <1> QED
    BY <1>1, TrailInvariance, PTL

(* The promise of trailfile.go:14-25: the sessions of a file, however many, *)
(* continue one chain, so that a file with records verifies, and so does    *)
(* what a crash leaves of it.                                               *)
THEOREM ChainIsContinued == TrailSpec => []ChainContinues
  <1>1. TrailInv => ChainContinues
    <2> SUFFICES ASSUME TrailInv, Spared({"edit", "failed", "overlap"}),
                        asMd \/ Spared({"torn"}), chainLinks(file) # <<>>
                 PROVE  VerifyTrail(file)
      BY DEF ChainContinues
    <2>1. Chained(chainLinks(file))
      BY DEF TrailInv, ChainIntact
    <2> QED
      BY <2>1, Verified
  <1> QED
    BY <1>1, TrailInvariance, PTL

(* What trailfile.go:228-231 promises, as far as it holds: whoever changes  *)
(* records, takes some out of the midst or puts some in, without computing  *)
(* a hash, is found out, and goes on being so whatever is appended.  The    *)
(* records of a file that verifies after an edit are a beginning of those   *)
(* it had before -- taking the last ones out does not show -- and what was  *)
(* written since.  Of headings and of lines without a hash it says nothing. *)
THEOREM EditsSurface == TrailSpec => []EditsShow
  <1>1. TrailInv => EditsShow
    <2> DEFINE links == chainLinks(file)
               q == payloads(links)
               B == before.read
               m == Len(links)
    <2> SUFFICES ASSUME TrailInv, before.verified, Spared({"lost"}), VerifyTrail(file)
                 PROVE  \E kept \in 0..Len(B) :
                          \A i \in 1..Len(q) :
                            IF i <= kept THEN q[i] = B[i] ELSE q[i] > before.written
      BY DEF EditsShow
    <2>1. /\ file \in Seq(Chunks) /\ links \in Seq(Chunks) /\ m \in Nat
          /\ links # <<>> /\ Chained(links) /\ B \in Seq(Nat) /\ Len(B) \in Nat
          /\ before.written \in Nat
      <3>1. file \in Seq(Chunks) /\ before \in Edits
        BY DEF TrailInv, Types
      <3>2. B \in Seq(Nat) /\ before.written \in Nat
        BY <3>1, TrailAssumption DEF Edits
      <3> QED
        BY <3>1, <3>2, LinksType, Verified, LenProperties
    <2>2. PICK at : At(at, links, file, Linked(file))
      BY <2>1, LinesAt
    <2> HIDE DEF links, B
    <2>3. /\ q \in Seq(Nat) /\ Len(q) = m
          /\ \A k \in 1..m : q[k] = links[k].payload
          /\ q = links[m].chain
      BY <2>1, ChainOfPayloads
    <2> HIDE DEF q
    <2>4. q \in Hashes /\ B \in Hashes
      <3>1. m \in 1..m
        BY <2>1, EmptySeq
      <3>2. links[m] = file[at[m]] /\ at[m] \in 1..Len(file)
        BY <2>2, <3>1 DEF At
      <3> QED
        BY <2>3, <3>2 DEF Hashes, B
    <2> HIDE DEF m
    <2>5. /\ \A i \in 1..m : q[i] \in Nat /\ q[i] >= 1
          /\ \A i \in 1..m, k \in 1..Len(B) : q[i] = B[k] => i = k /\ \A l \in 1..i : q[l] = B[l]
      <3>1. AllAgree(Hashes, written)
        BY DEF TrailInv, HashesAgree
      <3>2. Agree(q, B) /\ \A i \in 1..Len(q) : 1 <= q[i]
        BY <2>4, <3>1 DEF AllAgree
      <3>3. \A i \in 1..Len(q) : q[i] \in Nat
        BY <2>3, LenProperties
      <3> QED
        BY <2>3, <3>2, <3>3 DEF Agree
    <2>6. ASSUME NEW i \in 1..m, ~(q[i] > before.written)
          PROVE  i \in 1..Len(B) /\ \A l \in 1..i : q[l] = B[l]
      <3> DEFINE p == file[at[i]].payload
      <3>1. /\ at[i] \in 1..Len(file) /\ at[i] \in Linked(file) /\ links[i] = file[at[i]]
        BY <2>2 DEF At, m
      <3>2. Known(file, at[i])
        BY <3>1 DEF TrailInv, EditKnown
      <3>3. readable(file, at[i]) /\ file[at[i]].chain # genesis
        BY <3>1 DEF Linked
      <3>4. p = 0 \/ p > before.written \/ \E k \in 1..Len(B) : B[k] = p
        BY <3>2, <3>3 DEF Known, B
      <3>5. p = q[i]
        BY <2>3, <3>1
      <3> HIDE DEF p
      <3>6. PICK k \in 1..Len(B) : B[k] = q[i]
        BY <2>5, <2>6, <3>4, <3>5
      <3> QED
        BY <2>5, <3>6
    <2> DEFINE S == {i \in 1..m : ~(q[i] > before.written)}
    <2>7. CASE S = {}
      <3>1. \A i \in 1..m : ~(i <= 0) /\ q[i] > before.written
        BY <2>1, <2>7
      <3>2. 0 \in 0..Len(B)
        BY <2>1
      <3> QED
        BY <2>3, <3>1, <3>2
    <2>8. CASE S # {}
      <3>1. S \in SUBSET (1..m)
        OBVIOUS
      <3>2. \A i \in 1..m : i \notin S => q[i] > before.written
        OBVIOUS
      <3>3. \A i \in S : i \in 1..m /\ ~(q[i] > before.written)
        OBVIOUS
      <3> DEFINE kept == Max(S)
      <3>4. kept \in S /\ \A i \in S : kept >= i
        BY <2>1, <2>8, <3>1, MaxOfSome DEF m
      <3> HIDE DEF S, kept
      <3>5. kept \in 1..Len(B) /\ \A l \in 1..kept : q[l] = B[l]
        BY <2>6, <3>3, <3>4
      <3>6. ASSUME NEW i \in 1..m
            PROVE  IF i <= kept THEN q[i] = B[i] ELSE q[i] > before.written
        <4>1. kept \in Nat
          BY <3>5
        <4>2. CASE i <= kept
          <5>1. i \in 1..kept
            BY <4>1, <4>2
          <5> QED
            BY <3>5, <4>2, <5>1
        <4>3. CASE ~(i <= kept)
          <5>1. i \notin S
            BY <3>4, <4>1, <4>3
          <5> QED
            BY <3>2, <4>3, <5>1
        <4> QED
          BY <4>2, <4>3
      <3>7. kept \in 0..Len(B)
        BY <3>5
      <3> QED
        BY <2>3, <3>6, <3>7
    <2> QED
      BY <2>7, <2>8
  <1> QED
    BY <1>1, TrailInvariance, PTL

(* In a file in order the cycle numbers that are read never fall.           *)
Rising(lines) ==
  \A i, j \in 1..Len(lines) :
    i < j => /\ lines[i].cycle <= lines[j].cycle
             /\ lines[i].cycle = lines[j].cycle => lines[i].epoch = lines[j].epoch

LEMMA LinesRise ==
  ASSUME NEW f \in Seq(Chunks), Orderly(f)
  PROVE  Rising(chainLinks(f)) /\ Rising(readLines(f))
  <1>1. ASSUME NEW lines, NEW p, \A i \in p : readable(f, i), NEW at, At(at, lines, f, p)
        PROVE  Rising(lines)
    <2> SUFFICES ASSUME NEW i \in 1..Len(lines), NEW j \in 1..Len(lines), i < j
                 PROVE  /\ lines[i].cycle <= lines[j].cycle
                        /\ lines[i].cycle = lines[j].cycle => lines[i].epoch = lines[j].epoch
      BY DEF Rising
    <2>1. /\ at[i] \in 1..Len(f) /\ readable(f, at[i]) /\ lines[i] = f[at[i]]
          /\ at[j] \in 1..Len(f) /\ readable(f, at[j]) /\ lines[j] = f[at[j]]
          /\ at[i] < at[j]
      BY <1>1 DEF At
    <2> QED
      BY <2>1 DEF Orderly
  <1>2. Rising(chainLinks(f))
    <2>1. PICK at : At(at, chainLinks(f), f, Linked(f))
      BY LinesAt
    <2>2. \A i \in Linked(f) : readable(f, i)
      BY DEF Linked
    <2> QED
      BY <1>1, <2>1, <2>2
  <1>3. Rising(readLines(f))
    <2>1. PICK at : At(at, readLines(f), f, Readable(f))
      BY LinesAt
    <2>2. \A i \in Readable(f) : readable(f, i)
      BY DEF Readable
    <2> QED
      BY <1>1, <2>1, <2>2
  <1> QED
    BY <1>2, <1>3

(* The promise of trailfile.go:44-47: records with the same cycle number    *)
(* were written by one session, over any number of restarts and crashes.    *)
THEOREM CycleNumbersUnique == TrailSpec => []CyclesNeverRepeat
  <1>1. TrailInv => CyclesNeverRepeat
    <2> SUFFICES ASSUME TrailInv,
                        Spared({"overlap", "edit"}), asMd => Spared({"failed"}),
                        NEW i \in 1..Len(chainLinks(file)), NEW j \in 1..Len(chainLinks(file)),
                        chainLinks(file)[i].cycle = chainLinks(file)[j].cycle
                 PROVE  chainLinks(file)[i].epoch = chainLinks(file)[j].epoch
      BY DEF CyclesNeverRepeat
    <2>1. file \in Seq(Chunks) /\ Orderly(file)
      BY DEF TrailInv, Types, InOrder
    <2>2. Rising(chainLinks(file)) /\ Len(chainLinks(file)) \in Nat
      BY <2>1, LinesRise, LinksType
    <2>3. i < j \/ j < i \/ i = j
      BY <2>2
    <2> QED
      BY <2>2, <2>3 DEF Rising
  <1> QED
    BY <1>1, TrailInvariance, PTL

(* The function ReadTrail recurs with. *)
Groups(g, lines, n) ==
  g = [m \in 0..n |-> IF m = 0 THEN <<>> ELSE g[m - 1] \o byCycle(lines, m)]

LEMMA GroupsExist ==
  ASSUME NEW lines, NEW n \in Nat
  PROVE  \E g : Groups(g, lines, n)
  <1> DEFINE S == {m \in Nat : \E g : Groups(g, lines, m)}
  <1>1. 0 \in S
    <2>1. Groups([m \in 0..0 |-> <<>>], lines, 0)
      BY DEF Groups
    <2> QED
      BY <2>1
  <1>2. ASSUME NEW m \in Nat, m \in S PROVE m + 1 \in S
    <2>1. PICK g : Groups(g, lines, m)
      BY <1>2
    <2> DEFINE h == [k \in 0..(m + 1) |->
                      IF k <= m THEN g[k] ELSE g[m] \o byCycle(lines, k)]
    <2>2. ASSUME NEW k \in 0..(m + 1)
          PROVE  h[k] = IF k = 0 THEN <<>> ELSE h[k - 1] \o byCycle(lines, k)
      <3>1. CASE k <= m
        <4>1. k \in 0..m /\ (k # 0 => k - 1 \in 0..(m + 1) /\ k - 1 <= m)
          BY <3>1
        <4>2. g[k] = IF k = 0 THEN <<>> ELSE g[k - 1] \o byCycle(lines, k)
          BY <2>1, <4>1 DEF Groups
        <4>3. h[k] = g[k] /\ (k # 0 => h[k - 1] = g[k - 1])
          BY <3>1, <4>1
        <4> QED
          BY <4>2, <4>3
      <3>2. CASE k = m + 1
        <4>1. k # 0 /\ ~ (k <= m) /\ k - 1 = m /\ m \in 0..(m + 1) /\ m <= m
          BY <3>2
        <4>2. h[k] = g[m] \o byCycle(lines, k) /\ h[k - 1] = g[m]
          BY <4>1
        <4> QED
          BY <4>1, <4>2
      <3> QED
        BY <3>1, <3>2
    <2>3. h = [k \in 0..(m + 1) |-> h[k]]
      OBVIOUS
    <2> HIDE DEF h
    <2>4. Groups(h, lines, m + 1)
      BY <2>2, <2>3 DEF Groups
    <2> QED
      BY <2>4
  <1> HIDE DEF S
  <1>3. n \in S
    BY <1>1, <1>2, SetInduction
  <1> QED
    BY <1>3 DEF S

(* The groups of the cycles up to one, where the numbers never fall, are    *)
(* the records up to it.                                                    *)
UpTo(lines, m) == {i \in 1..Len(lines) : lines[i].cycle <= m}

LEMMA GroupsInTurn ==
  ASSUME NEW lines \in Seq(Chunks), Rising(lines), NEW n \in Nat, NEW g, Groups(g, lines, n)
  PROVE  g[n] = Picked(lines, UpTo(lines, n))
  <1> DEFINE Gathered(m) == g[m] = Picked(lines, UpTo(lines, m))
             S == {m \in Nat : m <= n => Gathered(m)}
  <1>1. /\ Len(lines) \in Nat /\ Len(lines) \in 0..Len(lines)
        /\ \A i \in 1..Len(lines) : lines[i].cycle \in Nat \ {0}
    <2>1. Len(lines) \in Nat /\ \A i \in 1..Len(lines) : lines[i] \in Chunks
      BY LenProperties
    <2> QED
      BY <2>1 DEF Chunks
  <1>2. Gathered(0)
    <2>1. \A i \in 1..Len(lines) : i \notin UpTo(lines, 0)
      BY <1>1 DEF UpTo
    <2>2. Picks(lines, UpTo(lines, 0))[Len(lines)] = <<>>
      BY <1>1, <2>1, PicksNone
    <2>3. g[0] = <<>>
      <3>1. 0 \in 0..n
        OBVIOUS
      <3> QED
        BY <3>1 DEF Groups
    <2> QED
      BY <2>2, <2>3 DEF Picked
  <1>3. ASSUME NEW m \in Nat, m + 1 <= n, Gathered(m) PROVE Gathered(m + 1)
    <2> DEFINE p == UpTo(lines, m)
               q == {i \in 1..Len(lines) : lines[i].cycle = m + 1}
    <2>1. g[m + 1] = g[m] \o Picked(lines, q)
      <3>1. m + 1 \in 0..n /\ m + 1 # 0 /\ (m + 1) - 1 = m
        BY <1>3
      <3> QED
        BY <3>1 DEF Groups, byCycle
    <2>2. UpTo(lines, m + 1) = p \cup q
      <3>1. \A i \in 1..Len(lines) :
              lines[i].cycle <= m + 1 <=> lines[i].cycle <= m \/ lines[i].cycle = m + 1
        BY <1>1
      <3> QED
        BY <3>1 DEF UpTo
    <2>3. ASSUME NEW i \in 1..Len(lines), NEW j \in 1..Len(lines), i \in p, j \in q
          PROVE  i < j
      <3>1. lines[i].cycle <= m /\ lines[j].cycle = m + 1
        BY <2>3 DEF UpTo
      <3>2. ~(lines[j].cycle <= lines[i].cycle)
        BY <1>1, <3>1
      <3>3. j # i
        BY <1>1, <3>2
      <3>4. ~(j < i)
        BY <3>2 DEF Rising
      <3> QED
        BY <1>1, <3>3, <3>4
    <2> HIDE DEF p, q
    <2>4. Picked(lines, p \cup q) = Picked(lines, p) \o Picked(lines, q)
      BY <2>3, PickedInTurn
    <2> QED
      BY <1>3, <2>1, <2>2, <2>4 DEF p
  <1> HIDE DEF Gathered
  <1>4. 0 \in S /\ \A m \in Nat : m \in S => m + 1 \in S
    BY <1>2, <1>3
  <1> HIDE DEF S
  <1>5. n \in S
    BY <1>4, SetInduction
  <1>6. Gathered(n)
    BY <1>5 DEF S
  <1> QED
    BY <1>6 DEF Gathered

LEMMA ReadInTurn ==
  ASSUME NEW f \in Seq(Chunks), Rising(readLines(f)),
         NEW n \in Nat, \A i \in 1..Len(f) : f[i].cycle <= n
  PROVE  ReadTrail(f) = readLines(f)
  <1> DEFINE lines == readLines(f)
             cycles == {0} \cup {lines[i].cycle : i \in 1..Len(lines)}
             top == Max(cycles)
             G == CHOOSE g : g = [m \in 0..top |->
                    IF m = 0 THEN <<>> ELSE g[m - 1] \o byCycle(lines, m)]
  <1>1. ReadTrail(f) = G[top]
    BY DEF ReadTrail
  <1>2. lines \in Seq(Chunks) /\ Len(lines) \in Nat /\ Rising(lines)
    BY LinksType
  <1>3. \A i \in 1..Len(lines) : lines[i].cycle \in 0..n
    <2>1. PICK at : At(at, lines, f, Readable(f))
      BY LinesAt
    <2>2. \A i \in 1..Len(lines) : lines[i] \in Chunks /\ lines[i].cycle <= n
      BY <1>2, <2>1 DEF At
    <2> QED
      BY <2>2 DEF Chunks
  <1> HIDE DEF lines
  <1>4. cycles \in SUBSET (0..n) /\ cycles # {}
        /\ \A i \in 1..Len(lines) : lines[i].cycle \in cycles
    BY <1>3
  <1> HIDE DEF cycles
  <1>5. top \in Nat /\ \A i \in 1..Len(lines) : lines[i].cycle <= top
    <2>1. top \in cycles /\ \A y \in cycles : top >= y
      BY <1>4, MaxOfNumbers
    <2>2. top \in 0..n
      BY <1>4, <2>1
    <2> QED
      BY <1>3, <1>4, <2>1, <2>2
  <1> HIDE DEF top
  <1>6. Groups(G, lines, top)
    <2>1. \E g : Groups(g, lines, top)
      BY <1>5, GroupsExist
    <2> QED
      BY <2>1 DEF Groups
  <1> HIDE DEF G
  <1>7. G[top] = Picked(lines, UpTo(lines, top))
    BY <1>2, <1>5, <1>6, GroupsInTurn
  <1>8. \A i \in 1..Len(lines) : i \in UpTo(lines, top)
    BY <1>5 DEF UpTo
  <1>9. Picked(lines, UpTo(lines, top)) = lines
    BY <1>2, <1>8, PickedAll
  <1> QED
    BY <1>1, <1>7, <1>9 DEF lines

(* What trailfile.go:22-23 and 323-329 promise of JSON lines, and the price *)
(* it has: the records come back in the order they were written in, none    *)
(* twice, and the faults alone keep some from coming back: one when a write *)
(* was lost, two when one was torn or failed.                               *)
THEOREM TrailReadsBack == TrailSpec => []ReadsBackExactly
  <1>1. TrailInv => ReadsBackExactly
    <2> DEFINE lines == readLines(file)
               read == payloads(lines)
               unread == (1..written) \ {read[i] : i \in 1..Len(read)}
    <2> SUFFICES ASSUME TrailInv, ~asMd, Spared({"overlap", "edit"})
                 PROVE  /\ ReadTrail(file) = lines
                        /\ \A i, j \in 1..Len(read) : i < j => read[i] < read[j]
                        /\ Cardinality(unread) <= Toll
      BY DEF ReadsBackExactly
    <2>1. /\ file \in Seq(Chunks) /\ Orderly(file) /\ Serial(file) /\ written \in Nat
          /\ \A i \in 1..Len(file) : file[i].cycle <= written
      BY TrailAssumption DEF TrailInv, Types, Numbered, InOrder, Unforged, Spared
    <2>2. ReadTrail(file) = lines
      BY <2>1, LinesRise, ReadInTurn
    <2>3. lines \in Seq(Chunks) /\ Len(lines) \in Nat
      BY <2>1, LinksType
    <2>4. Len(read) = Len(lines) /\ \A k \in 1..Len(lines) : read[k] = lines[k].payload
      <3>1. read = [k \in 1..Len(lines) |-> lines[k].payload]
        BY DEF payloads
      <3>2. \A k \in 1..Len(lines) : lines[k].payload \in Nat
        <4>1. \A k \in 1..Len(lines) : lines[k] \in Chunks
          BY <2>3, LenProperties
        <4> QED
          BY <4>1 DEF Chunks
      <3> HIDE DEF read, lines
      <3> QED
        BY <2>3, <3>1, <3>2, IsASeq
    <2>5. PICK at : At(at, lines, file, Readable(file))
      BY <2>1, LinesAt
    <2> HIDE DEF read, lines
    <2>6. \A i, j \in 1..Len(read) : i < j => read[i] < read[j]
      <3> SUFFICES ASSUME NEW i \in 1..Len(lines), NEW j \in 1..Len(lines), i < j
                   PROVE  read[i] < read[j]
        BY <2>4
      <3>1. /\ at[i] \in 1..Len(file) /\ lines[i] = file[at[i]]
            /\ at[j] \in 1..Len(file) /\ lines[j] = file[at[j]]
            /\ at[i] < at[j]
        BY <2>5 DEF At
      <3>2. file[at[i]].payload < file[at[j]].payload
        BY <2>1, <3>1 DEF Serial
      <3> QED
        BY <2>4, <3>1, <3>2
    <2>7. Settled(file) \subseteq Readable(file)
      <3> SUFFICES ASSUME NEW i \in Settled(file) PROVE i \in Readable(file)
        OBVIOUS
      <3>1. i \in 1..Len(file) /\ file[i].cut = "whole" /\ (i = 1 \/ file[i - 1].cut = "whole")
        BY DEF Settled
      <3>2. readable(file, i)
        BY <2>1, <3>1, ReadableIs
      <3> QED
        BY <3>1, <3>2 DEF Readable
    <2>8. unread \subseteq Missed(file, written)
      <3>1. ASSUME NEW i \in Settled(file)
            PROVE  \E k \in 1..Len(read) : file[i].payload = read[k]
        <4>1. i \in Readable(file) /\ i \in 1..Len(file)
          BY <2>7 DEF Readable
        <4>2. PICK k \in 1..Len(lines) : at[k] = i
          BY <2>5, <4>1 DEF At
        <4>3. lines[k] = file[i]
          BY <2>5, <4>2 DEF At
        <4> QED
          BY <2>4, <4>2, <4>3
      <3> QED
        BY <3>1 DEF Missed
    <2>9. Cardinality(unread) <= Toll
      <3>1. /\ IsFiniteSet(Missed(file, written)) /\ Cardinality(Missed(file, written)) \in Nat
            /\ Owed(file) \in {0, 1}
        BY <2>1, MissedFinite
      <3>2. /\ Cardinality(unread) \in Nat
            /\ Cardinality(unread) <= Cardinality(Missed(file, written))
        <4> HIDE DEF unread
        <4> QED
          BY <2>8, <3>1, OneMore
      <3>3. Cardinality(Missed(file, written)) + Owed(file) <= Toll
        BY DEF TrailInv, PaidFor, Spared
      <3>4. Toll \in Nat
        BY DEF Toll
      <3> HIDE DEF unread, Toll
      <3> QED
        BY <3>1, <3>2, <3>3, <3>4
    <2> QED
      BY <2>2, <2>6, <2>9
  <1> QED
    BY <1>1, TrailInvariance, PTL
==============================================================================

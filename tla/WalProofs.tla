------------------------------- MODULE WalProofs -------------------------------
(***************************************************************************)
(* Proofs about the write-ahead log, for every number of commits, crashes  *)
(* and failing calls, every size of the fields and every limit on records. *)
(***************************************************************************)
EXTENDS Wal, FiniteSetTheorems, WellFoundedInduction, TLAPS

Items == {CmdTransaction} \cup Nat \cup Keys \cup Values

\* The payloads of Commit.
Payloads ==
  { p \in Seq(Items) :
      /\ WellFormed(p) /\ p[2] \in TxnIds
      /\ \A j \in 1 .. p[3] : p[2 + 2 * j] \in Keys /\ p[3 + 2 * j] \in Values }

Size(payload) == Len(payload) + 2 * FieldCells

Cell == [of : Payloads, at : Nat \ {0}]

-------------------------------------------------------------------------------
(***************************************************************************)
(* The invariant                                                           *)
(***************************************************************************)

\* A cell is there with all cells of its frame before it.
Framed ==
  \A i \in 1 .. Len(file) :
    /\ file[i].at <= Size(file[i].of) /\ file[i].at <= i
    /\ \A j \in 1 .. file[i].at :
         file[i - file[i].at + j] = [of |-> file[i].of, at |-> j]

FrameEnd(i) == i - file[i].at + Size(file[i].of)

\* The first n cells are whole records: each has the end of its frame there.
Whole(n) ==
  \A i \in 1 .. n :
    /\ FrameEnd(i) <= n
    /\ file[FrameEnd(i)] = [of |-> file[i].of, at |-> Size(file[i].of)]

Calls == {NoCommit} \cup [pc : {"syncing", "failed"}, payload : Payloads]

Types ==
  /\ file \in Seq(Cell) /\ Framed
  /\ Len(file) <= MaxFileCells
  /\ synced \in 0 .. Len(file)
  /\ offset \in 0 .. Len(file)
  /\ mode \in {"down", "reading", "refused", "starting", "open"}
  /\ commit \in Calls
  /\ memTable \subseteq Entry
  /\ nextTransactionId \in 1 .. MaxTxnId + 1
  /\ acked \subseteq Payloads
  /\ crashes \in 0 .. MaxCrashes
  /\ faults \in 0 .. MaxFaults

\* In whole records an id stands for one payload.
IdsAgree ==
  \A n \in 0 .. Len(file) : Whole(n) =>
    \A i, j \in 1 .. n : file[i].of[2] = file[j].of[2] => file[i].of = file[j].of

\* Before NewWal nothing is in memory.
DownEmpty == mode = "down" => memTable = {} /\ offset = 0 /\ commit = NoCommit

\* The replay has come to the end of a record, and the memtable holds what
\* the records before it say.
ReadSoFar ==
  mode = "reading" =>
    /\ commit = NoCommit
    /\ Whole(offset)
    /\ \A i \in 1 .. offset :
         /\ file[i].of[2] < nextTransactionId
         /\ deserialiseTransactionCommand(file[i].of) \subseteq memTable
    /\ \A e \in memTable :
         \E i \in 1 .. offset : e \in deserialiseTransactionCommand(file[i].of)

Running == mode \in {"starting", "open"}

\* A new id is above those of the memtable and of the whole records; the
\* commit under way has the last id, which nothing else has.
IdsBelow ==
  Running =>
    /\ \A e \in memTable : e.txnId < nextTransactionId
    /\ \A n \in 0 .. Len(file) : Whole(n) =>
         \A i \in 1 .. n :
           /\ file[i].of[2] < nextTransactionId
           /\ commit # NoCommit /\ file[i].of[2] = commit.payload[2]
                => file[i].of = commit.payload

CommitIsLast ==
  commit # NoCommit =>
    /\ Running
    /\ commit.payload[2] = nextTransactionId - 1
    /\ \A e \in memTable : e.txnId < commit.payload[2]
    /\ commit.pc = "syncing" =>
         /\ file # <<>>
         /\ file[Len(file)] = [of |-> commit.payload, at |-> Size(commit.payload)]

\* A payload was acknowledged with its record synced to the end.
AckedSynced ==
  \A payload \in acked :
    \E m \in 1 .. synced : file[m] = [of |-> payload, at |-> Size(payload)]

Inv == /\ Types /\ IdsAgree /\ DownEmpty /\ ReadSoFar /\ IdsBelow
       /\ CommitIsLast /\ AckedSynced
       /\ ReplayAtomic /\ AckedRecovered /\ RefusedOnlyIfTorn

-------------------------------------------------------------------------------
(***************************************************************************)
(* Payloads, frames and the file                                           *)
(***************************************************************************)

\* What is where in a concatenation.
LEMMA Joined ==
  ASSUME NEW S, NEW s \in Seq(S), NEW u \in Seq(S)
  PROVE  /\ s \o u \in Seq(S) /\ Len(s \o u) = Len(s) + Len(u)
         /\ \A i \in 1 .. Len(s) : (s \o u)[i] = s[i]
         /\ \A j \in 1 .. Len(u) : (s \o u)[Len(s) + j] = u[j]
OBVIOUS

\* Len of a payload, and the parts of it, are what the readers count on.
LEMMA PayloadFacts ==
  ASSUME NEW p \in Payloads
  PROVE  /\ Len(p) \in Nat /\ Len(p) >= 3 /\ WellFormed(p)
         /\ p[2] \in Nat /\ 1 <= p[2] /\ p[2] <= MaxTxnId
         /\ Size(p) \in Nat /\ Size(p) > 2 * FieldCells /\ Size(p) = Len(p) + 2 * FieldCells
<1>1. p \in Seq(Items) /\ WellFormed(p) /\ p[2] \in TxnIds
  BY DEF Payloads
<1>2. Len(p) \in Nat
  BY <1>1
<1>3. Len(p) >= 3 /\ p[2] \in Nat
  BY <1>1 DEF WellFormed
<1>4. 1 <= p[2] /\ p[2] <= MaxTxnId
  BY <1>1, WalAssumption DEF TxnIds
<1>5. Size(p) \in Nat /\ Size(p) > 2 * FieldCells /\ Size(p) = Len(p) + 2 * FieldCells
  BY <1>2, <1>3, WalAssumption DEF Size
<1> QED  BY <1>1, <1>2, <1>3, <1>4, <1>5

\* serialiseTransactionCommitPayload returns what the replay accepts.
LEMMA SerialisedPayload ==
  ASSUME NEW writeMap \in WriteMaps, NEW t \in TxnIds,
         NEW payload \in PayloadsOf(writeMap, t)
  PROVE  payload \in Payloads /\ payload[2] = t
<1> DEFINE D == DOMAIN writeMap
<1>1. IsFiniteSet(D) /\ D \subseteq Keys /\ writeMap \in [D -> Values]
  BY DEF WriteMaps
<1>2. Cardinality(D) \in Nat
  BY <1>1, FS_CardinalityType
<1>3. PICK order \in SetToSeqs(D) :
        payload = serialiseTransactionCommitPayload(writeMap, t, order)
  BY DEF PayloadsOf
<1> DEFINE m == Cardinality(D)
<1>4. order \in [1 .. m -> D]
  BY <1>3 DEF SetToSeqs
<1> HIDE DEF m, D
<1>5. m \in Nat
  BY <1>2 DEF m
<1>6. order \in Seq(Keys) /\ Len(order) = m
  BY <1>1, <1>4, <1>5
<1> DEFINE head == <<CmdTransaction, t, m>>
           tail == [i \in 1 .. 2 * m |->
                      IF i % 2 = 1 THEN order[(i + 1) \div 2]
                                   ELSE writeMap[order[i \div 2]]]
<1>7. payload = head \o tail
  BY <1>3, <1>6 DEF serialiseTransactionCommitPayload
<1>8. ASSUME NEW j \in 1 .. m
      PROVE  /\ 2 * j - 1 \in 1 .. 2 * m /\ (2 * j - 1) % 2 = 1 /\ (2 * j - 1 + 1) \div 2 = j
             /\ 2 * j \in 1 .. 2 * m /\ (2 * j) % 2 = 0 /\ (2 * j) \div 2 = j
  BY <1>5
<1>9. ASSUME NEW j \in 1 .. m
      PROVE  tail[2 * j - 1] = order[j] /\ tail[2 * j] = writeMap[order[j]]
  <2>1. order[j] \in D
    BY <1>4
  <2> QED  BY <1>8
<1>10. ASSUME NEW i \in 1 .. 2 * m
       PROVE  tail[i] \in Keys \cup Values
  <2>1. CASE i % 2 = 1
    <3>1. (i + 1) \div 2 \in 1 .. m
      BY <1>5, <2>1
    <3> QED  BY <2>1, <3>1, <1>4, <1>1
  <2>2. CASE i % 2 # 1
    <3>1. i \div 2 \in 1 .. m
      BY <1>5, <2>2
    <3>2. order[i \div 2] \in D
      BY <3>1, <1>4
    <3> QED  BY <2>2, <3>2, <1>1
  <2> QED  BY <2>1, <2>2
<1>11. tail \in Seq(Items) /\ Len(tail) = 2 * m
  <2>1. tail \in [1 .. 2 * m -> Items]
    BY <1>10 DEF Items
  <2> QED  BY <2>1, <1>5
<1>12. t \in Nat /\ head \in Seq(Items) /\ Len(head) = 3
  BY <1>5, WalAssumption DEF Items, TxnIds
<1>13. head[1] = CmdTransaction /\ head[2] = t /\ head[3] = m
  OBVIOUS
<1> HIDE DEF head, tail
<1>14. /\ payload \in Seq(Items) /\ Len(payload) = 3 + 2 * m
       /\ payload[1] = head[1] /\ payload[2] = head[2] /\ payload[3] = head[3]
  <2>1. /\ head \o tail \in Seq(Items) /\ Len(head \o tail) = Len(head) + Len(tail)
        /\ \A i \in 1 .. Len(head) : (head \o tail)[i] = head[i]
    BY <1>11, <1>12, Joined, Zenon
  <2>2. 1 \in 1 .. Len(head) /\ 2 \in 1 .. Len(head) /\ 3 \in 1 .. Len(head)
    BY <1>12
  <2>3. payload[1] = head[1] /\ payload[2] = head[2] /\ payload[3] = head[3]
    BY <2>1, <2>2, <1>7, Zenon
  <2>4. payload \in Seq(Items) /\ Len(payload) = Len(head) + Len(tail)
    BY <2>1, <1>7, Zenon
  <2> QED  BY <2>3, <2>4, <1>5, <1>11, <1>12
<1>15. ASSUME NEW j \in 1 .. m
       PROVE  payload[2 + 2 * j] \in Keys /\ payload[3 + 2 * j] \in Values
  <2>1. payload[2 + 2 * j] = tail[2 * j - 1] /\ payload[3 + 2 * j] = tail[2 * j]
    <3>0. \A i \in 1 .. Len(tail) : (head \o tail)[Len(head) + i] = tail[i]
      <4>1. head \in Seq(Items) /\ tail \in Seq(Items)
        BY <1>11, <1>12
      <4> QED  BY <4>1
    <3>1. \A i \in 1 .. Len(tail) : payload[Len(head) + i] = tail[i]
      BY <3>0, <1>7, Zenon
    <3>2. payload[3 + (2 * j - 1)] = tail[2 * j - 1] /\ payload[3 + 2 * j] = tail[2 * j]
      BY <3>1, <1>8, <1>11, <1>12
    <3>3. 3 + (2 * j - 1) = 2 + 2 * j
      BY <1>5
    <3> QED  BY <3>2, <3>3
  <2>2. order[j] \in D
    BY <1>4
  <2> QED  BY <2>1, <2>2, <1>9, <1>1
<1>16. WellFormed(payload)
  BY <1>5, <1>12, <1>13, <1>14 DEF WellFormed
<1> QED  BY <1>13, <1>14, <1>15, <1>16 DEF Payloads

\* The cells of a frame.
LEMMA FrameCells ==
  ASSUME NEW p \in Payloads
  PROVE  /\ Frame(p) \in Seq(Cell) /\ Len(Frame(p)) = Size(p)
         /\ \A j \in 1 .. Size(p) : Frame(p)[j] = [of |-> p, at |-> j]
<1>1. Size(p) \in Nat
  BY PayloadFacts
<1>2. Frame(p) = [j \in 1 .. Size(p) |-> [of |-> p, at |-> j]]
  BY DEF Frame, Size
<1>3. Frame(p) \in [1 .. Size(p) -> Cell]
  BY <1>1, <1>2 DEF Cell
<1> QED  BY <1>1, <1>2, <1>3

\* The file has grown by the first n cells of a frame.
Grown(p, n) ==
  /\ n \in 0 .. Size(p)
  /\ file' \in Seq(Cell) /\ Len(file') = Len(file) + n /\ Len(file') <= MaxFileCells
  /\ \A i \in 1 .. Len(file) : file'[i] = file[i]
  /\ \A j \in 1 .. n : file'[Len(file) + j] = [of |-> p, at |-> j]

\* Write and WriteFails append the whole frame, or a part that lacks its end.
LEMMA WriteGrows ==
  ASSUME Types, NEW p \in Payloads
  PROVE  /\ Write(p) => Grown(p, Size(p))
         /\ WriteFails(p) => \E n \in 0 .. Size(p) - 1 : Grown(p, n)
<1>1. file \in Seq(Cell) /\ Size(p) \in Nat /\ Size(p) > 0
  BY PayloadFacts, WalAssumption DEF Types
<1>2. ASSUME Write(p) PROVE Grown(p, Size(p))
  <2>1. file' = file \o Frame(p) /\ Len(file) + Size(p) <= MaxFileCells
    BY <1>2, FrameCells DEF Write
  <2> DEFINE u == Frame(p)
  <2>2. u \in Seq(Cell) /\ Len(u) = Size(p) /\ \A j \in 1 .. Size(p) : u[j] = [of |-> p, at |-> j]
    BY FrameCells
  <2> HIDE DEF u
  <2>3. /\ file' \in Seq(Cell) /\ Len(file') = Len(file) + Len(u)
        /\ \A i \in 1 .. Len(file) : file'[i] = file[i]
        /\ \A j \in 1 .. Len(u) : file'[Len(file) + j] = u[j]
    <3>1. file' = file \o u
      BY <2>1 DEF u
    <3>2. file \in Seq(Cell) /\ u \in Seq(Cell)
      BY <1>1, <2>2
    <3>3. /\ file \o u \in Seq(Cell) /\ Len(file \o u) = Len(file) + Len(u)
          /\ \A i \in 1 .. Len(file) : (file \o u)[i] = file[i]
      BY <3>2, Joined, Zenon
    <3>4. \A j \in 1 .. Len(u) : (file \o u)[Len(file) + j] = u[j]
      BY <3>2
    <3> QED  BY <3>1, <3>3, <3>4, Zenon
  <2> QED  BY <1>1, <2>1, <2>2, <2>3 DEF Grown
<1>3. ASSUME WriteFails(p) PROVE \E n \in 0 .. Size(p) - 1 : Grown(p, n)
  <2>1. PICK n \in 0 .. Size(p) - 1 : /\ file' = file \o SubSeq(Frame(p), 1, n)
                                     /\ Len(file) + n <= MaxFileCells
    BY <1>3, FrameCells DEF WriteFails
  <2>2. /\ SubSeq(Frame(p), 1, n) \in Seq(Cell) /\ Len(SubSeq(Frame(p), 1, n)) = n
        /\ \A j \in 1 .. n : SubSeq(Frame(p), 1, n)[j] = [of |-> p, at |-> j]
    BY <1>1, FrameCells
  <2> DEFINE u == SubSeq(Frame(p), 1, n)
  <2> HIDE DEF u
  <2>3. u \in Seq(Cell) /\ Len(u) = n /\ \A j \in 1 .. n : u[j] = [of |-> p, at |-> j]
    BY <2>2 DEF u
  <2>4. /\ file' \in Seq(Cell) /\ Len(file') = Len(file) + Len(u)
        /\ \A i \in 1 .. Len(file) : file'[i] = file[i]
        /\ \A j \in 1 .. Len(u) : file'[Len(file) + j] = u[j]
    <3>1. file' = file \o u
      BY <2>1 DEF u
    <3>2. file \in Seq(Cell) /\ u \in Seq(Cell)
      BY <1>1, <2>3
    <3>3. /\ file \o u \in Seq(Cell) /\ Len(file \o u) = Len(file) + Len(u)
          /\ \A i \in 1 .. Len(file) : (file \o u)[i] = file[i]
      BY <3>2, Joined, Zenon
    <3>4. \A j \in 1 .. Len(u) : (file \o u)[Len(file) + j] = u[j]
      BY <3>2
    <3> QED  BY <3>1, <3>3, <3>4, Zenon
  <2>5. Grown(p, n)
    BY <1>1, <2>1, <2>3, <2>4 DEF Grown
  <2> QED  BY <2>5
<1> QED  BY <1>2, <1>3

\* A cell, its frame and where that ends.
LEMMA CellFacts ==
  ASSUME file \in Seq(Cell), Framed, NEW i \in 1 .. Len(file)
  PROVE  /\ file[i].of \in Payloads /\ file[i].at \in 1 .. i
         /\ file[i].at <= Size(file[i].of) /\ Size(file[i].of) \in Nat
         /\ file[i] = [of |-> file[i].of, at |-> file[i].at]
         /\ FrameEnd(i) \in Nat /\ i <= FrameEnd(i)
<1>1. file[i] \in Cell
  OBVIOUS
<1>2. file[i].of \in Payloads /\ file[i].at \in Nat /\ file[i].at > 0
      /\ file[i] = [of |-> file[i].of, at |-> file[i].at]
  BY <1>1 DEF Cell
<1>3. Size(file[i].of) \in Nat
  BY <1>2, PayloadFacts
<1>4. file[i].at <= Size(file[i].of) /\ file[i].at <= i
  BY DEF Framed
<1> QED  BY <1>2, <1>3, <1>4 DEF FrameEnd

\* The two files agree on their first n cells.
SameUpTo(n) ==
  /\ n \in 0 .. Len(file) /\ n <= Len(file')
  /\ \A i \in 1 .. n : file'[i] = file[i]

\* Whether the first w cells are whole records depends on them only.
LEMMA WholeSame ==
  ASSUME file \in Seq(Cell), Framed, NEW n, SameUpTo(n), NEW w \in 0 .. n
  PROVE  Whole(w)' <=> Whole(w)
<1>1. /\ n \in 0 .. Len(file) /\ Len(file) \in Nat /\ n \in Nat
      /\ \A i \in 1 .. n : file'[i] = file[i]
  BY DEF SameUpTo
<1>2. ASSUME NEW i \in 1 .. w
      PROVE  /\ file'[i] = file[i] /\ FrameEnd(i)' = FrameEnd(i)
             /\ FrameEnd(i) \in Nat /\ i <= FrameEnd(i)
             /\ FrameEnd(i) <= w => file'[FrameEnd(i)] = file[FrameEnd(i)]
  <2>1. i \in 1 .. n /\ i \in 1 .. Len(file)
    BY <1>1
  <2>2. file'[i] = file[i]
    BY <1>1, <2>1
  <2>3. FrameEnd(i) \in Nat /\ i <= FrameEnd(i)
    BY <2>1, CellFacts
  <2>4. FrameEnd(i)' = FrameEnd(i)
    BY <2>2 DEF FrameEnd
  <2>5. FrameEnd(i) <= w => FrameEnd(i) \in 1 .. n
    BY <1>1, <2>1, <2>3
  <2> QED  BY <1>1, <2>2, <2>3, <2>4, <2>5
<1>3. ASSUME Whole(w) PROVE Whole(w)'
  <2> SUFFICES ASSUME NEW i \in 1 .. w
               PROVE  /\ FrameEnd(i)' <= w
                      /\ file'[FrameEnd(i)'] = [of |-> file'[i].of, at |-> Size(file'[i].of)]
    BY DEF Whole, Size
  <2>1. /\ FrameEnd(i) <= w
        /\ file[FrameEnd(i)] = [of |-> file[i].of, at |-> Size(file[i].of)]
    BY <1>3 DEF Whole
  <2> QED  BY <2>1, <1>2
<1>4. ASSUME Whole(w)' PROVE Whole(w)
  <2> SUFFICES ASSUME NEW i \in 1 .. w
               PROVE  /\ FrameEnd(i) <= w
                      /\ file[FrameEnd(i)] = [of |-> file[i].of, at |-> Size(file[i].of)]
    BY DEF Whole
  <2>1. /\ FrameEnd(i)' <= w
        /\ file'[FrameEnd(i)'] = [of |-> file'[i].of, at |-> Size(file'[i].of)]
    BY <1>4 DEF Whole, Size
  <2> QED  BY <2>1, <1>2
<1> QED  BY <1>3, <1>4

\* A file that has grown still consists of beginnings of frames.
LEMMA GrownFramed ==
  ASSUME file \in Seq(Cell), Framed, NEW p \in Payloads, NEW n, Grown(p, n)
  PROVE  Framed'
<1> SUFFICES ASSUME NEW i \in 1 .. Len(file')
             PROVE  /\ file'[i].at <= Size(file'[i].of) /\ file'[i].at <= i
                    /\ \A j \in 1 .. file'[i].at :
                         file'[i - file'[i].at + j] = [of |-> file'[i].of, at |-> j]
  BY DEF Framed, Size
<1>1. /\ n \in 0 .. Size(p) /\ Len(file') = Len(file) + n
      /\ \A k \in 1 .. Len(file) : file'[k] = file[k]
      /\ \A j \in 1 .. n : file'[Len(file) + j] = [of |-> p, at |-> j]
      /\ Size(p) \in Nat /\ Len(file) \in Nat
  BY PayloadFacts DEF Grown
<1>2. CASE i \in 1 .. Len(file)
  <2>1. /\ file'[i] = file[i] /\ file[i].at \in 1 .. i /\ file[i].at <= Size(file[i].of)
        /\ \A j \in 1 .. file[i].at :
             file[i - file[i].at + j] = [of |-> file[i].of, at |-> j]
    BY <1>1, <1>2, CellFacts DEF Framed
  <2>2. ASSUME NEW j \in 1 .. file[i].at
        PROVE  file'[i - file[i].at + j] = file[i - file[i].at + j]
    BY <1>1, <1>2, <2>1
  <2>3. \A j \in 1 .. file[i].at :
          file'[i - file[i].at + j] = [of |-> file[i].of, at |-> j]
    BY <2>1, <2>2
  <2>4. file[i].at <= i
    BY <2>1
  <2> QED  BY <2>1, <2>3, <2>4, Zenon
<1>3. CASE i \notin 1 .. Len(file)
  <2>1. PICK k \in 1 .. n : i = Len(file) + k
    <3>1. i - Len(file) \in 1 .. n
      BY <1>1, <1>3
    <3> QED  BY <3>1, <1>1
  <2>2. file'[i] = [of |-> p, at |-> k]
    BY <1>1, <2>1
  <2>3. ASSUME NEW j \in 1 .. k
        PROVE  file'[i - k + j] = [of |-> p, at |-> j]
    <3>1. i - k + j = Len(file) + j /\ j \in 1 .. n
      BY <1>1, <2>1
    <3> QED  BY <3>1, <1>1
  <2>4. file'[i].of = p /\ file'[i].at = k
    BY <2>2
  <2>5. k <= Size(p) /\ k <= i
    BY <1>1, <2>1
  <2> QED  BY <2>3, <2>4, <2>5
<1> QED  BY <1>2, <1>3

\* If a file that has grown has whole records beyond its former end, the
\* former file held whole records only and the whole new frame was written.
LEMMA GrownWhole ==
  ASSUME file \in Seq(Cell), Framed, NEW p \in Payloads, NEW n, Grown(p, n),
         NEW w \in 0 .. Len(file'), Whole(w)'
  PROVE  \/ w <= Len(file) /\ Whole(w)
         \/ n = Size(p) /\ Whole(Len(file))
<1>1. /\ n \in 0 .. Size(p) /\ Len(file') = Len(file) + n
      /\ \A k \in 1 .. Len(file) : file'[k] = file[k]
      /\ \A j \in 1 .. n : file'[Len(file) + j] = [of |-> p, at |-> j]
      /\ Size(p) \in Nat /\ Len(file) \in Nat
  BY PayloadFacts DEF Grown
<1>2. SameUpTo(Len(file))
  BY <1>1 DEF SameUpTo
<1>3. CASE w <= Len(file)
  <2>1. w \in 0 .. Len(file)
    BY <1>1, <1>3
  <2> QED  BY <1>2, <1>3, <2>1, WholeSame
<1>4. CASE w > Len(file)
  <2>1. PICK L \in Nat : L = Len(file)
    BY <1>1
  <2>2. n > 0 /\ L + 1 \in 1 .. w /\ 1 \in 1 .. n /\ w <= L + n
    BY <1>1, <1>4, <2>1
  <2>3. \A i \in 1 .. w :
          /\ FrameEnd(i)' <= w
          /\ file'[FrameEnd(i)'] = [of |-> file'[i].of, at |-> Size(file'[i].of)]
    BY DEF Whole, Size
  <2>4. \A i : FrameEnd(i)' = i - file'[i].at + Size(file'[i].of)
    BY DEF FrameEnd, Size
  <2>5. n = Size(p)
    <3>1. file'[L + 1] = [of |-> p, at |-> 1]
      BY <1>1, <2>1, <2>2
    <3>2. FrameEnd(L + 1)' = L + Size(p)
      BY <1>1, <2>4, <3>1
    <3>3. FrameEnd(L + 1)' <= w
      BY <2>2, <2>3, Zenon
    <3> QED  BY <1>1, <2>2, <3>2, <3>3
  <2>6. ASSUME NEW i \in 1 .. L
        PROVE  /\ FrameEnd(i) <= L
               /\ file[FrameEnd(i)] = [of |-> file[i].of, at |-> Size(file[i].of)]
    <3>1. /\ file'[i] = file[i] /\ i \in 1 .. w /\ i \in 1 .. Len(file)
      BY <1>1, <1>4, <2>1
    <3>2. FrameEnd(i)' = FrameEnd(i)
      BY <2>4, <3>1 DEF FrameEnd
    <3>3. /\ FrameEnd(i) <= w /\ FrameEnd(i) \in Nat /\ i <= FrameEnd(i)
          /\ file'[FrameEnd(i)] = [of |-> file[i].of, at |-> Size(file[i].of)]
          /\ FrameEnd(i) = i - file[i].at + Size(file[i].of)
          /\ file[i].at \in 1 .. i /\ Size(file[i].of) \in Nat
      BY <2>3, <3>1, <3>2, CellFacts DEF FrameEnd
    <3>4. CASE FrameEnd(i) > L
      <4>1. PICK k \in 1 .. n : FrameEnd(i) = L + k
        <5>1. FrameEnd(i) - L \in 1 .. n
          BY <1>1, <2>2, <3>3, <3>4
        <5> QED  BY <5>1, <3>3
      <4>2. file'[FrameEnd(i)] = [of |-> p, at |-> k]
        BY <1>1, <2>1, <4>1
      <4>3. k = Size(file[i].of)
        BY <3>3, <4>2
      <4> QED  BY <3>3, <4>1, <4>3
    <3>5. CASE FrameEnd(i) <= L
      <4>1. FrameEnd(i) \in 1 .. Len(file)
        BY <2>1, <3>3, <3>5
      <4> QED  BY <1>1, <3>3, <3>5, <4>1
    <3> QED  BY <3>3, <3>4, <3>5
  <2>7. Whole(L)
    BY <2>6 DEF Whole
  <2> QED  BY <2>1, <2>5, <2>7
<1> QED  BY <1>1, <1>3, <1>4

\* A file cut off after n cells.
LEMMA CutFile ==
  ASSUME file \in Seq(Cell), Framed, NEW n \in 0 .. Len(file), file' = SubSeq(file, 1, n)
  PROVE  /\ file' \in Seq(Cell) /\ Len(file') = n /\ SameUpTo(n)
         /\ Framed'
<1>1. /\ file' \in Seq(Cell) /\ Len(file') = n /\ n \in Nat /\ Len(file) \in Nat
      /\ \A i \in 1 .. n : file'[i] = file[i]
  OBVIOUS
<1>2. SameUpTo(n)
  BY <1>1 DEF SameUpTo
<1>3. ASSUME NEW i \in 1 .. Len(file')
      PROVE  /\ file'[i].at <= Size(file'[i].of) /\ file'[i].at <= i
             /\ \A j \in 1 .. file'[i].at :
                  file'[i - file'[i].at + j] = [of |-> file'[i].of, at |-> j]
  <2>1. i \in 1 .. Len(file) /\ i \in 1 .. n /\ file'[i] = file[i]
    BY <1>1
  <2>2. /\ file[i].at \in 1 .. i /\ file[i].at <= Size(file[i].of)
        /\ \A j \in 1 .. file[i].at :
             file[i - file[i].at + j] = [of |-> file[i].of, at |-> j]
    BY <2>1, CellFacts DEF Framed
  <2>3. ASSUME NEW j \in 1 .. file[i].at
        PROVE  file'[i - file[i].at + j] = file[i - file[i].at + j]
    BY <1>1, <2>1, <2>2
  <2> QED  BY <2>1, <2>2, <2>3
<1> QED  BY <1>1, <1>2, <1>3 DEF Framed, Size

-------------------------------------------------------------------------------
(***************************************************************************)
(* Reading records                                                         *)
(***************************************************************************)

\* The whole frame of a payload lies behind the first p cells.
FrameAt(p, payload) ==
  /\ p + Size(payload) <= Len(file)
  /\ \A j \in 1 .. Size(payload) : file[p + j] = [of |-> payload, at |-> j]

\* The two fields of a frame.
LEMMA Fields ==
  ASSUME NEW p, NEW n \in Nat, n = Len(p)
  PROVE  /\ Len(LengthField(p)) = FieldCells /\ Len(ChecksumField(p)) = FieldCells
         /\ \A j \in 1 .. FieldCells : LengthField(p)[j] = [of |-> p, at |-> j]
         /\ \A j \in 1 .. FieldCells :
              ChecksumField(p)[j] = [of |-> p, at |-> n + FieldCells + j]
         /\ LengthField(p) = [j \in 1 .. FieldCells |-> [of |-> p, at |-> j]]
         /\ ChecksumField(p) = [j \in 1 .. FieldCells |-> [of |-> p, at |-> n + FieldCells + j]]
<1> DEFINE S == {[of |-> p, at |-> j] : j \in Nat}
           f == Frame(p)
<1>1. FieldCells \in Nat /\ FieldCells > 0
  BY WalAssumption
<1>2. f = [i \in 1 .. n + 2 * FieldCells |-> [of |-> p, at |-> i]]
  BY DEF Frame
<1>3. f \in [1 .. n + 2 * FieldCells -> S]
  BY <1>1, <1>2
<1>4. f \in Seq(S) /\ Len(f) = n + 2 * FieldCells
  BY <1>1, <1>3
<1>5. \A j \in 1 .. n + 2 * FieldCells : f[j] = [of |-> p, at |-> j]
  BY <1>2
<1> HIDE DEF f, S
<1> DEFINE l == SubSeq(f, 1, FieldCells)
           c == SubSeq(f, n + FieldCells + 1, n + 2 * FieldCells)
<1>6. l \in Seq(S) /\ Len(l) = FieldCells /\ \A j \in 1 .. FieldCells : l[j] = f[j]
  BY <1>1, <1>4
<1>7. c \in Seq(S) /\ Len(c) = FieldCells
      /\ \A j \in 1 .. FieldCells : c[j] = f[n + FieldCells + j]
  BY <1>1, <1>4
<1>8. l = LengthField(p) /\ c = ChecksumField(p)
  BY DEF LengthField, ChecksumField, f
<1> HIDE DEF l, c
<1> DEFINE N == n + 2 * FieldCells
<1>13. \A j \in 1 .. FieldCells : j \in 1 .. N /\ n + FieldCells + j \in 1 .. N
  BY <1>1
<1>14. \A j \in 1 .. N : f[j] = [of |-> p, at |-> j]
  BY <1>5
<1> HIDE DEF N
<1>9. \A j \in 1 .. FieldCells : l[j] = [of |-> p, at |-> j]
  BY <1>6, <1>13, <1>14, Zenon
<1>10. \A j \in 1 .. FieldCells : c[j] = [of |-> p, at |-> n + FieldCells + j]
  BY <1>7, <1>13, <1>14, Zenon
<1>11. l = [j \in 1 .. FieldCells |-> [of |-> p, at |-> j]]
  BY <1>1, <1>6, <1>9
<1>12. c = [j \in 1 .. FieldCells |-> [of |-> p, at |-> n + FieldCells + j]]
  BY <1>1, <1>7, <1>10
<1> QED  BY <1>6, <1>7, <1>8, <1>9, <1>10, <1>11, <1>12

\* FieldCells cells of the file.
LEMMA CellsAt ==
  ASSUME file \in Seq(Cell), NEW p \in Nat, p + FieldCells <= Len(file)
  PROVE  /\ Cells(p, FieldCells) = [j \in 1 .. FieldCells |-> file[p + j]]
         /\ \A j \in 1 .. FieldCells : Cells(p, FieldCells)[j] = file[p + j]
<1>1. FieldCells \in Nat /\ FieldCells > 0 /\ Len(file) \in Nat
  BY WalAssumption
<1> DEFINE c == SubSeq(file, p + 1, p + FieldCells)
<1>2. c \in Seq(Cell) /\ Len(c) = FieldCells /\ \A j \in 1 .. FieldCells : c[j] = file[p + j]
  BY <1>1
<1>3. c = Cells(p, FieldCells)
  BY DEF Cells
<1> HIDE DEF c
<1>4. c = [j \in 1 .. FieldCells |-> file[p + j]]
  BY <1>1, <1>2
<1> QED  BY <1>2, <1>3, <1>4

\* What PayloadLengths gives are numbers.
LEMMA LengthTypes ==
  ASSUME file \in Seq(Cell), NEW p \in Nat, p + FieldCells <= Len(file)
  PROVE  PayloadLengths(Cells(p, FieldCells)) \subseteq Nat
<1>1. FieldCells \in Nat /\ 1 \in 1 .. FieldCells /\ p + 1 \in 1 .. Len(file)
  BY WalAssumption
<1>2. Cells(p, FieldCells)[1] = file[p + 1]
  BY <1>1, CellsAt
<1>3. file[p + 1] \in Cell
  BY <1>1
<1>4. Len(file[p + 1].of) \in Nat
  BY <1>3, PayloadFacts DEF Cell
<1>5. 0 .. MaxFileCells + 1 \subseteq Nat
  BY WalAssumption
<1> QED  BY <1>2, <1>4, <1>5 DEF PayloadLengths

\* A record that ReadEntry accepts is a whole frame at the offset, whatever
\* the length field was made of: the checksum is the end of a frame, whose
\* other cells lie before it.
LEMMA RecordRead ==
  ASSUME file \in Seq(Cell), Framed, NEW p \in 0 .. Len(file),
         NEW r \in ReadEntry(p), r.err = "none"
  PROVE  /\ r.payload \in Payloads /\ FrameAt(p, r.payload)
         /\ r.pos = p + Size(r.payload)
<1>1. FieldCells \in Nat /\ FieldCells > 0 /\ Len(file) \in Nat /\ p \in Nat
  BY WalAssumption
<1>2. EOF.err # "none" /\ Corrupt.err # "none"
  BY DEF EOF, Corrupt
<1>3. /\ ~(Available(p) < FieldCells)
      /\ r \in { ReadPayload(p + FieldCells, n) : n \in PayloadLengths(Cells(p, FieldCells)) }
  BY <1>2 DEF ReadEntry
<1>4. p + FieldCells <= Len(file)
  BY <1>1, <1>3 DEF Available
<1>5. PICK n \in PayloadLengths(Cells(p, FieldCells)) : r = ReadPayload(p + FieldCells, n)
  BY <1>3
<1>6. n \in Nat
  BY <1>1, <1>4, LengthTypes
<1> DEFINE payload == [i \in 1 .. n |-> Item(file[p + FieldCells + i])]
           q == p + FieldCells + n
<1>7. /\ ~(Available(p + FieldCells) < n + FieldCells)
      /\ Verified(payload, q)
      /\ r = [err |-> "none", payload |-> payload, pos |-> q + FieldCells]
  BY <1>2, <1>5 DEF ReadPayload
<1>8. r.payload = payload /\ r.pos = q + FieldCells
  BY <1>7
<1>9. Len(payload) = n
  BY <1>6
<1> HIDE DEF payload
<1>10. q \in Nat /\ q + FieldCells <= Len(file) /\ q + FieldCells \in 1 .. Len(file)
       /\ FieldCells \in 1 .. FieldCells
  BY <1>1, <1>6, <1>7 DEF Available
<1>11. Cells(q, FieldCells) = ChecksumField(payload)
  BY <1>7 DEF Verified
<1>12. ChecksumField(payload)[FieldCells] = [of |-> payload, at |-> n + FieldCells + FieldCells]
  BY <1>6, <1>9, <1>10, Fields
<1>13. Cells(q, FieldCells)[FieldCells] = file[q + FieldCells]
  BY <1>10, CellsAt
<1> DEFINE m == q + FieldCells
<1>14. file[m] = [of |-> payload, at |-> n + 2 * FieldCells]
  <2>1. n + FieldCells + FieldCells = n + 2 * FieldCells
    BY <1>1, <1>6
  <2> QED  BY <1>11, <1>12, <1>13, <2>1
<1>15. m \in 1 .. Len(file) /\ m - (n + 2 * FieldCells) = p
  BY <1>1, <1>6, <1>10
<1> HIDE DEF m, q
<1>16. file[m].of = payload /\ file[m].at = n + 2 * FieldCells
  BY <1>14
<1>17. payload \in Payloads
  BY <1>15, <1>16, CellFacts
<1>18. Size(payload) = n + 2 * FieldCells
  BY <1>9 DEF Size
<1>19. \A j \in 1 .. Size(payload) : file[p + j] = [of |-> payload, at |-> j]
  <2>1. \A j \in 1 .. file[m].at : file[m - file[m].at + j] = [of |-> file[m].of, at |-> j]
    BY <1>15 DEF Framed
  <2> QED  BY <2>1, <1>15, <1>16, <1>18
<1>20. m = p + Size(payload) /\ m <= Len(file)
  BY <1>1, <1>6, <1>15, <1>18
<1> QED  BY <1>8, <1>17, <1>19, <1>20 DEF FrameAt, m

\* ReadEntry accepts a whole frame unless it is too long.
LEMMA FrameRead ==
  ASSUME file \in Seq(Cell), NEW p \in 0 .. Len(file), NEW payload \in Payloads,
         FrameAt(p, payload), NEW r \in ReadEntry(p)
  PROVE  \/ r.err = "none"
         \/ r.err = "corrupt" /\ Len(payload) > SizeLimit
<1> DEFINE n == Len(payload)
<1>1. /\ FieldCells \in Nat /\ FieldCells > 0 /\ Len(file) \in Nat /\ p \in Nat
      /\ n \in Nat /\ n > 0 /\ Size(payload) = n + 2 * FieldCells
  BY WalAssumption, PayloadFacts
<1>2. /\ p + n + 2 * FieldCells <= Len(file)
      /\ \A j \in 1 .. n + 2 * FieldCells : file[p + j] = [of |-> payload, at |-> j]
  BY <1>1 DEF FrameAt
<1> HIDE DEF n
<1>3. Cells(p, FieldCells) = LengthField(payload)
  <2>1. Cells(p, FieldCells) = [j \in 1 .. FieldCells |-> file[p + j]]
    BY <1>1, <1>2, CellsAt
  <2>2. LengthField(payload) = [j \in 1 .. FieldCells |-> [of |-> payload, at |-> j]]
    BY <1>1, Fields DEF n
  <2>3. \A j \in 1 .. FieldCells : file[p + j] = [of |-> payload, at |-> j]
    BY <1>1, <1>2
  <2> QED  BY <2>1, <2>2, <2>3
<1>4. Cells(p, FieldCells)[1].of = payload
  <2>1. 1 \in 1 .. FieldCells /\ 1 \in 1 .. n + 2 * FieldCells
    BY <1>1
  <2>2. Cells(p, FieldCells)[1] = file[p + 1] /\ file[p + 1] = [of |-> payload, at |-> 1]
    <3>1. p + FieldCells <= Len(file)
      BY <1>1, <1>2
    <3>2. Cells(p, FieldCells)[1] = file[p + 1]
      BY <1>1, <2>1, <3>1, CellsAt
    <3> QED  BY <1>2, <2>1, <3>2
  <2> QED  BY <2>2
<1>5. PayloadLengths(Cells(p, FieldCells)) = {n}
  BY <1>3, <1>4 DEF PayloadLengths, n
<1> DEFINE b == p + FieldCells
<1>6. r = ReadPayload(b, n)
  <2>1. ~(Available(p) = 0) /\ ~(Available(p) < FieldCells)
    BY <1>1, <1>2 DEF Available
  <2> QED  BY <1>5, <2>1 DEF ReadEntry
<1> DEFINE got == [i \in 1 .. n |-> Item(file[b + i])]
<1>7. got = payload
  <2>1. payload \in Seq(Items)
    BY DEF Payloads
  <2>2. payload = [i \in 1 .. n |-> payload[i]]
    BY <1>1, <2>1 DEF n
  <2>3. ASSUME NEW i \in 1 .. n PROVE Item(file[b + i]) = payload[i]
    <3>1. FieldCells + i \in 1 .. n + 2 * FieldCells /\ b + i = p + (FieldCells + i)
          /\ FieldCells + i \in FieldCells + 1 .. FieldCells + n
          /\ (FieldCells + i) - FieldCells = i
      BY <1>1
    <3>2. file[b + i] = [of |-> payload, at |-> FieldCells + i]
      BY <1>2, <3>1
    <3>3. file[b + i].of = payload /\ file[b + i].at = FieldCells + i
      BY <3>2
    <3> QED  BY <3>1, <3>3 DEF Item, n
  <2> QED  BY <2>2, <2>3
<1>8. Verified(got, b + n)
  <2>1. b + n \in Nat /\ (b + n) + FieldCells <= Len(file)
    BY <1>1, <1>2
  <2>2. Cells(b + n, FieldCells) = [j \in 1 .. FieldCells |-> file[b + n + j]]
    BY <2>1, CellsAt
  <2>3. ChecksumField(payload)
          = [j \in 1 .. FieldCells |-> [of |-> payload, at |-> n + FieldCells + j]]
    BY <1>1, Fields DEF n
  <2>4. ASSUME NEW j \in 1 .. FieldCells
        PROVE  file[b + n + j] = [of |-> payload, at |-> n + FieldCells + j]
    <3>1. n + FieldCells + j \in 1 .. n + 2 * FieldCells
          /\ b + n + j = p + (n + FieldCells + j)
      BY <1>1
    <3> QED  BY <1>2, <3>1
  <2> QED  BY <1>7, <2>2, <2>3, <2>4 DEF Verified
<1>9. ~(Available(b) \in {0, n}) /\ ~(Available(b) < n + FieldCells)
  BY <1>1, <1>2 DEF Available
<1>10. CASE TooLong(n)
  <2>1. r = Corrupt
    BY <1>6, <1>10 DEF ReadPayload
  <2> QED  BY <2>1, <1>10 DEF Corrupt, TooLong, n
<1>11. CASE ~TooLong(n)
  <2>1. r = [err |-> "none", payload |-> got, pos |-> b + n + FieldCells]
    BY <1>6, <1>8, <1>9, <1>11 DEF ReadPayload
  <2> QED  BY <2>1
<1> QED  BY <1>10, <1>11

\* Behind whole records a frame begins.
LEMMA FrameBegins ==
  ASSUME file \in Seq(Cell), Framed, NEW o \in 0 .. Len(file), o # Len(file), Whole(o)
  PROVE  /\ o + 1 \in 1 .. Len(file)
         /\ file[o + 1].of \in Payloads /\ file[o + 1] = [of |-> file[o + 1].of, at |-> 1]
<1>1. o + 1 \in 1 .. Len(file) /\ Len(file) \in Nat
  OBVIOUS
<1> DEFINE P == file[o + 1].of
           a == file[o + 1].at
<1>2. /\ P \in Payloads /\ a \in 1 .. o + 1 /\ a <= Size(P) /\ Size(P) \in Nat
      /\ file[o + 1] = [of |-> P, at |-> a]
  BY <1>1, CellFacts
<1>3. CASE a > 1
  <2>1. file[(o + 1) - a + (a - 1)] = [of |-> P, at |-> a - 1]
    <3>1. a - 1 \in 1 .. a
      BY <1>2, <1>3
    <3> QED  BY <1>1, <3>1 DEF Framed
  <2> HIDE DEF P, a
  <2>2. (o + 1) - a + (a - 1) = o /\ o \in 1 .. o
    BY <1>2, <1>3
  <2>3. file[o].of = P /\ file[o].at = a - 1
    BY <2>1, <2>2
  <2>4. FrameEnd(o) <= o
    BY <2>2 DEF Whole
  <2> QED  BY <1>2, <1>3, <2>3, <2>4 DEF FrameEnd
<1>4. CASE a = 1
  BY <1>1, <1>2, <1>4
<1> QED  BY <1>2, <1>3, <1>4

\* The frame behind whole records is whole, or it is torn: then the file
\* ends, or another frame begins, before it is complete.
LEMMA FrameTorn ==
  ASSUME file \in Seq(Cell), Framed, NEW o \in 0 .. Len(file), o # Len(file), Whole(o),
         ~FrameAt(o, file[o + 1].of)
  PROVE  \E j \in 1 .. Size(file[o + 1].of) - 1 :
           /\ o + j <= Len(file)
           /\ \A i \in 1 .. j : file[o + i] = [of |-> file[o + 1].of, at |-> i]
           /\ o + j # Len(file) => file[o + j + 1].at = 1
<1>1. PICK P \in Payloads : P = file[o + 1].of /\ file[o + 1] = [of |-> P, at |-> 1]
  BY FrameBegins
<1>2. Size(P) \in Nat /\ Size(P) > 1 /\ Len(file) \in Nat /\ o \in Nat /\ o + 1 <= Len(file)
  BY PayloadFacts, WalAssumption
<1> DEFINE S == { j \in 1 .. Size(P) :
                    ~(o + j <= Len(file) /\ file[o + j] = [of |-> P, at |-> j]) }
<1>3. S \in SUBSET Nat
  BY <1>2
<1>4. S # {}
  <2>1. ~FrameAt(o, P)
    BY <1>1
  <2>2. ASSUME S = {} PROVE FALSE
    <3>1. \A j \in 1 .. Size(P) : o + j <= Len(file) /\ file[o + j] = [of |-> P, at |-> j]
      BY <2>2
    <3>2. Size(P) \in 1 .. Size(P)
      BY <1>2
    <3> QED  BY <2>1, <3>1, <3>2 DEF FrameAt
  <2> QED  BY <2>2
<1>5. PICK x \in S : \A y \in S : x <= y
  <2>1. PICK x \in S : \A y \in S : ~(<<y, x>> \in OpToRel(<, Nat))
    BY <1>3, <1>4, WFMin, NatLessThanWellFounded, Zenon
  <2>2. \A y \in S : ~(y < x)
    BY <1>3, <2>1, Zenon DEF OpToRel
  <2>3. \A y \in S : x <= y
    BY <1>3, <2>2
  <2> QED  BY <2>3
<1>6. x \in 1 .. Size(P) /\ x # 1
  BY <1>1, <1>2, <1>5
<1> DEFINE k == x - 1
<1>7. k \in 1 .. Size(P) - 1 /\ k + 1 = x /\ k \in Nat
  BY <1>2, <1>6
<1>8. ASSUME NEW i \in 1 .. k
      PROVE  o + i <= Len(file) /\ file[o + i] = [of |-> P, at |-> i]
  <2>1. i \in 1 .. Size(P) /\ ~(x <= i)
    BY <1>2, <1>6
  <2>2. i \notin S
    BY <1>5, <2>1
  <2> QED  BY <2>1, <2>2
<1>9. ASSUME o + k # Len(file) PROVE file[o + k + 1].at = 1
  <2>1. k \in 1 .. k
    BY <1>7
  <2>2. o + k <= Len(file) /\ file[o + k] = [of |-> P, at |-> k]
    BY <1>8, <2>1
  <2> DEFINE c == o + x
  <2>3. c \in 1 .. Len(file) /\ o + k + 1 = c /\ c - 1 = o + k
    BY <1>2, <1>6, <1>7, <1>9, <2>2
  <2>4. /\ file[c].at \in 1 .. c /\ file[c] = [of |-> file[c].of, at |-> file[c].at]
    BY <2>3, CellFacts
  <2>5. CASE file[c].at > 1
    <3>1. file[c].at - 1 \in 1 .. file[c].at /\ c - file[c].at + (file[c].at - 1) = c - 1
      BY <2>3, <2>4, <2>5
    <3>2. file[c - 1] = [of |-> file[c].of, at |-> file[c].at - 1]
      BY <2>3, <3>1 DEF Framed
    <3>3. file[c].of = P /\ file[c].at - 1 = k
      BY <2>2, <2>3, <3>2
    <3>4. file[c] = [of |-> P, at |-> x]
      BY <1>7, <2>4, <3>3
    <3>5. o + x <= Len(file)
      BY <2>3
    <3> QED  BY <1>5, <3>4, <3>5
  <2>6. CASE file[c].at = 1
    BY <2>3, <2>6
  <2> QED  BY <2>4, <2>5, <2>6
<1>10. o + k <= Len(file)
  <2>1. k \in 1 .. k
    BY <1>7
  <2> QED  BY <1>8, <2>1
<1> QED  BY <1>1, <1>7, <1>8, <1>9, <1>10

\* When the replay ends, no whole records reach beyond its offset.
LEMMA EndOfWhole ==
  ASSUME file \in Seq(Cell), Framed, NEW o \in 0 .. Len(file), Whole(o),
         NEW r \in ReadEntry(o), r.err = "EOF",
         NEW w \in 0 .. Len(file), Whole(w)
  PROVE  w <= o
<1> SUFFICES ASSUME w > o PROVE FALSE
  OBVIOUS
<1>1. o # Len(file) /\ o + 1 \in 1 .. w /\ Len(file) \in Nat
  OBVIOUS
<1>2. PICK P \in Payloads : P = file[o + 1].of /\ file[o + 1] = [of |-> P, at |-> 1]
  BY <1>1, FrameBegins
<1>3. Size(P) \in Nat /\ Size(P) > 0
  BY PayloadFacts, WalAssumption
<1> DEFINE m == o + Size(P)
<1>4. FrameEnd(o + 1) = m
  BY <1>2, <1>3 DEF FrameEnd
<1>5. m <= w /\ file[m] = [of |-> P, at |-> Size(P)]
  BY <1>1, <1>2, <1>4 DEF Whole
<1>6. m \in 1 .. Len(file) /\ m - Size(P) = o /\ file[m].of = P /\ file[m].at = Size(P)
  BY <1>1, <1>3, <1>5
<1> HIDE DEF m
<1>7. \A j \in 1 .. Size(P) : file[o + j] = [of |-> P, at |-> j]
  BY <1>6 DEF Framed
<1>8. o + Size(P) <= Len(file)
  BY <1>3, <1>6
<1>9. FrameAt(o, P)
  BY <1>7, <1>8 DEF FrameAt
<1> QED  BY <1>9, FrameRead

\* When it ends and no record lies behind a torn one, every complete record of
\* the file is before its offset.
LEMMA EndOfComplete ==
  ASSUME file \in Seq(Cell), Framed, NEW o \in 0 .. Len(file), Whole(o),
         NEW r \in ReadEntry(o), r.err = "EOF", ~Buried,
         NEW m \in 1 .. Len(file), NEW payload \in Payloads,
         file[m] = [of |-> payload, at |-> Size(payload)]
  PROVE  m <= o
<1> SUFFICES ASSUME m > o PROVE FALSE
  OBVIOUS
<1>1. o # Len(file) /\ Len(file) \in Nat
  OBVIOUS
<1>2. PICK P \in Payloads : P = file[o + 1].of /\ file[o + 1] = [of |-> P, at |-> 1]
  BY <1>1, FrameBegins
<1>3. ~FrameAt(o, P)
  BY FrameRead
<1>4. PICK j \in 1 .. Size(P) - 1 :
        /\ o + j <= Len(file)
        /\ \A i \in 1 .. j : file[o + i] = [of |-> P, at |-> i]
        /\ o + j # Len(file) => file[o + j + 1].at = 1
  BY <1>1, <1>2, <1>3, FrameTorn
<1>5. Size(P) \in Nat /\ j \in 1 .. j
  BY PayloadFacts
<1>6. ~EndsFrame(file[o + j])
  <2>1. file[o + j] = [of |-> P, at |-> j]
    BY <1>4, <1>5
  <2>2. file[o + j].of = P /\ file[o + j].at = j /\ j # Size(P)
    BY <1>5, <2>1
  <2> QED  BY <2>2 DEF EndsFrame, Size
<1>7. o + j = Len(file)
  <2>1. ASSUME o + j # Len(file) PROVE FALSE
    <3>1. o + j \in 1 .. Len(file) - 1
      BY <1>1, <1>4, <1>5, <2>1
    <3> QED  BY <1>4, <1>6, <2>1, <3>1 DEF Buried
  <2> QED  BY <2>1
<1>8. m - o \in 1 .. j /\ o + (m - o) = m
  BY <1>7
<1>9. file[m] = [of |-> P, at |-> m - o]
  BY <1>4, <1>8
<1>10. payload = P /\ Size(P) = m - o
  BY <1>9
<1> QED  BY <1>5, <1>8, <1>10

\* ReadEntry finds a file of whole records corrupt only at a frame that is too
\* long.
LEMMA CorruptIfTorn ==
  ASSUME file \in Seq(Cell), Framed, NEW o \in 0 .. Len(file), Whole(o),
         NEW r \in ReadEntry(o), r.err = "corrupt", WholeRecords
  PROVE  \E i \in DOMAIN file : Len(file[i].of) > SizeLimit
<1>1. o # Len(file) /\ Len(file) \in Nat
  <2>1. ASSUME o = Len(file) PROVE FALSE
    <3>1. Available(o) = 0
      BY <2>1 DEF Available
    <3>2. r = EOF
      BY <3>1 DEF ReadEntry
    <3> QED  BY <3>2 DEF EOF
  <2> QED  BY <2>1
<1>2. PICK P \in Payloads : P = file[o + 1].of /\ file[o + 1] = [of |-> P, at |-> 1]
  BY <1>1, FrameBegins
<1>3. CASE FrameAt(o, P)
  <2>1. Len(P) > SizeLimit
    BY <1>3, FrameRead
  <2>2. o + 1 \in DOMAIN file
    BY <1>1
  <2> QED  BY <1>2, <2>1, <2>2
<1>4. CASE ~FrameAt(o, P)
  <2>1. PICK j \in 1 .. Size(P) - 1 :
          /\ o + j <= Len(file)
          /\ \A i \in 1 .. j : file[o + i] = [of |-> P, at |-> i]
          /\ o + j # Len(file) => file[o + j + 1].at = 1
    BY <1>1, <1>2, <1>4, FrameTorn
  <2>2. Size(P) \in Nat /\ j \in 1 .. j
    BY PayloadFacts
  <2>3. file[o + j] = [of |-> P, at |-> j]
    BY <2>1, <2>2
  <2>4. ~EndsFrame(file[o + j])
    <3>1. file[o + j].of = P /\ file[o + j].at = j /\ j # Size(P)
      BY <2>2, <2>3
    <3> QED  BY <3>1 DEF EndsFrame, Size
  <2>5. file # <<>>
    BY <1>1
  <2>6. /\ EndsFrame(file[Len(file)])
        /\ \A i \in 1 .. Len(file) - 1 :
             ~EndsFrame(file[i]) => file[i + 1] = [file[i] EXCEPT !.at = @ + 1]
    BY <2>5 DEF WholeRecords
  <2>7. o + j # Len(file) /\ o + j \in 1 .. Len(file) - 1
    BY <1>1, <2>1, <2>2, <2>4, <2>6
  <2>8. file[o + j + 1].at = j + 1
    <3>1. file[o + j + 1] = [file[o + j] EXCEPT !.at = @ + 1]
      BY <2>4, <2>6, <2>7
    <3> QED  BY <2>3, <3>1
  <2> QED  BY <2>1, <2>2, <2>7, <2>8
<1> QED  BY <1>3, <1>4

-------------------------------------------------------------------------------
(***************************************************************************)
(* The steps                                                               *)
(***************************************************************************)

\* The entries of a payload have its id.
LEMMA Decoded ==
  ASSUME NEW p \in Payloads, NEW e \in deserialiseTransactionCommand(p)
  PROVE  e \in Entry /\ e.txnId = p[2]
<1>1. /\ p[2] \in Nat /\ p[3] \in Nat
      /\ \A j \in 1 .. p[3] : p[2 + 2 * j] \in Keys /\ p[3 + 2 * j] \in Values
  BY PayloadFacts DEF Payloads, WellFormed
<1>2. PICK j \in 1 .. p[3] :
        e = [key |-> p[2 + 2 * j], value |-> p[3 + 2 * j], txnId |-> p[2]]
  BY DEF deserialiseTransactionCommand
<1> QED  BY <1>1, <1>2 DEF Entry

\* A replay puts all entries of the payload into the memtable, and removes
\* only entries with its id.
LEMMA Replayed ==
  ASSUME NEW p \in Payloads
  PROVE  /\ deserialiseTransactionCommand(p) \subseteq Replay(p)
         /\ Replay(p) \subseteq deserialiseTransactionCommand(p) \cup memTable
         /\ \A e \in memTable : e.txnId # p[2] => e \in Replay(p)
<1>1. \A e \in deserialiseTransactionCommand(p) : e.txnId = p[2]
  BY Decoded
<1> QED  BY <1>1 DEF Replay

\* The operators on the file see nothing else.
LEMMA SameFile ==
  ASSUME file' = file
  PROVE  /\ Framed' = Framed /\ Handed' = Handed /\ Buried' = Buried
         /\ WholeRecords' = WholeRecords /\ IdsAgree' = IdsAgree
         /\ \A n : Whole(n)' = Whole(n)
<1>1. \A i : FrameEnd(i)' = FrameEnd(i)
  BY DEF FrameEnd, Size
<1>2. \A n : Whole(n)' = Whole(n)
  BY <1>1 DEF Whole, Size
<1>3. IdsAgree' = IdsAgree
  BY <1>2 DEF IdsAgree
<1>4. Framed' = Framed
  BY DEF Framed, Size
<1>5. Handed' = Handed /\ Buried' = Buried /\ WholeRecords' = WholeRecords
  BY DEF Handed, Buried, WholeRecords, EndsFrame
<1> QED  BY <1>2, <1>3, <1>4, <1>5

\* What Write and WriteFails do.
LEMMA Written ==
  ASSUME Types, NEW p \in Payloads, Write(p) \/ WriteFails(p)
  PROVE  /\ \E n \in 0 .. Size(p) : /\ Grown(p, n)
                                    /\ commit'.pc = "syncing" => n = Size(p)
         /\ offset' = Len(file')
         /\ commit' # NoCommit /\ commit' \in Calls /\ commit'.payload = p
         /\ faults' \in 0 .. MaxFaults
         /\ UNCHANGED <<synced, mode, memTable, acked, crashes>>
<1>1. Size(p) \in Nat /\ MaxFaults \in Nat /\ faults \in 0 .. MaxFaults
  BY PayloadFacts, WalAssumption DEF Types
<1>2. CASE Write(p)
  <2>1. Grown(p, Size(p)) /\ Size(p) \in 0 .. Size(p)
    BY <1>1, <1>2, WriteGrows
  <2>2. commit' = [pc |-> "syncing", payload |-> p]
    BY <1>2 DEF Write
  <2>3. commit' # NoCommit /\ commit' \in Calls /\ commit'.payload = p
    BY <2>2 DEF NoCommit, Calls
  <2> QED  BY <1>1, <1>2, <2>1, <2>3 DEF Write
<1>3. CASE WriteFails(p)
  <2>1. PICK n \in 0 .. Size(p) - 1 : Grown(p, n)
    BY <1>1, <1>3, WriteGrows
  <2>2. n \in 0 .. Size(p)
    BY <1>1
  <2>3. commit' = [pc |-> "failed", payload |-> p]
    BY <1>3 DEF WriteFails
  <2>4. /\ commit' # NoCommit /\ commit' \in Calls /\ commit'.payload = p
        /\ commit'.pc # "syncing"
    BY <2>3 DEF NoCommit, Calls
  <2>5. faults' \in 0 .. MaxFaults
    BY <1>1, <1>3 DEF WriteFails, Fault
  <2> QED  BY <1>3, <2>1, <2>2, <2>4, <2>5 DEF WriteFails
<1> QED  BY <1>2, <1>3

\* An id and payload that Commit may write: new, or those of whole records
\* that an earlier attempt of the same Commit left.
Fresh(p) ==
  /\ \A e \in memTable : e.txnId < p[2]
  /\ \A n \in 0 .. Len(file) : Whole(n) =>
       \A i \in 1 .. n : file[i].of[2] = p[2] => file[i].of = p

\* The cells of whole records of the file that has grown.
LEMMA CellsWritten ==
  ASSUME Types, NEW p \in Payloads, NEW n, Grown(p, n),
         NEW w \in 0 .. Len(file'), Whole(w)'
  PROVE  \/ /\ w \in 0 .. Len(file) /\ Whole(w)
            /\ \A i \in 1 .. w : file'[i] = file[i]
         \/ /\ Whole(Len(file))
            /\ \A i \in 1 .. w : \/ i \in 1 .. Len(file) /\ file'[i] = file[i]
                                 \/ file'[i].of = p
<1>1. /\ n \in 0 .. Size(p) /\ Len(file') = Len(file) + n
      /\ \A k \in 1 .. Len(file) : file'[k] = file[k]
      /\ \A j \in 1 .. n : file'[Len(file) + j] = [of |-> p, at |-> j]
      /\ Size(p) \in Nat /\ Len(file) \in Nat /\ file \in Seq(Cell) /\ Framed
  BY PayloadFacts DEF Grown, Types
<1>2. CASE w <= Len(file) /\ Whole(w)
  BY <1>1, <1>2
<1>3. CASE Whole(Len(file))
  <2>1. ASSUME NEW i \in 1 .. w, i \notin 1 .. Len(file)
        PROVE  file'[i].of = p
    <3>1. i - Len(file) \in 1 .. n /\ Len(file) + (i - Len(file)) = i
      BY <1>1, <2>1
    <3>2. file'[i] = [of |-> p, at |-> i - Len(file)]
      BY <1>1, <3>1
    <3> QED  BY <3>2
  <2> QED  BY <1>1, <1>3, <2>1
<1> QED  BY <1>1, <1>2, <1>3, GrownWhole

\* Commit's write, its first or a further one, preserves the invariant.
LEMMA WriteInv ==
  ASSUME Inv, Running, NEW p \in Payloads, Write(p) \/ WriteFails(p), Fresh(p),
         nextTransactionId' \in 1 .. MaxTxnId + 1,
         nextTransactionId <= nextTransactionId', p[2] = nextTransactionId' - 1
  PROVE  Inv'
<1>1. Types
  BY DEF Inv
<1>2. PICK n \in 0 .. Size(p) : Grown(p, n) /\ (commit'.pc = "syncing" => n = Size(p))
  BY <1>1, Written
<1>3. /\ offset' = Len(file')
      /\ commit' # NoCommit /\ commit' \in Calls /\ commit'.payload = p
      /\ faults' \in 0 .. MaxFaults
      /\ UNCHANGED <<synced, mode, memTable, acked, crashes>>
  BY <1>1, Written
<1>4. /\ file' \in Seq(Cell) /\ Len(file') = Len(file) + n /\ Len(file') <= MaxFileCells
      /\ \A k \in 1 .. Len(file) : file'[k] = file[k]
      /\ \A j \in 1 .. n : file'[Len(file) + j] = [of |-> p, at |-> j]
  BY <1>2 DEF Grown
<1>5. /\ Size(p) \in Nat /\ Size(p) > 0 /\ n \in Nat /\ p[2] \in Nat
      /\ Len(file) \in Nat /\ file \in Seq(Cell) /\ Framed
      /\ synced \in 0 .. Len(file) /\ nextTransactionId \in Nat /\ nextTransactionId' \in Nat
  <2>1. Size(p) \in Nat /\ Size(p) > 0 /\ p[2] \in Nat
    <3>1. Size(p) \in Nat /\ Size(p) > 2 * FieldCells /\ p[2] \in Nat
      BY PayloadFacts, Zenon
    <3> DEFINE z == Size(p)
    <3>2. z \in Nat /\ z > 2 * FieldCells
      BY <3>1
    <3> HIDE DEF z
    <3>3. z > 0
      BY <3>2, WalAssumption
    <3> QED  BY <3>1, <3>3, Zenon DEF z
  <2>2. /\ file \in Seq(Cell) /\ Framed /\ synced \in 0 .. Len(file)
        /\ nextTransactionId \in 1 .. MaxTxnId + 1
    BY <1>1 DEF Types
  <2>3. nextTransactionId \in Nat /\ nextTransactionId' \in Nat
    BY <2>2, WalAssumption
  <2>4. Len(file) \in Nat /\ n \in Nat
    BY <2>1, <2>2
  <2> QED  BY <2>1, <2>2, <2>3, <2>4
<1>6. Types'
  <2>1. Framed'
    BY <1>2, <1>5, GrownFramed
  <2>2. synced' \in 0 .. Len(file') /\ offset' \in 0 .. Len(file')
    BY <1>3, <1>4, <1>5
  <2> QED  BY <1>1, <1>3, <1>4, <2>1, <2>2 DEF Types
<1>7. Running' /\ mode' # "down" /\ mode' # "reading" /\ mode' # "refused"
  BY <1>3 DEF Running
<1>8. DownEmpty' /\ ReadSoFar' /\ RefusedOnlyIfTorn'
  BY <1>7 DEF DownEmpty, ReadSoFar, RefusedOnlyIfTorn
<1>9. ASSUME NEW w \in 0 .. Len(file'), Whole(w)', NEW i \in 1 .. w
      PROVE  /\ file'[i].of[2] < nextTransactionId'
             /\ file'[i].of[2] = p[2] => file'[i].of = p
  <2>1. \A v \in 0 .. Len(file) : Whole(v) =>
          \A k \in 1 .. v : /\ file[k].of[2] < nextTransactionId
                            /\ file[k].of[2] = p[2] => file[k].of = p
    BY DEF Inv, IdsBelow, Fresh
  <2>2. \A k \in 1 .. Len(file) : file[k].of[2] \in Nat
    BY <1>5, CellFacts, PayloadFacts
  <2>3. p[2] < nextTransactionId'
    <3>1. \A x \in Nat : x - 1 < x
      OBVIOUS
    <3> QED  BY <1>5, <3>1, Zenon
  <2>4. CASE /\ w \in 0 .. Len(file) /\ Whole(w)
             /\ \A k \in 1 .. w : file'[k] = file[k]
    <3>1. file'[i] = file[i] /\ i \in 1 .. Len(file)
      BY <2>4, <1>5
    <3>2. file[i].of[2] < nextTransactionId /\ (file[i].of[2] = p[2] => file[i].of = p)
      BY <2>1, <2>4
    <3>3. file[i].of[2] \in Nat
      BY <2>2, <3>1
    <3> QED  BY <1>5, <3>1, <3>2, <3>3
  <2>5. CASE Whole(Len(file)) /\ i \in 1 .. Len(file) /\ file'[i] = file[i]
    <3>1. Len(file) \in 0 .. Len(file)
      BY <1>5
    <3>2. file[i].of[2] < nextTransactionId /\ (file[i].of[2] = p[2] => file[i].of = p)
      BY <2>1, <2>5, <3>1
    <3>3. file[i].of[2] \in Nat
      BY <2>2, <2>5
    <3> QED  BY <1>5, <2>5, <3>2, <3>3
  <2>6. CASE file'[i].of = p
    BY <2>3, <2>6
  <2> QED  BY <1>1, <1>2, <1>9, <2>4, <2>5, <2>6, CellsWritten
<1>10. IdsAgree'
  <2> SUFFICES ASSUME NEW w \in 0 .. Len(file'), Whole(w)',
                      NEW i \in 1 .. w, NEW j \in 1 .. w, file'[i].of[2] = file'[j].of[2]
               PROVE  file'[i].of = file'[j].of
    BY DEF IdsAgree
  <2>1. \A v \in 0 .. Len(file) : Whole(v) =>
          \A k, l \in 1 .. v : file[k].of[2] = file[l].of[2] => file[k].of = file[l].of
    BY DEF Inv, IdsAgree
  <2>2. CASE /\ w \in 0 .. Len(file) /\ Whole(w)
             /\ \A k \in 1 .. w : file'[k] = file[k]
    BY <2>1, <2>2
  <2>3. CASE /\ Whole(Len(file))
             /\ \A k \in 1 .. w : \/ k \in 1 .. Len(file) /\ file'[k] = file[k]
                                  \/ file'[k].of = p
    <3>1. CASE file'[i].of = p \/ file'[j].of = p
      BY <3>1, <1>9
    <3>2. CASE /\ i \in 1 .. Len(file) /\ file'[i] = file[i]
               /\ j \in 1 .. Len(file) /\ file'[j] = file[j]
      <4>1. Len(file) \in 0 .. Len(file)
        BY <1>5
      <4> QED  BY <2>1, <2>3, <3>2, <4>1
    <3> QED  BY <2>3, <3>1, <3>2
  <2> QED  BY <1>1, <1>2, <2>2, <2>3, CellsWritten
<1>11. \A e \in memTable : e.txnId < p[2] /\ e.txnId < nextTransactionId'
  <2>1. \A e \in memTable : e.txnId < p[2] /\ e.txnId \in Nat
    BY <1>1 DEF Fresh, Types, Entry
  <2> QED  BY <1>5, <2>1
<1>12. IdsBelow'
  BY <1>3, <1>9, <1>11 DEF IdsBelow
<1>13. CommitIsLast'
  <2>1. ASSUME commit'.pc = "syncing"
        PROVE  file' # <<>> /\ file'[Len(file')] = [of |-> p, at |-> Size(p)]
    <3>1. n = Size(p) /\ n \in 1 .. n
      BY <1>2, <1>5, <2>1
    <3> QED  BY <1>4, <1>5, <3>1
  <2> QED  BY <1>3, <1>7, <1>11, <2>1 DEF CommitIsLast, Size
<1>14. AckedSynced'
  <2> SUFFICES ASSUME NEW q \in acked
               PROVE  \E m \in 1 .. synced : file'[m] = [of |-> q, at |-> Size(q)]
    BY <1>3 DEF AckedSynced, Size
  <2>1. PICK m \in 1 .. synced : file[m] = [of |-> q, at |-> Size(q)]
    BY DEF Inv, AckedSynced
  <2>2. m \in 1 .. Len(file)
    BY <1>5
  <2> QED  BY <1>4, <2>1, <2>2
<1>15. ReplayAtomic'
  <2>1. Handed \subseteq Handed'
    <3> SUFFICES ASSUME NEW i \in DOMAIN file PROVE file[i].of \in Handed'
      BY DEF Handed
    <3>1. i \in 1 .. Len(file) /\ i \in DOMAIN file' /\ file'[i] = file[i]
      BY <1>4, <1>5
    <3> QED  BY <3>1 DEF Handed
  <2>2. ReplayAtomic
    BY DEF Inv
  <2> QED  BY <1>3, <2>1, <2>2 DEF ReplayAtomic, deserialiseTransactionCommand
<1>16. AckedRecovered'
  <2>1. Buried => Buried'
    <3> SUFFICES ASSUME NEW i \in 1 .. Len(file) - 1,
                        file[i + 1].at = 1, ~EndsFrame(file[i])
                 PROVE  Buried'
      BY DEF Buried
    <3>1. /\ i \in 1 .. Len(file') - 1 /\ file'[i + 1] = file[i + 1] /\ file'[i] = file[i]
      BY <1>4, <1>5
    <3> QED  BY <3>1 DEF Buried, EndsFrame
  <2>2. AckedRecovered
    BY DEF Inv
  <2> QED  BY <1>3, <2>1, <2>2 DEF AckedRecovered, deserialiseTransactionCommand
<1> QED  BY <1>6, <1>8, <1>10, <1>12, <1>13, <1>14, <1>15, <1>16 DEF Inv

\* A new Commit.
LEMMA CommitNewInv ==
  ASSUME Inv, CommitNew
  PROVE  Inv'
<1> DEFINE t == nextTransactionId
<1>1. /\ Running /\ t \in TxnIds /\ nextTransactionId' = t + 1
  BY DEF CommitNew, Running
<1>0. PICK writeMap \in WriteMaps :
        \E payload \in PayloadsOf(writeMap, t) : Write(payload) \/ WriteFails(payload)
  BY DEF CommitNew
<1>2. PICK p \in PayloadsOf(writeMap, t) : Write(p) \/ WriteFails(p)
  BY <1>0
<1>3. p \in Payloads /\ p[2] = t
  BY <1>1, <1>2, SerialisedPayload
<1>4. t \in Nat /\ t + 1 \in 1 .. MaxTxnId + 1 /\ t <= t + 1 /\ (t + 1) - 1 = t
  BY <1>1, WalAssumption DEF TxnIds
<1>5. file \in Seq(Cell) /\ Framed
  BY DEF Inv, Types
<1>6. Fresh(p)
  <2>1. \A e \in memTable : e.txnId < p[2]
    BY <1>1, <1>3 DEF Inv, IdsBelow
  <2>2. ASSUME NEW n \in 0 .. Len(file), Whole(n), NEW i \in 1 .. n
        PROVE  file[i].of[2] # p[2]
    <3>1. file[i].of[2] < t
      BY <1>1, <2>2 DEF Inv, IdsBelow
    <3>2. i \in 1 .. Len(file)
      BY <1>5
    <3>3. file[i].of[2] \in Nat
      BY <1>5, <3>2, CellFacts, PayloadFacts
    <3>4. \A x, y \in Nat : x < y => x # y
      OBVIOUS
    <3> QED  BY <1>3, <1>4, <3>1, <3>3, <3>4, Zenon
  <2> QED  BY <2>1, <2>2 DEF Fresh
<1>7. /\ nextTransactionId' \in 1 .. MaxTxnId + 1 /\ nextTransactionId <= nextTransactionId'
      /\ p[2] = nextTransactionId' - 1
  BY <1>1, <1>3, <1>4, Zenon
<1> QED  BY <1>1, <1>2, <1>3, <1>6, <1>7, WriteInv

\* A commit that is under way has a payload.
LEMMA CommitTyped ==
  ASSUME Inv, commit.pc # "none"
  PROVE  /\ commit # NoCommit /\ commit.payload \in Payloads /\ Running
         /\ commit.pc \in {"syncing", "failed"}
         /\ commit = [pc |-> commit.pc, payload |-> commit.payload]
<1>1. commit \in Calls
  BY DEF Inv, Types
<1>2. commit # NoCommit
  BY DEF NoCommit
<1>3. Running
  BY <1>2 DEF Inv, CommitIsLast
<1> QED  BY <1>1, <1>2, <1>3 DEF Calls

\* Commit once more.
LEMMA CommitAgainInv ==
  ASSUME Inv, CommitAgain
  PROVE  Inv'
<1>1. commit.pc # "none" /\ nextTransactionId' = nextTransactionId
  BY DEF CommitAgain
<1>2. PICK p \in Payloads : p = commit.payload /\ commit # NoCommit /\ Running
  BY <1>1, CommitTyped
<1>3. Write(p) \/ WriteFails(p)
  BY <1>2 DEF CommitAgain
<1>4. Fresh(p)
  BY <1>2 DEF Fresh, Inv, CommitIsLast, IdsBelow
<1>5. p[2] = nextTransactionId' - 1
  BY <1>1, <1>2 DEF Inv, CommitIsLast
<1>6. nextTransactionId' \in 1 .. MaxTxnId + 1 /\ nextTransactionId <= nextTransactionId'
  BY <1>1, WalAssumption DEF Inv, Types
<1> QED  BY <1>2, <1>3, <1>4, <1>5, <1>6, WriteInv

\* Sync: the record is on the disk and its entries enter the memtable.
LEMMA SyncInv ==
  ASSUME Inv, Sync
  PROVE  Inv'
<1> DEFINE p == commit.payload
<1>1. /\ p \in Payloads /\ commit # NoCommit /\ commit.pc = "syncing" /\ Running
  BY CommitTyped DEF Sync
<1>2. /\ file' = file /\ synced' = Len(file) /\ memTable' = Replay(p)
      /\ acked' = acked \cup {p} /\ commit' = NoCommit /\ mode' = "open"
      /\ UNCHANGED <<offset, nextTransactionId, crashes, faults>>
  BY DEF Sync, CommitReturns
<1>3. /\ Types /\ file \in Seq(Cell) /\ Len(file) \in Nat /\ file # <<>>
      /\ synced \in 0 .. Len(file) /\ nextTransactionId \in 1 .. MaxTxnId + 1
      /\ p[2] = nextTransactionId - 1 /\ \A e \in memTable : e.txnId < p[2]
      /\ file[Len(file)] = [of |-> p, at |-> Size(p)]
  BY <1>1 DEF Inv, Types, CommitIsLast
<1> HIDE DEF p
<1>4. /\ Framed' = Framed /\ Handed' = Handed /\ Buried' = Buried
      /\ IdsAgree' = IdsAgree /\ \A n : Whole(n)' = Whole(n)
  BY <1>2, SameFile
<1>5. p[2] \in Nat /\ nextTransactionId \in Nat
  <2>1. nextTransactionId \in Nat
    BY <1>3, WalAssumption
  <2> QED  BY <1>1, <2>1, PayloadFacts
<1>6. \A e \in memTable : e.txnId # p[2] /\ e.txnId < nextTransactionId
  <2>1. \A e \in memTable : e.txnId \in Nat
    BY <1>3 DEF Types, Entry
  <2>2. \A x, y, z \in Nat : x < y /\ y = z - 1 => x # y /\ x < z
    OBVIOUS
  <2> QED  BY <1>3, <1>5, <2>1, <2>2, Zenon
<1>7. /\ deserialiseTransactionCommand(p) \subseteq memTable' /\ memTable \subseteq memTable'
      /\ memTable' \subseteq deserialiseTransactionCommand(p) \cup memTable
  BY <1>1, <1>2, <1>6, Replayed
<1>8. Len(file) \in 1 .. Len(file)
  BY <1>3
<1>9. Types'
  <2>1. memTable' \subseteq Entry
    BY <1>1, <1>3, <1>7, Decoded DEF Types
  <2>2. synced' \in 0 .. Len(file')
    BY <1>2, <1>3
  <2> QED  BY <1>1, <1>2, <1>3, <1>4, <2>1, <2>2 DEF Types, Calls
<1>10. IdsAgree' /\ DownEmpty' /\ ReadSoFar' /\ CommitIsLast' /\ RefusedOnlyIfTorn'
  BY <1>2, <1>4 DEF Inv, DownEmpty, ReadSoFar, CommitIsLast, RefusedOnlyIfTorn
<1>11. IdsBelow'
  <2>1. ASSUME NEW e \in memTable' PROVE e.txnId < nextTransactionId'
    <3>1. CASE e \in memTable
      BY <1>2, <1>6, <3>1
    <3>2. CASE e \in deserialiseTransactionCommand(p)
      <4>1. e.txnId = p[2]
        BY <1>1, <3>2, Decoded
      <4>2. \A y, z \in Nat : y = z - 1 => y < z
        OBVIOUS
      <4> QED  BY <1>2, <1>3, <1>5, <4>1, <4>2, Zenon
    <3> QED  BY <1>7, <3>1, <3>2
  <2>2. \A n \in 0 .. Len(file) : Whole(n) =>
          \A i \in 1 .. n : file[i].of[2] < nextTransactionId
    BY <1>1 DEF Inv, IdsBelow
  <2> QED  BY <1>2, <1>4, <2>1, <2>2 DEF IdsBelow
<1>12. AckedSynced'
  <2> SUFFICES ASSUME NEW q \in acked'
               PROVE  \E m \in 1 .. Len(file) : file[m] = [of |-> q, at |-> Size(q)]
    BY <1>2 DEF AckedSynced, Size
  <2>1. CASE q = p
    BY <1>3, <1>8, <2>1
  <2>2. CASE q \in acked
    <3>1. PICK m \in 1 .. synced : file[m] = [of |-> q, at |-> Size(q)]
      BY <2>2 DEF Inv, AckedSynced
    <3>2. m \in 1 .. Len(file)
      BY <1>3
    <3> QED  BY <3>1, <3>2
  <2> QED  BY <1>2, <2>1, <2>2
<1>13. ReplayAtomic'
  <2> SUFFICES ASSUME NEW e \in memTable'
               PROVE  \E q \in Handed : /\ e \in deserialiseTransactionCommand(q)
                                        /\ deserialiseTransactionCommand(q) \subseteq memTable'
    BY <1>4 DEF ReplayAtomic, deserialiseTransactionCommand
  <2>1. CASE e \in memTable
    <3>1. PICK q \in Handed : /\ e \in deserialiseTransactionCommand(q)
                              /\ deserialiseTransactionCommand(q) \subseteq memTable
      BY <2>1 DEF Inv, ReplayAtomic
    <3> QED  BY <1>7, <3>1
  <2>2. CASE e \in deserialiseTransactionCommand(p)
    <3>1. p \in Handed
      <4>1. file[Len(file)].of = p /\ Len(file) \in DOMAIN file
        BY <1>3, <1>8
      <4> QED  BY <4>1 DEF Handed
    <3> QED  BY <1>7, <2>2, <3>1
  <2> QED  BY <1>7, <2>1, <2>2
<1>14. AckedRecovered'
  BY <1>1, <1>2, <1>4, <1>7 DEF Inv, AckedRecovered, Running, deserialiseTransactionCommand
<1> QED  BY <1>9, <1>10, <1>11, <1>12, <1>13, <1>14 DEF Inv

\* A Sync that fails, and giving up, leave file and memtable alone.
LEMMA CommitFailsInv ==
  ASSUME Inv, SyncFails \/ GiveUp
  PROVE  Inv'
<1>1. /\ commit.pc # "none"
      /\ UNCHANGED <<file, synced, offset, memTable, nextTransactionId, acked, crashes>>
  BY DEF SyncFails, GiveUp
<1>2. /\ commit # NoCommit /\ commit.payload \in Payloads /\ Running
      /\ commit.pc \in {"syncing", "failed"}
      /\ commit = [pc |-> commit.pc, payload |-> commit.payload]
  BY <1>1, CommitTyped
<1>3. /\ Framed' = Framed /\ Handed' = Handed /\ Buried' = Buried
      /\ IdsAgree' = IdsAgree /\ \A n : Whole(n)' = Whole(n)
  BY <1>1, SameFile
<1>4. /\ Running' /\ faults' \in 0 .. MaxFaults
      /\ \/ commit' = NoCommit
         \/ commit' = [pc |-> "failed", payload |-> commit.payload]
  <2>1. CASE SyncFails
    <3>1. faults' \in 0 .. MaxFaults
      BY <2>1, WalAssumption DEF SyncFails, Fault, Inv, Types
    <3>2. commit' = [commit EXCEPT !.pc = "failed"] /\ mode' = mode
      BY <2>1 DEF SyncFails
    <3>3. commit' = [pc |-> "failed", payload |-> commit.payload]
      BY <1>2, <3>2
    <3> QED  BY <1>2, <3>1, <3>2, <3>3 DEF Running
  <2>2. CASE GiveUp
    BY <2>2 DEF GiveUp, CommitReturns, Running, Inv, Types
  <2> QED  BY <2>1, <2>2
<1>5. Types'
  <2>1. commit' \in Calls
    BY <1>2, <1>4 DEF Calls
  <2>2. mode' \in {"down", "reading", "refused", "starting", "open"}
    BY <1>4 DEF Running
  <2> QED  BY <1>1, <1>3, <1>4, <2>1, <2>2 DEF Inv, Types
<1>6. mode' # "down" /\ mode' # "reading" /\ mode' # "refused"
  BY <1>4 DEF Running
<1>7. IdsAgree' /\ DownEmpty' /\ ReadSoFar' /\ RefusedOnlyIfTorn'
  BY <1>3, <1>6 DEF Inv, DownEmpty, ReadSoFar, RefusedOnlyIfTorn
<1>8. commit' # NoCommit => commit'.payload = commit.payload /\ commit'.pc = "failed"
  BY <1>4 DEF NoCommit
<1>9. IdsBelow'
  <2>1. IdsBelow
    BY DEF Inv
  <2> QED  BY <1>1, <1>2, <1>3, <1>8, <2>1 DEF IdsBelow
<1>10. CommitIsLast'
  <2>1. CommitIsLast
    BY DEF Inv
  <2> QED  BY <1>1, <1>2, <1>4, <1>8, <2>1 DEF CommitIsLast
<1>11. AckedSynced'
  BY <1>1 DEF Inv, AckedSynced, Size
<1>12. ReplayAtomic'
  BY <1>1, <1>3 DEF Inv, ReplayAtomic, deserialiseTransactionCommand
<1>13. AckedRecovered'
  BY <1>1, <1>2, <1>3 DEF Inv, AckedRecovered, Running, deserialiseTransactionCommand
<1> QED  BY <1>5, <1>7, <1>9, <1>10, <1>11, <1>12, <1>13 DEF Inv

\* Clear, whether Truncate succeeds or not.
LEMMA ClearInv ==
  ASSUME Inv, Clear
  PROVE  Inv'
<1>1. /\ mode = "open" /\ mode' = "open" /\ commit = NoCommit /\ commit' = NoCommit
      /\ offset' = 0 /\ memTable' = {} /\ acked' = {}
      /\ UNCHANGED <<nextTransactionId, crashes>>
  BY DEF Clear
<1>2. /\ faults' \in 0 .. MaxFaults
      /\ \/ file' = file /\ synced' = synced
         \/ file' = <<>> /\ synced' = 0
  BY WalAssumption DEF Clear, Fault, Inv, Types
<1>3. /\ file' \in Seq(Cell) /\ Framed' /\ Len(file') <= MaxFileCells
      /\ synced' \in 0 .. Len(file') /\ offset' \in 0 .. Len(file')
      /\ IdsAgree' /\ \A n \in 0 .. Len(file') : Whole(n)' =>
           \A i \in 1 .. n : file'[i].of[2] < nextTransactionId
  <2>1. CASE file' = file /\ synced' = synced
    <3>1. Framed' = Framed /\ IdsAgree' = IdsAgree /\ \A n : Whole(n)' = Whole(n)
      BY <2>1, SameFile
    <3>2. offset' \in 0 .. Len(file')
      BY <1>1, <2>1 DEF Inv, Types
    <3> QED  BY <1>1, <2>1, <3>1, <3>2 DEF Inv, Types, IdsBelow, Running
  <2>2. CASE file' = <<>> /\ synced' = 0
    <3>1. file' \in Seq(Cell) /\ Len(file') = 0 /\ 1 .. 0 = {} /\ 0 .. 0 = {0}
      BY <2>2
    <3>2. Framed'
      BY <3>1 DEF Framed
    <3>3. IdsAgree'
      BY <3>1 DEF IdsAgree
    <3>4. synced' \in 0 .. Len(file') /\ offset' \in 0 .. Len(file') /\ Len(file') <= MaxFileCells
      BY <1>1, <2>2, <3>1, WalAssumption
    <3> QED  BY <3>1, <3>2, <3>3, <3>4
  <2> QED  BY <1>2, <2>1, <2>2
<1>4. Types'
  BY <1>1, <1>2, <1>3 DEF Inv, Types
<1>5. DownEmpty' /\ ReadSoFar' /\ CommitIsLast' /\ RefusedOnlyIfTorn'
  BY <1>1 DEF DownEmpty, ReadSoFar, CommitIsLast, RefusedOnlyIfTorn
<1>6. IdsBelow'
  BY <1>1, <1>3 DEF IdsBelow
<1>7. AckedSynced' /\ ReplayAtomic' /\ AckedRecovered'
  BY <1>1 DEF AckedSynced, ReplayAtomic, AckedRecovered
<1> QED  BY <1>3, <1>4, <1>5, <1>6, <1>7 DEF Inv

\* A crash cuts the file off behind what was synced.
LEMMA CrashInv ==
  ASSUME Inv, Crash
  PROVE  Inv'
<1>1. /\ mode' = "down" /\ offset' = 0 /\ commit' = NoCommit /\ memTable' = {}
      /\ crashes' \in 0 .. MaxCrashes
      /\ UNCHANGED <<nextTransactionId, acked, faults>>
  BY WalAssumption DEF Crash, Inv, Types
<1>2. /\ file \in Seq(Cell) /\ Framed /\ Len(file) \in Nat /\ Len(file) <= MaxFileCells
      /\ synced \in 0 .. Len(file)
  BY DEF Inv, Types
<1>3. PICK n \in synced .. Len(file) : file' = SubSeq(file, 1, n) /\ synced' = n
  BY DEF Crash
<1>4. n \in 0 .. Len(file) /\ n \in Nat /\ synced <= n
  BY <1>2
<1>5. file' \in Seq(Cell) /\ Len(file') = n /\ SameUpTo(n) /\ Framed'
  BY <1>2, <1>3, <1>4, CutFile
<1>6. \A i \in 1 .. n : file'[i] = file[i]
  BY <1>5 DEF SameUpTo
<1>7. Types'
  <2>1. /\ synced' \in 0 .. Len(file') /\ offset' \in 0 .. Len(file')
        /\ Len(file') <= MaxFileCells
    BY <1>1, <1>2, <1>3, <1>4, <1>5, WalAssumption
  <2> QED  BY <1>1, <1>5, <2>1 DEF Inv, Types, Calls
<1>8. IdsAgree'
  <2> SUFFICES ASSUME NEW w \in 0 .. Len(file'), Whole(w)',
                      NEW i \in 1 .. w, NEW j \in 1 .. w, file'[i].of[2] = file'[j].of[2]
               PROVE  file'[i].of = file'[j].of
    BY DEF IdsAgree
  <2>1. w \in 0 .. n /\ w \in 0 .. Len(file) /\ i \in 1 .. n /\ j \in 1 .. n
    BY <1>4, <1>5
  <2>2. Whole(w)
    BY <1>2, <1>5, <2>1, WholeSame
  <2>3. file'[i] = file[i] /\ file'[j] = file[j]
    BY <1>6, <2>1
  <2> QED  BY <2>1, <2>2, <2>3 DEF Inv, IdsAgree
<1>9. DownEmpty' /\ ReadSoFar' /\ CommitIsLast' /\ RefusedOnlyIfTorn' /\ IdsBelow'
  BY <1>1 DEF DownEmpty, ReadSoFar, CommitIsLast, RefusedOnlyIfTorn, IdsBelow, Running
<1>10. AckedSynced'
  <2> SUFFICES ASSUME NEW q \in acked
               PROVE  \E m \in 1 .. n : file'[m] = [of |-> q, at |-> Size(q)]
    BY <1>1, <1>3 DEF AckedSynced, Size
  <2>1. PICK m \in 1 .. synced : file[m] = [of |-> q, at |-> Size(q)]
    BY DEF Inv, AckedSynced
  <2>2. m \in 1 .. n
    BY <1>2, <1>4
  <2> QED  BY <1>6, <2>1, <2>2
<1>11. ReplayAtomic' /\ AckedRecovered'
  BY <1>1 DEF ReplayAtomic, AckedRecovered
<1> QED  BY <1>7, <1>8, <1>9, <1>10, <1>11 DEF Inv

\* NewWal opens the file; the first id is 1 until the replay has seen others.
LEMMA NewWalInv ==
  ASSUME Inv, NewWal
  PROVE  Inv'
<1>1. /\ mode' = "reading" /\ nextTransactionId' = 1
      /\ UNCHANGED <<file, synced, offset, commit, memTable, acked, crashes, faults>>
      /\ memTable = {} /\ offset = 0 /\ commit = NoCommit
  BY DEF NewWal, Inv, DownEmpty
<1>2. Framed' = Framed /\ IdsAgree' = IdsAgree
  BY <1>1, SameFile
<1>3. Types'
  <2>1. nextTransactionId' \in 1 .. MaxTxnId + 1
    BY <1>1, WalAssumption
  <2> QED  BY <1>1, <1>2, <2>1 DEF Inv, Types
<1>4. ReadSoFar'
  <2>1. 1 .. offset' = {}
    BY <1>1
  <2>2. Whole(offset)'
    BY <2>1 DEF Whole
  <2> QED  BY <1>1, <2>1, <2>2 DEF ReadSoFar
<1>5. DownEmpty' /\ CommitIsLast' /\ RefusedOnlyIfTorn' /\ IdsBelow'
  BY <1>1 DEF DownEmpty, CommitIsLast, RefusedOnlyIfTorn, IdsBelow, Running
<1>6. AckedSynced' /\ ReplayAtomic' /\ AckedRecovered'
  BY <1>1 DEF Inv, AckedSynced, ReplayAtomic, AckedRecovered, Size
<1> QED  BY <1>2, <1>3, <1>4, <1>5, <1>6 DEF Inv

\* A record behind whole records makes more whole records.
LEMMA WholeGoesOn ==
  ASSUME file \in Seq(Cell), Framed, NEW o \in 0 .. Len(file), Whole(o),
         NEW p \in Payloads, FrameAt(o, p)
  PROVE  /\ o + Size(p) \in 1 .. Len(file) /\ Whole(o + Size(p))
         /\ file[o + Size(p)] = [of |-> p, at |-> Size(p)]
         /\ \A i \in 1 .. o + Size(p) : i \in 1 .. o \/ file[i].of = p
<1> DEFINE m == o + Size(p)
<1>1. /\ Size(p) \in Nat /\ Size(p) > 0 /\ Len(file) \in Nat /\ o \in Nat
      /\ m <= Len(file) /\ Size(p) \in 1 .. Size(p)
      /\ \A j \in 1 .. Size(p) : file[o + j] = [of |-> p, at |-> j]
  BY PayloadFacts, WalAssumption DEF FrameAt
<1>2. m \in 1 .. Len(file) /\ file[m] = [of |-> p, at |-> Size(p)] /\ o <= m
  BY <1>1
<1>3. ASSUME NEW i \in 1 .. m, i \notin 1 .. o
      PROVE  file[i] = [of |-> p, at |-> i - o]
  <2>1. i - o \in 1 .. Size(p) /\ o + (i - o) = i
    BY <1>1, <1>3
  <2> QED  BY <1>1, <2>1
<1>4. ASSUME NEW i \in 1 .. m
      PROVE  /\ FrameEnd(i) <= m
             /\ file[FrameEnd(i)] = [of |-> file[i].of, at |-> Size(file[i].of)]
  <2>1. CASE i \in 1 .. o
    <3>1. /\ FrameEnd(i) <= o
          /\ file[FrameEnd(i)] = [of |-> file[i].of, at |-> Size(file[i].of)]
      BY <2>1 DEF Whole
    <3>2. i \in 1 .. Len(file)
      BY <1>1, <2>1
    <3>3. FrameEnd(i) \in Nat
      BY <3>2, CellFacts
    <3> QED  BY <1>1, <1>2, <3>1, <3>3
  <2>2. CASE i \notin 1 .. o
    <3>0. file[i] = [of |-> p, at |-> i - o]
      BY <1>3, <2>2, Zenon
    <3>1. file[i].of = p /\ file[i].at = i - o
      BY <3>0
    <3>2. FrameEnd(i) = m
      BY <1>1, <3>1 DEF FrameEnd
    <3> QED  BY <1>2, <3>1, <3>2
  <2> QED  BY <2>1, <2>2
<1>5. Whole(m)
  BY <1>4 DEF Whole
<1>6. \A i \in 1 .. m : i \in 1 .. o \/ file[i].of = p
  <2> SUFFICES ASSUME NEW i \in 1 .. m, i \notin 1 .. o PROVE file[i].of = p
    OBVIOUS
  <2>1. file[i] = [of |-> p, at |-> i - o]
    BY <1>3, Zenon
  <2> QED  BY <2>1
<1> QED  BY <1>2, <1>5, <1>6

\* The replay of a record.
LEMMA ReadRecordInv ==
  ASSUME Inv, mode = "reading", NEW r \in ReadEntry(offset), ReadRecord(r),
         UNCHANGED <<file, synced, commit, acked, crashes, faults>>
  PROVE  Inv'
<1>1. /\ file \in Seq(Cell) /\ Framed /\ offset \in 0 .. Len(file) /\ Types
      /\ nextTransactionId \in 1 .. MaxTxnId + 1
  BY DEF Inv, Types
<1>2. ReadSoFar /\ Whole(offset) /\ commit = NoCommit
  BY DEF Inv, ReadSoFar
<1>3. PICK p \in Payloads : p = r.payload /\ FrameAt(offset, p) /\ r.pos = offset + Size(p)
  BY <1>1, RecordRead DEF ReadRecord
<1>4. PICK m \in 1 .. Len(file) :
        /\ m = offset + Size(p) /\ Whole(m) /\ file[m] = [of |-> p, at |-> Size(p)]
        /\ \A i \in 1 .. m : i \in 1 .. offset \/ file[i].of = p
  BY <1>1, <1>2, <1>3, WholeGoesOn
<1>5. /\ memTable' = Replay(p) /\ offset' = m /\ mode' = "reading"
      /\ nextTransactionId' = IF p[2] >= nextTransactionId THEN p[2] + 1 ELSE nextTransactionId
  BY <1>3, <1>4 DEF ReadRecord
<1>6. /\ Framed' = Framed /\ Handed' = Handed
      /\ IdsAgree' = IdsAgree /\ \A n : Whole(n)' = Whole(n)
  BY SameFile
<1>7. /\ p[2] \in Nat /\ p[2] <= MaxTxnId /\ 1 <= p[2]
      /\ nextTransactionId \in Nat /\ MaxTxnId \in Nat /\ nextTransactionId <= MaxTxnId + 1
      /\ 1 <= nextTransactionId
  <2>1. p[2] \in Nat /\ p[2] <= MaxTxnId /\ 1 <= p[2]
    BY PayloadFacts, Zenon
  <2>2. /\ nextTransactionId \in Nat /\ MaxTxnId \in Nat /\ nextTransactionId <= MaxTxnId + 1
        /\ 1 <= nextTransactionId
    BY <1>1, WalAssumption
  <2> QED  BY <2>1, <2>2
<1>8. /\ p[2] < nextTransactionId' /\ nextTransactionId <= nextTransactionId'
      /\ nextTransactionId' \in 1 .. MaxTxnId + 1
  <2> DEFINE x == p[2]
  <2>1. /\ x \in Nat /\ x <= MaxTxnId /\ 1 <= x
        /\ nextTransactionId' = IF x >= nextTransactionId THEN x + 1 ELSE nextTransactionId
    BY <1>5, <1>7
  <2> HIDE DEF x
  <2>2. /\ x < nextTransactionId' /\ nextTransactionId <= nextTransactionId'
        /\ nextTransactionId' \in 1 .. MaxTxnId + 1
    BY <1>7, <2>1
  <2> QED  BY <2>2 DEF x
<1>9. /\ deserialiseTransactionCommand(p) \subseteq memTable'
      /\ memTable' \subseteq deserialiseTransactionCommand(p) \cup memTable
      /\ \A e \in memTable : e.txnId # p[2] => e \in memTable'
  BY <1>5, Replayed
<1>10. m \in 1 .. m /\ file[m].of = p /\ m \in 0 .. Len(file) /\ offset <= m
  <2>1. Size(p) \in Nat
    BY PayloadFacts
  <2> QED  BY <1>1, <1>4, <2>1
<1>11. Types'
  <2>1. memTable' \subseteq Entry
    BY <1>1, <1>9, Decoded DEF Types
  <2> QED  BY <1>1, <1>5, <1>6, <1>8, <1>10, <2>1 DEF Types
<1>12. ASSUME NEW i \in 1 .. m
       PROVE  /\ file[i].of[2] < nextTransactionId'
              /\ deserialiseTransactionCommand(file[i].of) \subseteq memTable'
  <2>1. CASE file[i].of = p
    BY <1>8, <1>9, <2>1
  <2>2. CASE i \in 1 .. offset /\ file[i].of # p
    <3>1. /\ file[i].of[2] < nextTransactionId
          /\ deserialiseTransactionCommand(file[i].of) \subseteq memTable
      BY <1>2, <2>2 DEF ReadSoFar
    <3>2. i \in 1 .. Len(file)
      BY <1>1, <2>2
    <3>3. file[i].of \in Payloads
      BY <1>1, <3>2, CellFacts
    <3>4. file[i].of[2] # p[2]
      BY <1>4, <1>10, <2>2 DEF Inv, IdsAgree
    <3>5. \A e \in deserialiseTransactionCommand(file[i].of) : e.txnId # p[2]
      BY <3>3, <3>4, Decoded
    <3>6. deserialiseTransactionCommand(file[i].of) \subseteq memTable'
      BY <1>9, <3>1, <3>5
    <3>7. file[i].of[2] \in Nat
      BY <3>3, PayloadFacts
    <3>8. file[i].of[2] < nextTransactionId'
      <4>1. \A x, y, z \in Nat : x < y /\ y <= z => x < z
        OBVIOUS
      <4>2. nextTransactionId' \in Nat
        BY <1>7, <1>8
      <4> QED  BY <1>7, <1>8, <3>1, <3>7, <4>1, <4>2, Zenon
    <3> QED  BY <3>6, <3>8
  <2> QED  BY <1>4, <2>1, <2>2
<1>13. ASSUME NEW e \in memTable'
       PROVE  \E i \in 1 .. m : e \in deserialiseTransactionCommand(file[i].of)
  <2>1. CASE e \in deserialiseTransactionCommand(p)
    BY <1>10, <2>1
  <2>2. CASE e \in memTable
    <3>1. PICK i \in 1 .. offset : e \in deserialiseTransactionCommand(file[i].of)
      BY <1>2, <2>2 DEF ReadSoFar
    <3>2. i \in 1 .. m
      BY <1>1, <1>10
    <3> QED  BY <3>1, <3>2
  <2> QED  BY <1>9, <2>1, <2>2
<1>14. ReadSoFar'
  <2>1. Whole(offset)'
    <3>1. Whole(m)'
      BY <1>4, <1>6
    <3> QED  BY <1>5, <3>1 DEF Whole, FrameEnd
  <2>2. file' = file /\ commit' = NoCommit
    BY <1>2
  <2>3. \A i \in 1 .. offset' :
          /\ file'[i].of[2] < nextTransactionId'
          /\ deserialiseTransactionCommand(file'[i].of) \subseteq memTable'
    BY <1>5, <1>12, <2>2, Zenon
  <2>4. \A e \in memTable' :
          \E i \in 1 .. offset' : e \in deserialiseTransactionCommand(file'[i].of)
    BY <1>5, <1>13, <2>2, Zenon
  <2> QED  BY <2>1, <2>2, <2>3, <2>4, Zenon DEF ReadSoFar
<1>15. ReplayAtomic'
  <2> SUFFICES ASSUME NEW e \in memTable'
               PROVE  \E q \in Handed : /\ e \in deserialiseTransactionCommand(q)
                                        /\ deserialiseTransactionCommand(q) \subseteq memTable'
    BY <1>6 DEF ReplayAtomic, deserialiseTransactionCommand
  <2>1. PICK i \in 1 .. m : e \in deserialiseTransactionCommand(file[i].of)
    BY <1>13
  <2>2. file[i].of \in Handed
    <3>1. i \in DOMAIN file
      BY <1>1, <1>4
    <3> QED  BY <3>1 DEF Handed
  <2> QED  BY <1>12, <2>1, <2>2
<1>16. DownEmpty' /\ CommitIsLast' /\ RefusedOnlyIfTorn' /\ IdsBelow' /\ AckedRecovered'
  BY <1>2, <1>5 DEF DownEmpty, CommitIsLast, RefusedOnlyIfTorn, IdsBelow, Running, AckedRecovered
<1>17. AckedSynced'
  BY DEF Inv, AckedSynced, Size
<1> QED  BY <1>6, <1>11, <1>14, <1>15, <1>16, <1>17 DEF Inv

\* The replay ends: every whole record was read, and if nothing lies behind a
\* torn one every acknowledged record was.
LEMMA ReadEndInv ==
  ASSUME Inv, mode = "reading", NEW r \in ReadEntry(offset), ReadEnd(r),
         UNCHANGED <<file, synced, commit, acked, crashes, faults>>
  PROVE  Inv'
<1>1. /\ file \in Seq(Cell) /\ Framed /\ offset \in 0 .. Len(file) /\ Types
      /\ Len(file) \in Nat /\ synced \in 0 .. Len(file)
  BY DEF Inv, Types
<1>2. ReadSoFar /\ Whole(offset) /\ commit = NoCommit
  BY DEF Inv, ReadSoFar
<1>3. /\ r.err = "EOF" /\ mode' = "starting" /\ offset' = Len(file)
      /\ UNCHANGED <<memTable, nextTransactionId>>
  BY DEF ReadEnd
<1>4. /\ Framed' = Framed /\ Handed' = Handed /\ Buried' = Buried
      /\ IdsAgree' = IdsAgree /\ \A n : Whole(n)' = Whole(n)
  BY SameFile
<1>5. Types'
  BY <1>1, <1>3, <1>4 DEF Types
<1>6. IdsBelow'
  <2>1. ASSUME NEW e \in memTable PROVE e.txnId < nextTransactionId
    <3>1. PICK i \in 1 .. offset : e \in deserialiseTransactionCommand(file[i].of)
      BY <1>2 DEF ReadSoFar
    <3>2. i \in 1 .. Len(file)
      BY <1>1
    <3>3. file[i].of \in Payloads
      BY <1>1, <3>2, CellFacts
    <3>4. e.txnId = file[i].of[2]
      BY <3>1, <3>3, Decoded
    <3> QED  BY <1>2, <3>4 DEF ReadSoFar
  <2>2. ASSUME NEW n \in 0 .. Len(file), Whole(n), NEW i \in 1 .. n
        PROVE  file[i].of[2] < nextTransactionId
    <3>1. n <= offset
      BY <1>1, <1>2, <1>3, <2>2, EndOfWhole
    <3>2. i \in 1 .. offset
      BY <1>1, <3>1
    <3> QED  BY <1>2, <3>2 DEF ReadSoFar
  <2> QED  BY <1>2, <1>3, <1>4, <2>1, <2>2 DEF IdsBelow
<1>7. AckedRecovered'
  <2> SUFFICES ASSUME ~Buried, NEW q \in acked
               PROVE  deserialiseTransactionCommand(q) \subseteq memTable
    BY <1>3, <1>4 DEF AckedRecovered, deserialiseTransactionCommand
  <2>1. PICK m \in 1 .. synced : file[m] = [of |-> q, at |-> Size(q)]
    BY DEF Inv, AckedSynced
  <2>2. m \in 1 .. Len(file) /\ q \in Payloads
    BY <1>1 DEF Types
  <2>3. m <= offset
    BY <1>1, <1>2, <1>3, <2>1, <2>2, EndOfComplete
  <2>4. m \in 1 .. offset /\ file[m].of = q
    BY <1>1, <2>1, <2>2, <2>3
  <2> QED  BY <1>2, <2>4 DEF ReadSoFar
<1>8. DownEmpty' /\ CommitIsLast' /\ RefusedOnlyIfTorn' /\ ReadSoFar'
  BY <1>2, <1>3 DEF DownEmpty, CommitIsLast, RefusedOnlyIfTorn, ReadSoFar
<1>9. AckedSynced' /\ ReplayAtomic'
  BY <1>3, <1>4 DEF Inv, AckedSynced, ReplayAtomic, Size, deserialiseTransactionCommand
<1> QED  BY <1>4, <1>5, <1>6, <1>7, <1>8, <1>9 DEF Inv

\* NewDB gives up: some record is torn, or too long.
LEMMA ReadRefusedInv ==
  ASSUME Inv, mode = "reading", NEW r \in ReadEntry(offset), ReadRefused(r),
         UNCHANGED <<file, synced, commit, acked, crashes, faults>>
  PROVE  Inv'
<1>1. file \in Seq(Cell) /\ Framed /\ offset \in 0 .. Len(file) /\ Types
  BY DEF Inv, Types
<1>2. Whole(offset) /\ commit = NoCommit
  BY DEF Inv, ReadSoFar
<1>3. mode' = "refused" /\ UNCHANGED <<offset, memTable, nextTransactionId>>
  BY DEF ReadRefused
<1>4. /\ Framed' = Framed /\ Handed' = Handed /\ WholeRecords' = WholeRecords
      /\ IdsAgree' = IdsAgree
  BY SameFile
<1>5. r.err = "corrupt"
  <2>1. ASSUME r.err = "none" PROVE WellFormed(r.payload)
    <3>1. r.payload \in Payloads
      BY <1>1, <2>1, RecordRead
    <3> QED  BY <3>1, PayloadFacts
  <2> QED  BY <2>1 DEF ReadRefused
<1>6. RefusedOnlyIfTorn'
  <2>1. ~WholeRecords \/ \E i \in DOMAIN file : Len(file[i].of) > SizeLimit
    BY <1>1, <1>2, <1>5, CorruptIfTorn
  <2> QED  BY <1>4, <2>1 DEF RefusedOnlyIfTorn
<1>7. Types'
  BY <1>1, <1>3, <1>4 DEF Types
<1>8. DownEmpty' /\ CommitIsLast' /\ ReadSoFar' /\ IdsBelow' /\ AckedRecovered'
  BY <1>2, <1>3 DEF DownEmpty, CommitIsLast, ReadSoFar, IdsBelow, Running, AckedRecovered
<1>9. AckedSynced' /\ ReplayAtomic'
  BY <1>3, <1>4 DEF Inv, AckedSynced, ReplayAtomic, Size, deserialiseTransactionCommand
<1> QED  BY <1>4, <1>6, <1>7, <1>8, <1>9 DEF Inv

\* A step that changes nothing.
LEMMA StutterInv ==
  ASSUME Inv, UNCHANGED vars
  PROVE  Inv'
<1>1. /\ Framed' = Framed /\ Handed' = Handed /\ Buried' = Buried
      /\ WholeRecords' = WholeRecords /\ IdsAgree' = IdsAgree
      /\ \A n : Whole(n)' = Whole(n)
  BY SameFile DEF vars
<1>2. Types'
  BY <1>1 DEF vars, Inv, Types
<1>3. DownEmpty' /\ RefusedOnlyIfTorn'
  BY <1>1 DEF vars, Inv, DownEmpty, RefusedOnlyIfTorn
<1>4. CommitIsLast'
  BY DEF vars, Inv, CommitIsLast, Running, Size
<1>5. ReadSoFar'
  <2>1. Whole(offset)' = Whole(offset)
    BY DEF vars, Whole, FrameEnd, Size
  <2> QED  BY <2>1 DEF vars, Inv, ReadSoFar, deserialiseTransactionCommand
<1>6. IdsBelow'
  BY <1>1 DEF vars, Inv, IdsBelow, Running
<1>7. AckedSynced' /\ ReplayAtomic' /\ AckedRecovered'
  BY <1>1 DEF vars, Inv, AckedSynced, ReplayAtomic, AckedRecovered, Size,
              deserialiseTransactionCommand
<1> QED  BY <1>1, <1>2, <1>3, <1>4, <1>5, <1>6, <1>7 DEF Inv

\* Every step preserves the invariant.
LEMMA NextInv ==
  ASSUME Inv, [Next]_vars
  PROVE  Inv'
<1>1. CASE buildMemtableFromWal
  <2>1. PICK r \in ReadEntry(offset) : ReadRecord(r) \/ ReadEnd(r) \/ ReadRefused(r)
    BY <1>1 DEF buildMemtableFromWal
  <2>2. mode = "reading" /\ UNCHANGED <<file, synced, commit, acked, crashes, faults>>
    BY <1>1 DEF buildMemtableFromWal
  <2> QED  BY <2>1, <2>2, ReadRecordInv, ReadEndInv, ReadRefusedInv
<1> QED  BY <1>1, CommitNewInv, CommitAgainInv, SyncInv, CommitFailsInv, ClearInv,
            CrashInv, NewWalInv, StutterInv DEF Next

\* The new, empty log satisfies the invariant.
LEMMA InitInv == Init => Inv
<1> SUFFICES ASSUME Init PROVE Inv
  OBVIOUS
<1>1. /\ file = <<>> /\ synced = 0 /\ offset = 0 /\ mode = "reading" /\ commit = NoCommit
      /\ memTable = {} /\ nextTransactionId = 1 /\ acked = {} /\ crashes = 0 /\ faults = 0
  BY DEF Init
<1>2. file \in Seq(Cell) /\ Len(file) = 0 /\ 1 .. 0 = {} /\ 0 .. 0 = {0}
  BY <1>1
<1>3. Framed /\ IdsAgree /\ Whole(0)
  BY <1>2 DEF Framed, IdsAgree, Whole
<1>4. Types
  <2>1. /\ 0 <= MaxFileCells /\ 0 \in 0 .. MaxCrashes /\ 0 \in 0 .. MaxFaults
        /\ 1 \in 1 .. MaxTxnId + 1
    BY WalAssumption
  <2> QED  BY <1>1, <1>2, <1>3, <2>1 DEF Types, Calls
<1>5. ReadSoFar
  BY <1>1, <1>2, <1>3 DEF ReadSoFar
<1>6. DownEmpty /\ CommitIsLast /\ RefusedOnlyIfTorn /\ IdsBelow
  BY <1>1 DEF DownEmpty, CommitIsLast, RefusedOnlyIfTorn, IdsBelow, Running
<1>7. AckedSynced /\ ReplayAtomic /\ AckedRecovered
  BY <1>1 DEF AckedSynced, ReplayAtomic, AckedRecovered
<1> QED  BY <1>3, <1>4, <1>5, <1>6, <1>7 DEF Inv

\* Inv holds in every state.
LEMMA Invariance == Spec => []Inv
BY InitInv, NextInv, PTL DEF Spec

-------------------------------------------------------------------------------
(***************************************************************************)
(* The theorems                                                            *)
(***************************************************************************)

\* The file is made of cells of well formed records, and offset, counters,
\* commit and memtable keep their types, whatever is torn or fails.
THEOREM WalTypeCorrect == Spec => []TypeOK
<1>1. ASSUME Types PROVE TypeOK
  <2>1. file \in Seq(Cell) /\ Framed /\ Len(file) \in Nat
    BY <1>1 DEF Types
  <2>2. ASSUME NEW i \in DOMAIN file
        PROVE  WellFormed(file[i].of) /\ file[i].at \in 1 .. Len(Frame(file[i].of))
    <3>1. i \in 1 .. Len(file)
      BY <2>1
    <3>2. /\ file[i].of \in Payloads /\ file[i].at \in 1 .. i
          /\ file[i].at <= Size(file[i].of) /\ Size(file[i].of) \in Nat
      BY <2>1, <3>1, CellFacts
    <3>3. Len(Frame(file[i].of)) = Size(file[i].of) /\ WellFormed(file[i].of)
      BY <3>2, FrameCells, PayloadFacts
    <3> QED  BY <3>2, <3>3
  <2>3. \/ commit = NoCommit
        \/ commit.pc \in {"syncing", "failed"} /\ WellFormed(commit.payload)
    BY <1>1, PayloadFacts DEF Types, Calls
  <2>4. \A payload \in acked : WellFormed(payload)
    BY <1>1, PayloadFacts DEF Types
  <2> QED  BY <1>1, <2>2, <2>3, <2>4 DEF Types, TypeOK
<1> QED  BY <1>1, Invariance, PTL DEF Inv

\* However records are torn, retried, buried and replayed, the memtable holds
\* whole transactions only, each of which was handed to WriteEntry.
THEOREM ReplaysWholeTransactions == Spec => []ReplayAtomic
<1>1. Inv => ReplayAtomic
  BY DEF Inv
<1> QED  BY <1>1, Invariance, PTL

\* After any number of crashes and restarts, a database that opens has every
\* transaction whose Commit returned nil since the last Clear, unless a record
\* lies behind a torn one.
THEOREM AckedSurvive == Spec => []AckedRecovered
<1>1. Inv => AckedRecovered
  BY DEF Inv
<1> QED  BY <1>1, Invariance, PTL

\* NewDB refuses a log only if a record in it is torn or longer than the
\* limit of ReadEntry, whose check WriteEntry does not make.
THEOREM RefusesOnlyTorn == Spec => []RefusedOnlyIfTorn
<1>1. Inv => RefusedOnlyIfTorn
  BY DEF Inv
<1> QED  BY <1>1, Invariance, PTL
===============================================================================

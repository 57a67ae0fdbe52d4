---------------------------------- MODULE Wal ----------------------------------
(***************************************************************************)
(* The write-ahead log as bytes: wal/wal.go, the payload that Commit       *)
(* serialises (db/transaction.go) and its replay in NewDB                  *)
(* (buildMemtableFromWal in db/db.go).                                     *)
(*                                                                         *)
(* The file is a sequence of cells.  A record on it is a frame: a length   *)
(* field, the payload and a checksum field.  One cell of payload is one    *)
(* length-prefixed item of it; the two other fields have FieldCells cells, *)
(* so that each of the three can be there in part.  A checksum is taken to *)
(* be free of collisions.                                                  *)
(*                                                                         *)
(* A crash keeps what was synced and any part of what was not.  Commits    *)
(* come one after the other, as from main.go.                              *)
(***************************************************************************)
EXTENDS Versions, Sequences, FiniteSets, SequencesExt

CONSTANTS CmdTransaction,  \* the first item of every payload
          Garbage,         \* a cell of another field, read as a payload item
          FieldCells,      \* 4 bytes in the code
          SizeLimit,       \* 1_000_000 bytes in ReadEntry
          MaxTxnId,        \* bound on the transaction ids handed out
          MaxFileCells,    \* bound on the cells of the file
          MaxCrashes,      \* bound on the crashes
          MaxFaults        \* bound on the calls of Write, Sync and Truncate
                           \* that fail

ASSUME WalAssumption == /\ FieldCells \in Nat \ {0}
                        /\ SizeLimit \in Nat
                        /\ MaxTxnId \in Nat \ {0}
                        /\ MaxFileCells \in Nat
                        /\ MaxCrashes \in Nat
                        /\ MaxFaults \in Nat

TxnIds == 1 .. MaxTxnId

VARIABLES
  file,      \* the cells of wal.log
  synced,    \* how many of them are known to be on the disk
  offset,    \* the offset of the handle
  mode,      \* where the process is between NewWal and its end
  commit,    \* the Commit under way: how far it is, and its payload
  memTable,  \* the entries in the memtable
  nextTransactionId,
  acked,     \* history: payloads acknowledged since the last Clear
  crashes,   \* history: crashes so far
  faults     \* history: calls that failed so far

vars == <<file, synced, offset, mode, commit, memTable, nextTransactionId,
          acked, crashes, faults>>

NoCommit == [pc |-> "none", payload |-> <<>>]

\* The map of a transaction's writes is finite.
WriteMaps == UNION { [D -> Values] : D \in { E \in SUBSET Keys : IsFiniteSet(E) } }

-------------------------------------------------------------------------------
(***************************************************************************)
(* Payloads                                                                *)
(***************************************************************************)

\* serialiseTransactionCommitPayload: command, id, number of writes, and the
\* writes in the order in which Go iterates over the map.
serialiseTransactionCommitPayload(writeMap, t, order) ==
  <<CmdTransaction, t, Len(order)>>
    \o [i \in 1 .. 2 * Len(order) |->
          IF i % 2 = 1 THEN order[(i + 1) \div 2]
                       ELSE writeMap[order[i \div 2]]]

PayloadsOf(writeMap, t) ==
  { serialiseTransactionCommitPayload(writeMap, t, order)
      : order \in SetToSeqs(DOMAIN writeMap) }

\* What buildMemtableFromWal and deserialiseTransactionCommand accept: the
\* command, the counted writes, and nothing behind them.
WellFormed(payload) ==
  /\ Len(payload) >= 3 /\ payload[1] = CmdTransaction
  /\ payload[2] \in Nat /\ payload[3] \in Nat
  /\ Len(payload) = 3 + 2 * payload[3]

\* The entries that the replay of a payload puts into the memtable.
deserialiseTransactionCommand(payload) ==
  { [key |-> payload[2 + 2 * j], value |-> payload[3 + 2 * j],
     txnId |-> payload[2]] : j \in 1 .. payload[3] }

-------------------------------------------------------------------------------
(***************************************************************************)
(* Records on the file                                                     *)
(***************************************************************************)

\* The cells of a record: each knows its payload and its place in the frame.
Frame(payload) ==
  [i \in 1 .. Len(payload) + 2 * FieldCells |-> [of |-> payload, at |-> i]]

EndsFrame(cell) == cell.at = Len(cell.of) + 2 * FieldCells

\* What a reader takes a cell for when it is read as part of a payload.
Item(cell) ==
  IF cell.at \in FieldCells + 1 .. FieldCells + Len(cell.of)
  THEN cell.of[cell.at - FieldCells]
  ELSE Garbage

Cells(from, n) == SubSeq(file, from + 1, from + n)
Available(from) == Len(file) - from

LengthField(payload)   == SubSeq(Frame(payload), 1, FieldCells)
ChecksumField(payload) ==
  SubSeq(Frame(payload), Len(payload) + FieldCells + 1,
         Len(payload) + 2 * FieldCells)

\* binary.BigEndian.Uint32 of the length field.  Bytes that come from two
\* fields may stand for any number.
PayloadLengths(cells) ==
  IF cells = LengthField(cells[1].of) THEN {Len(cells[1].of)}
                                      ELSE 0 .. MaxFileCells + 1

EOF     == [err |-> "EOF", payload |-> <<>>, pos |-> 0]
Corrupt == [err |-> "corrupt", payload |-> <<>>, pos |-> 0]

\* Two slips (see PROJECT.json): a payload of exactly the limit is refused; the
\* checksum is not compared.
AtLimit(n) == n >= SizeLimit
Unverified(payload, p) == TRUE

TooLong(n) == n > SizeLimit
Verified(payload, p) == Cells(p, FieldCells) = ChecksumField(payload)

\* ReadEntry behind the length field.  io.ReadFull returns io.EOF when not a
\* single byte of the payload, or of the checksum, is left and
\* io.ErrUnexpectedEOF when some are: only the second is turned into an error
\* of its own.
ReadPayload(p, n) ==
  LET payload == [i \in 1 .. n |-> Item(file[p + i])]
  IN  IF TooLong(n)                         THEN Corrupt
      ELSE IF Available(p) \in {0, n}       THEN EOF
      ELSE IF Available(p) < n + FieldCells THEN Corrupt
      ELSE IF Verified(payload, p + n)
           THEN [err |-> "none", payload |-> payload, pos |-> p + n + FieldCells]
           ELSE Corrupt

\* The results that ReadEntry may have at offset p.
ReadEntry(p) ==
  IF Available(p) = 0               THEN {EOF}
  ELSE IF Available(p) < FieldCells THEN {Corrupt}
  ELSE { ReadPayload(p + FieldCells, n)
           : n \in PayloadLengths(Cells(p, FieldCells)) }

\* The payloads that WriteEntry put into the file, in whole or in part.
Handed == { file[i].of : i \in DOMAIN file }

\* The file holds whole records only.
WholeRecords ==
  \/ file = <<>>
  \/ /\ file[1].at = 1 /\ EndsFrame(file[Len(file)])
     /\ \A i \in 1 .. Len(file) - 1 :
          IF EndsFrame(file[i]) THEN file[i + 1].at = 1
          ELSE file[i + 1] = [file[i] EXCEPT !.at = @ + 1]

\* Some record was written behind the torn end of another.
Buried ==
  \E i \in 1 .. Len(file) - 1 : file[i + 1].at = 1 /\ ~EndsFrame(file[i])
-------------------------------------------------------------------------------
(***************************************************************************)
(*   down      no process                                                  *)
(*   reading   NewDB is in buildMemtableFromWal                            *)
(*   refused   NewDB returned an error                                     *)
(*   starting  NewDB reads the catalog, in a transaction of its own        *)
(*   open      NewDB returned the database                                 *)
(***************************************************************************)
TypeOK ==
  /\ \A i \in DOMAIN file : /\ WellFormed(file[i].of)
                            /\ file[i].at \in 1 .. Len(Frame(file[i].of))
  /\ Len(file) <= MaxFileCells
  /\ synced \in 0 .. Len(file)
  /\ offset \in 0 .. Len(file)
  /\ mode \in {"down", "reading", "refused", "starting", "open"}
  /\ \/ commit = NoCommit
     \/ commit.pc \in {"syncing", "failed"} /\ WellFormed(commit.payload)
  /\ memTable \subseteq Entry
  /\ nextTransactionId \in 1 .. MaxTxnId + 1
  /\ \A payload \in acked : WellFormed(payload)
  /\ crashes \in 0 .. MaxCrashes
  /\ faults \in 0 .. MaxFaults

\* NewWal has created the file, and nothing was read yet.
Init ==
  /\ file = <<>> /\ synced = 0 /\ offset = 0
  /\ mode = "reading"
  /\ commit = NoCommit
  /\ memTable = {}
  /\ nextTransactionId = 1
  /\ acked = {}
  /\ crashes = 0 /\ faults = 0

\* What remains of the memtable when the entries of payload are put into it.
Replay(payload) ==
  LET new == deserialiseTransactionCommand(payload)
  IN  new \cup { e \in memTable :
                   \A f \in new : f.key # e.key \/ f.txnId # e.txnId }

\* Commit is over; if it was NewDB's, so is NewDB.
CommitReturns ==
  /\ commit' = NoCommit
  /\ mode' = "open"

-------------------------------------------------------------------------------
\* Changed forms of operations above and below, each a slip this code could
\* have had.  Nothing uses them; PROJECT.json names the property that rejects
\* each.

\* WriteEntry returns without Sync
SyncSkipped ==
  /\ commit.pc = "syncing"
  /\ memTable' = Replay(commit.payload)
  /\ acked' = acked \cup {commit.payload}
  /\ CommitReturns
  /\ UNCHANGED <<file, synced, offset, nextTransactionId, crashes, faults>>

\* Clear without the Seek
ClearWithoutSeek ==
  /\ mode = "open" /\ commit = NoCommit
  /\ file' = <<>> /\ synced' = 0
  /\ memTable' = {}
  /\ acked' = {}
  /\ UNCHANGED <<offset, mode, commit, nextTransactionId, crashes, faults>>

-------------------------------------------------------------------------------
(***************************************************************************)
(* WriteEntry and Clear                                                    *)
(***************************************************************************)

\* A call to the operating system fails.
Fault == faults < MaxFaults /\ faults' = faults + 1

\* The single os.Write of a whole frame.  The file is opened for append.
Write(payload) ==
  /\ Len(file) + Len(Frame(payload)) <= MaxFileCells
  /\ file' = file \o Frame(payload)
  /\ offset' = Len(file')
  /\ commit' = [pc |-> "syncing", payload |-> payload]
  /\ UNCHANGED <<synced, mode, memTable, acked, crashes, faults>>

\* A full disk, say: part of the frame is written and Write returns an error.
WriteFails(payload) ==
  /\ Fault
  /\ \E n \in 0 .. Len(Frame(payload)) - 1 :
       /\ Len(file) + n <= MaxFileCells
       /\ file' = file \o SubSeq(Frame(payload), 1, n)
  /\ offset' = Len(file')
  /\ commit' = [pc |-> "failed", payload |-> payload]
  /\ UNCHANGED <<synced, mode, memTable, acked, crashes>>

\* Commit of a transaction begun with the next id.  NewDB's own transaction
\* has written nothing.
CommitNew ==
  LET t == nextTransactionId
  IN  /\ mode \in {"starting", "open"} /\ commit = NoCommit
      /\ t \in TxnIds
      /\ \E writeMap \in WriteMaps :
           /\ mode = "starting" => DOMAIN writeMap = {}
           /\ \E payload \in PayloadsOf(writeMap, t) :
                Write(payload) \/ WriteFails(payload)
      /\ nextTransactionId' = t + 1

\* Sync succeeds: WriteEntry returns nil and Commit fills the memtable.
Sync ==
  /\ commit.pc = "syncing"
  /\ synced' = Len(file)
  /\ memTable' = Replay(commit.payload)
  /\ acked' = acked \cup {commit.payload}
  /\ CommitReturns
  /\ UNCHANGED <<file, offset, nextTransactionId, crashes, faults>>

\* Sync fails: Commit returns the error, but the record is in the file.
SyncFails ==
  /\ Fault
  /\ commit.pc = "syncing"
  /\ commit' = [commit EXCEPT !.pc = "failed"]
  /\ UNCHANGED <<file, synced, offset, mode, memTable, nextTransactionId,
                 acked, crashes>>

\* The caller of a Commit that failed calls it again: the whole record once
\* more, behind what the first attempt left.
CommitAgain ==
  /\ commit.pc = "failed" /\ mode = "open"
  /\ Write(commit.payload) \/ WriteFails(commit.payload)
  /\ UNCHANGED nextTransactionId

\* The caller rolls back.  NewDB's deferred Commit drops the error.
GiveUp ==
  /\ commit.pc = "failed"
  /\ CommitReturns
  /\ UNCHANGED <<file, synced, offset, memTable, nextTransactionId,
                 acked, crashes, faults>>

\* The memtable was written to a file and is cleared; then Clear.  The error
\* of Truncate is dropped.
Clear ==
  /\ mode = "open" /\ commit = NoCommit
  /\ \/ file' = <<>> /\ synced' = 0 /\ UNCHANGED faults
     \/ Fault /\ UNCHANGED <<file, synced>>
  /\ offset' = 0
  /\ memTable' = {}
  /\ acked' = {}
  /\ UNCHANGED <<mode, commit, nextTransactionId, crashes>>

-------------------------------------------------------------------------------
(***************************************************************************)
(* Crash and restart                                                       *)
(***************************************************************************)
Crash ==
  /\ crashes < MaxCrashes /\ crashes' = crashes + 1
  /\ mode \in {"reading", "starting", "open"} /\ mode' = "down"
  /\ \E n \in synced .. Len(file) :
       file' = SubSeq(file, 1, n) /\ synced' = n
  /\ offset' = 0
  /\ commit' = NoCommit
  /\ memTable' = {}
  /\ UNCHANGED <<nextTransactionId, acked, faults>>

NewWal ==
  /\ mode = "down" /\ mode' = "reading"
  /\ nextTransactionId' = 1
  /\ UNCHANGED <<file, synced, offset, commit, memTable, acked,
                 crashes, faults>>

\* A round of buildMemtableFromWal that finds a record.
ReadRecord(r) ==
  /\ r.err = "none" /\ WellFormed(r.payload)
  /\ memTable' = Replay(r.payload)
  /\ nextTransactionId' =
       IF r.payload[2] >= nextTransactionId THEN r.payload[2] + 1
                                            ELSE nextTransactionId
  /\ offset' = r.pos
  /\ UNCHANGED mode

\* The round that ends the loop.
ReadEnd(r) ==
  /\ r.err = "EOF"
  /\ mode' = "starting"
  /\ offset' = Len(file)
  /\ UNCHANGED <<memTable, nextTransactionId>>

\* Any error makes NewDB give up.
ReadRefused(r) ==
  /\ r.err = "corrupt" \/ (r.err = "none" /\ ~WellFormed(r.payload))
  /\ mode' = "refused"
  /\ UNCHANGED <<offset, memTable, nextTransactionId>>

buildMemtableFromWal ==
  /\ mode = "reading"
  /\ \E r \in ReadEntry(offset) : ReadRecord(r) \/ ReadEnd(r) \/ ReadRefused(r)
  /\ UNCHANGED <<file, synced, commit, acked, crashes, faults>>

Next ==
  \/ CommitNew \/ Sync \/ SyncFails \/ CommitAgain \/ GiveUp \/ Clear
  \/ Crash \/ NewWal \/ buildMemtableFromWal

Spec == Init /\ [][Next]_vars

-------------------------------------------------------------------------------
(***************************************************************************)
(* Properties                                                              *)
(***************************************************************************)

\* Whatever a crash or a failed write left in the file, and however often
\* something was written behind it, the memtable never holds a part of a
\* transaction or something that was not handed to WriteEntry.
ReplayAtomic ==
  \A e \in memTable :
    \E payload \in Handed :
      /\ e \in deserialiseTransactionCommand(payload)
      /\ deserialiseTransactionCommand(payload) \subseteq memTable

\* A database that opens has every transaction that was acknowledged since
\* the log was cleared, torn end or not, unless a record was written behind a
\* torn one: that one's length field then swallows what follows.
AckedRecovered ==
  mode \in {"starting", "open"} /\ ~Buried =>
    \A payload \in acked : deserialiseTransactionCommand(payload) \subseteq memTable

\* A log of whole records is refused only for a record that WriteEntry
\* accepted and ReadEntry finds too long.
RefusedOnlyIfTorn ==
  mode = "refused" =>
    ~WholeRecords \/ \E i \in DOMAIN file : Len(file[i].of) > SizeLimit

===============================================================================

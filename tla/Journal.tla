------------------------------- MODULE Journal -------------------------------
(***************************************************************************)
(* The durable journal of a coordinator (src/persistence.cpp): an append-  *)
(* only file of numbered records closed by an end marker, the copy of it   *)
(* in memory, and the process that writes it and may die at any moment.    *)
(*                                                                         *)
(* append is several steps, because the file changes under it: the record  *)
(* overwrites the old end marker, then the new marker follows it, and the  *)
(* bytes reach the file whenever the C library hands them over.  Every     *)
(* other operation changes the file in one write or rename.  The commit    *)
(* lock of the coordinator lets one operation run at a time.               *)
(* Simplifications:                                                        *)
(*                                                                         *)
(*  - The file is its list of records and what its end marker says.  A     *)
(*    CRC-32 is what it covers: no two contents share one.  A file that    *)
(*    does not end in an intact marker has marked = FALSE, whatever its    *)
(*    last bytes are.                                                      *)
(*  - Offsets and sizes are counted in records.                            *)
(*  - A failed operation that changes nothing (a full journal, a record    *)
(*    too long to encode, a temporary file that cannot be written) has no  *)
(*    action.                                                              *)
(*  - A write handed to the operating system survives the process.  The    *)
(*    loss of power, which can undo such a write, is not modelled: append  *)
(*    syncs to disk on Windows only.                                       *)
(***************************************************************************)
EXTENDS Integers, Sequences

CONSTANTS
    Entries,        \* what callers append
    Undecodable,    \* entries with text past max_metadata_string_bytes:
                    \* encode writes them, decode refuses them
    MaxRecords,     \* limits_.max_persisted_records
    MaxFileRecords  \* limits_.max_persistence_file_bytes, counted in records

ASSUME UndecodableAssumption == Undecodable \subseteq Entries
ASSUME JournalLimitsAssumption == {MaxRecords, MaxFileRecords} \subseteq Nat \ {0}

VARIABLES
    disk,           \* the file at path_
    mode,           \* "closed", "memory" (path_ is empty) or "file"
    attached,       \* file_ is not null: is_durable
    entries,        \* entries_
    nextSequence,   \* next_sequence_
    validEnd,       \* valid_end_offset_
    runningCrc,     \* running_crc_: the records it covers
    failed,         \* failed_
    stage,          \* the next call of a running append, or "idle"
    stored,         \* the record of a running append: a list of at most one
    buffer,         \* images of the file that the C library still has to write
    (*********************************************************************)
    (* History.                                                          *)
    (*********************************************************************)
    acked,          \* records whose append into the file returned success
    doubt           \* a record whose append neither succeeded nor vanished

memory  == <<entries, nextSequence, validEnd, runningCrc, failed>>
running == <<stage, stored, buffer>>
history == <<acked, doubt>>
vars    == <<disk, mode, attached, entries, nextSequence, validEnd, runningCrc,
             failed, stage, stored, buffer, acked, doubt>>

Record == [entry : Entries, sequence : Nat \ {0}]

\* header | record* | trailer: count and covers are the fields of the trailer.
File == [present : BOOLEAN, records : Seq(Record), marked : BOOLEAN,
         count : Nat, covers : Seq(Record)]

NoFile == [present |-> FALSE, records |-> <<>>, marked |-> FALSE, count |-> 0, covers |-> <<>>]

\* A file whose end marker is whole, and one that lacks it.
Complete(records, count, covers) ==
    [present |-> TRUE, records |-> records, marked |-> TRUE, count |-> count, covers |-> covers]
Unmarked(records) ==
    [present |-> TRUE, records |-> records, marked |-> FALSE, count |-> 0, covers |-> <<>>]

Image(records) == Complete(records, Len(records), records)

-----------------------------------------------------------------------------
(* Opening.                                                                *)

Decodes(record) == record.entry \notin Undecodable

StrictlyIncreasing(records) ==
    \A i \in 1 .. Len(records) - 1 : records[i].sequence < records[i + 1].sequence

\* Mutant: the checksum of the end marker is not compared.
AcceptsUnchecked(file) ==
    /\ Len(file.records) <= MaxFileRecords
    /\ file.marked
    /\ StrictlyIncreasing(file.records)
    /\ Len(file.records) <= MaxRecords
    /\ \A i \in 1 .. Len(file.records) : Decodes(file.records[i])
    /\ file.count = Len(file.records)

\* open accepts a file when every check of its reading passes.
Accepts(file) ==
    /\ Len(file.records) <= MaxFileRecords
    /\ file.marked
    /\ file.covers = file.records
    /\ StrictlyIncreasing(file.records)
    /\ Len(file.records) <= MaxRecords
    /\ \A i \in 1 .. Len(file.records) : Decodes(file.records[i])
    /\ file.count = Len(file.records)

\* Mutant: the numbering resumes after the first record.
FirstSequence(records) == IF records = <<>> THEN 0 ELSE records[1].sequence

LastSequence(records) == IF records = <<>> THEN 0 ELSE records[Len(records)].sequence

\* What open works on: an absent file is established first.
Established == IF disk.present THEN disk ELSE Image(<<>>)

Opens ==
    /\ mode = "closed"
    /\ Accepts(Established)
    /\ disk' = Established
    /\ mode' = "file"
    /\ attached' = TRUE
    /\ entries' = Established.records
    /\ nextSequence' = LastSequence(Established.records) + 1
    /\ validEnd' = Len(Established.records)
    /\ runningCrc' = Established.covers
    /\ failed' = FALSE
    /\ acked' = Established.records
    /\ doubt' = <<>>
    /\ UNCHANGED running

\* A file that is refused, or that cannot be read or reopened for appending,
\* is left as it is; a new file may be left behind in part or whole.  What was
\* read so far is not used.
OpenRefuses ==
    /\ mode = "closed"
    /\ \/ disk.present /\ UNCHANGED disk
       \/ ~ disk.present /\ disk' \in {NoFile, Unmarked(<<>>), Image(<<>>)}
    /\ entries' = <<>>
    /\ nextSequence' = 1
    /\ runningCrc' = <<>>
    /\ failed' = FALSE
    /\ UNCHANGED <<mode, attached, validEnd, running, history>>

OpenInMemory ==
    /\ mode = "closed"
    /\ mode' = "memory"
    /\ attached' = FALSE
    /\ entries' = <<>>
    /\ nextSequence' = 1
    /\ validEnd' = 0
    /\ runningCrc' = <<>>
    /\ failed' = FALSE
    /\ UNCHANGED <<disk, running, history>>

-----------------------------------------------------------------------------
(* append.                                                                 *)

\* Mutant: a record takes the number of the one before it.
StoredOneLess(entry) == [entry |-> entry, sequence |-> nextSequence - 1]

Stored(entry) == [entry |-> entry, sequence |-> nextSequence]

\* append does not ask whether the journal is open.
CanAppend ==
    /\ stage = "idle"
    /\ ~ failed
    /\ Len(entries) < MaxRecords

\* The bookkeeping at the end of a successful append.
Remember(record) ==
    /\ validEnd' = validEnd + 1
    /\ runningCrc' = Append(runningCrc, record)
    /\ nextSequence' = nextSequence + 1
    /\ entries' = Append(entries, record)

\* Without a file handle, in memory or after close, append writes nothing and
\* succeeds.
AppendDetached(entry) ==
    /\ CanAppend
    /\ ~ attached
    /\ Remember(Stored(entry))
    /\ UNCHANGED <<disk, mode, attached, failed, running, history>>

BeginAppend(entry) ==
    /\ CanAppend
    /\ attached
    /\ stage' = "record"
    /\ stored' = <<Stored(entry)>>
    /\ doubt' = <<Stored(entry)>>
    /\ UNCHANGED <<disk, mode, attached, memory, buffer, acked>>

\* The record goes where the last valid record ends, over the end marker.
WriteRecord ==
    /\ stage = "record"
    /\ buffer' = Append(buffer, Unmarked(SubSeq(disk.records, 1, validEnd) \o stored))
    /\ stage' = "marker"
    /\ UNCHANGED <<disk, mode, attached, memory, stored, history>>

\* The new end marker counts the records and extends the running checksum.
WriteMarker ==
    /\ stage = "marker"
    /\ buffer' = Append(buffer, Complete(SubSeq(disk.records, 1, validEnd) \o stored,
                                         Len(entries) + 1, runningCrc \o stored))
    /\ stage' = "flush"
    /\ UNCHANGED <<disk, mode, attached, memory, stored, history>>

\* The flush ends when the C library has written everything.
Flush ==
    /\ stage = "flush"
    /\ buffer = <<>>
    /\ Remember(stored[1])
    /\ stage' = "idle"
    /\ stored' = <<>>
    /\ acked' = acked \o stored
    /\ doubt' = <<>>
    /\ UNCHANGED <<disk, mode, attached, failed, buffer>>

\* fseek, fwrite or fflush fails: the journal accepts nothing any more.  What
\* the C library has buffered may still reach the file.
AppendFails ==
    /\ stage # "idle"
    /\ failed' = TRUE
    /\ stage' = "idle"
    /\ stored' = <<>>
    /\ UNCHANGED <<disk, mode, attached, entries, nextSequence, validEnd, runningCrc,
                   buffer, history>>

\* The C library writes the next piece of its buffer, whole or in part; what
\* is written first destroys the old end marker.
Drain ==
    /\ buffer # <<>>
    /\ \/ disk' = Head(buffer) /\ buffer' = Tail(buffer)
       \/ disk' = Unmarked(disk.records) /\ UNCHANGED buffer
    /\ UNCHANGED <<mode, attached, memory, stage, stored, history>>

-----------------------------------------------------------------------------
(* rewrite_all, close, and what happens to the process and its file.       *)

\* rewrite_all numbers the records afresh.
Numbered(records) ==
    [i \in 1 .. Len(records) |-> [entry |-> records[i].entry, sequence |-> i]]

\* Nothing calls rewrite_all; it is taken to be called on an open journal.
CanRewrite == mode = "file" /\ ~ failed /\ stage = "idle"

\* The handle is closed before the file is replaced, and the replacement fails.
RewriteKeepsOldFile ==
    /\ CanRewrite
    /\ attached' = FALSE
    /\ UNCHANGED <<disk, mode, memory, running, history>>

\* The new file is in place; reopening it succeeds or not.
RewriteReplaces ==
    /\ CanRewrite
    /\ disk' = Image(Numbered(entries))
    /\ acked' = Numbered(entries)
    /\ doubt' = <<>>
    /\ \/ /\ attached' = TRUE
          /\ validEnd' = Len(entries)
          /\ runningCrc' = Numbered(entries)
          /\ nextSequence' = Len(entries) + 1
          /\ UNCHANGED failed
       \/ /\ attached' = FALSE
          /\ failed' = TRUE
          /\ UNCHANGED <<validEnd, runningCrc, nextSequence>>
    /\ UNCHANGED <<mode, entries, running>>

Rewrite == RewriteKeepsOldFile \/ RewriteReplaces

\* fclose writes what is still buffered, or as much of it as Drain has written.
Close ==
    /\ mode # "closed"
    /\ stage = "idle"
    /\ mode' = "closed"
    /\ attached' = FALSE
    /\ buffer' = <<>>
    /\ UNCHANGED <<disk, memory, stage, stored, history>>

\* The process dies, in the middle of an append perhaps.
Crash ==
    /\ mode # "closed"
    /\ mode' = "closed"
    /\ attached' = FALSE
    /\ entries' = <<>>
    /\ nextSequence' = 1
    /\ validEnd' = 0
    /\ runningCrc' = <<>>
    /\ failed' = FALSE
    /\ stage' = "idle"
    /\ stored' = <<>>
    /\ buffer' = <<>>
    /\ UNCHANGED <<disk, history>>

\* The damage open is written against: a tail cut off or extended, a record
\* altered, a count altered.
DamagedForms(file) ==
    {Unmarked(SubSeq(file.records, 1, n)) : n \in 0 .. Len(file.records)}
    \cup {[file EXCEPT !.records = [@ EXCEPT ![i] = [entry |-> e, sequence |-> n]]] :
            i \in 1 .. Len(file.records), e \in Entries, n \in 1 .. MaxRecords}
    \cup {[file EXCEPT !.count = n] : n \in 0 .. MaxRecords}

Damage ==
    /\ mode = "closed"
    /\ disk.present
    /\ disk = Image(disk.records)   \* bound: an intact file, damaged once
    /\ disk' \in DamagedForms(disk)
    /\ UNCHANGED <<mode, attached, memory, running, history>>

-----------------------------------------------------------------------------

JournalInit ==
    /\ disk = NoFile
    /\ mode = "closed"
    /\ attached = FALSE
    /\ entries = <<>>
    /\ nextSequence = 1
    /\ validEnd = 0
    /\ runningCrc = <<>>
    /\ failed = FALSE
    /\ stage = "idle"
    /\ stored = <<>>
    /\ buffer = <<>>
    /\ acked = <<>>
    /\ doubt = <<>>

JournalNext ==
    \/ Opens \/ OpenRefuses \/ OpenInMemory
    \/ \E entry \in Entries : AppendDetached(entry) \/ BeginAppend(entry)
    \/ WriteRecord \/ WriteMarker \/ Flush \/ AppendFails \/ Drain
    \/ Rewrite \/ Close
    \/ Crash \/ Damage

JournalSpec == JournalInit /\ [][JournalNext]_vars

-----------------------------------------------------------------------------
(* Properties.                                                             *)

JournalTypeOK ==
    /\ disk \in File
    /\ mode \in {"closed", "memory", "file"}
    /\ attached \in BOOLEAN
    /\ entries \in Seq(Record)
    /\ nextSequence \in Nat \ {0}
    /\ validEnd \in Nat
    /\ runningCrc \in Seq(Record)
    /\ failed \in BOOLEAN
    /\ stage \in {"idle", "record", "marker", "flush"}
    /\ stored \in Seq(Record) /\ Len(stored) <= 1
    /\ buffer \in Seq(File)
    /\ acked \in Seq(Record)
    /\ doubt \in Seq(Record) /\ Len(doubt) <= 1

\* Whatever dies, fails or is damaged, and however often the journal is opened
\* again, a file that open accepts holds every acknowledged record, unchanged
\* and in order, and at most the one record whose append was under way.
OpensToWhatWasAcknowledged ==
    disk.present /\ Accepts(disk) => disk.records \in {acked, acked \o doubt}

\* An acknowledged record never disappears from a journal that opens again:
\* what is acknowledged only grows, across crashes, failures and rewrites.
AcknowledgedForEver ==
    [][/\ Len(acked) <= Len(acked')
       /\ \A i \in 1 .. Len(acked) : acked'[i] = acked[i]]_vars

\* The journal is open, durable, and between two operations.
Healthy == mode = "file" /\ attached /\ ~ failed /\ stage = "idle"

WithinReadLimits(records) ==
    /\ Len(records) <= MaxFileRecords
    /\ \A i \in 1 .. Len(records) : Decodes(records[i])

\* A journal that works can be stopped at any time and opened again to the
\* same records, as long as they are within what open is willing to read:
\* offsets, checksum, count and numbering in memory agree with the file.
HealthyJournalReopens ==
    Healthy /\ WithinReadLimits(entries) => Accepts(disk) /\ disk.records = entries

=============================================================================

---------------------------- MODULE JournalProofs ----------------------------
(***************************************************************************)
(* Theorems about the journal: a file that opens holds what was            *)
(* acknowledged, nothing acknowledged is ever lost from it, and a working  *)
(* journal can be stopped and opened again.                                *)
(*                                                                         *)
(* The argument: the end marker on the file always covers what was         *)
(* acknowledged, alone or with the record in doubt (MarkerInv); it is      *)
(* written last, after the record it covers (BufferInv), from a checksum   *)
(* and an offset in memory that match the file (MemoryInv).                *)
(***************************************************************************)
EXTENDS Journal, TLAPS

-----------------------------------------------------------------------------
(* The inductive invariant.                                                *)

\* Records are numbered 1, 2, ... without a gap.
NumberedFromOne(records) == \A i \in 1 .. Len(records) : records[i].sequence = i

Extends(longer, shorter) ==
    /\ Len(shorter) <= Len(longer)
    /\ \A i \in 1 .. Len(shorter) : longer[i] = shorter[i]

InFlight == acked \o doubt

NumberingInv ==
    /\ NumberedFromOne(entries)
    /\ NumberedFromOne(InFlight)
    /\ nextSequence = Len(entries) + 1
    /\ Len(entries) <= MaxRecords

ModeInv ==
    /\ attached => mode = "file" /\ disk.present
    /\ mode = "closed" => stage = "idle"
    /\ ~ attached => buffer = <<>>
    /\ stage = "idle" => stored = <<>>
    /\ stage # "idle" => /\ attached /\ ~ failed
                         /\ stored = doubt /\ Len(doubt) = 1
                         /\ Len(entries) < MaxRecords

\* What the end marker covers is what was acknowledged, with the record in
\* doubt or without it.
MarkerInv ==
    /\ disk.marked => disk.covers \in {acked, InFlight}
    /\ ~ disk.present => acked = <<>> /\ ~ disk.marked

MemoryInv ==
    /\ mode = "file" => Extends(entries, acked)
    /\ attached /\ ~ failed => /\ entries = acked
                               /\ runningCrc = acked
                               /\ validEnd = Len(acked)

\* What the C library still has to write: the record, then the end marker.
BufferInv ==
    /\ buffer \in {<<>>, <<Unmarked(InFlight)>>, <<Image(InFlight)>>,
                   <<Unmarked(InFlight), Image(InFlight)>>}
    /\ stage # "idle" => SubSeq(disk.records, 1, validEnd) = acked
    /\ stage = "record" => buffer = <<>>
    /\ stage = "marker" => buffer \in {<<>>, <<Unmarked(InFlight)>>}
    /\ stage = "flush" /\ buffer = <<>> => disk = Image(InFlight)
    /\ stage = "flush" => buffer # <<Unmarked(InFlight)>>
    /\ Healthy => buffer = <<>> /\ doubt = <<>> /\ disk = Image(acked)

JournalInv ==
    /\ JournalTypeOK
    /\ NumberingInv /\ ModeInv /\ MarkerInv /\ MemoryInv /\ BufferInv

-----------------------------------------------------------------------------
(* Lists.                                                                  *)

\* A list cut at its own length is itself.
LEMMA CutWhole ==
    ASSUME NEW s \in Seq(Record)
    PROVE  SubSeq(s, 1, Len(s)) = s
  OBVIOUS

\* A list with another one behind it, cut at its own length, is itself.
LEMMA CutConcat ==
    ASSUME NEW s \in Seq(Record), NEW t \in Seq(Record)
    PROVE  SubSeq(s \o t, 1, Len(s)) = s
  OBVIOUS

\* Concatenation: length, first part, and nothing added by an empty list.
LEMMA ConcatFacts ==
    ASSUME NEW s \in Seq(Record), NEW t \in Seq(Record)
    PROVE  /\ s \o t \in Seq(Record)
           /\ Len(s \o t) = Len(s) + Len(t)
           /\ \A i \in 1 .. Len(s) : (s \o t)[i] = s[i]
           /\ t = <<>> => s \o t = s
  OBVIOUS

\* A list and one more record.
LEMMA ConcatOne ==
    ASSUME NEW s \in Seq(Record), NEW r \in Record
    PROVE  /\ s \o <<r>> = Append(s, r)
           /\ <<r>> \in Seq(Record) /\ Len(<<r>>) = 1 /\ <<r>>[1] = r
           /\ Append(s, r) \in Seq(Record)
           /\ Len(Append(s, r)) = Len(s) + 1
           /\ \A i \in 1 .. Len(s) : Append(s, r)[i] = s[i]
           /\ Append(s, r)[Len(s) + 1] = r
  OBVIOUS

\* A list of one record.
LEMMA OneLong ==
    ASSUME NEW s \in Seq(Record), Len(s) = 1
    PROVE  s = <<s[1]>> /\ s[1] \in Record
  OBVIOUS

\* The images of a file are files.
LEMMA ImageIsFile ==
    ASSUME NEW s \in Seq(Record)
    PROVE  /\ Image(s) \in File /\ Image(s).present /\ Image(s).marked
           /\ Image(s).covers = s /\ Image(s).records = s /\ Image(s).count = Len(s)
           /\ Unmarked(s) \in File /\ Unmarked(s).present /\ ~ Unmarked(s).marked
           /\ Unmarked(s).records = s
  BY DEF Image, Complete, Unmarked, File

\* What the numbering says of the record in doubt, and what it allows to add.
LEMMA NumberingFacts ==
    ASSUME NEW s \in Seq(Record), NumberedFromOne(s)
    PROVE  /\ StrictlyIncreasing(s)
           /\ LastSequence(s) = Len(s)
           /\ Numbered(s) = s
           /\ \A r \in Record : r.sequence = Len(s) + 1 => NumberedFromOne(Append(s, r))
<1>1. \A i \in 1 .. Len(s) : s[i] \in Record /\ s[i].sequence = i
  BY DEF NumberedFromOne
<1>2. StrictlyIncreasing(s)
  BY <1>1 DEF StrictlyIncreasing
<1>3. LastSequence(s) = Len(s)
  BY <1>1 DEF LastSequence
<1>4. \A i \in 1 .. Len(s) : [entry |-> s[i].entry, sequence |-> i] = s[i]
  BY <1>1 DEF Record
<1>5. Numbered(s) = s
  <2>1. Numbered(s) = [i \in 1 .. Len(s) |-> s[i]]
    BY <1>4 DEF Numbered
  <2>2. s = [i \in 1 .. Len(s) |-> s[i]]
    OBVIOUS
  <2>3. QED
    BY <2>1, <2>2
<1>6. ASSUME NEW r \in Record, r.sequence = Len(s) + 1
      PROVE  NumberedFromOne(Append(s, r))
  BY <1>1, <1>6, ConcatOne DEF NumberedFromOne
<1>7. QED
  BY <1>2, <1>3, <1>5, <1>6

\* Under the invariant what is in flight is a list of records.
LEMMA TypeFacts ==
    ASSUME JournalTypeOK
    PROVE  /\ InFlight \in Seq(Record)
           /\ doubt = <<>> => InFlight = acked
           /\ disk.records \in Seq(Record) /\ disk.covers \in Seq(Record)
           /\ disk.marked \in BOOLEAN /\ disk.present \in BOOLEAN
           /\ Image(InFlight) \in File /\ Unmarked(InFlight) \in File
           /\ Image(acked) \in File
<1>1. InFlight \in Seq(Record) /\ (doubt = <<>> => InFlight = acked)
  BY ConcatFacts DEF JournalTypeOK, InFlight
<1>2. /\ disk.records \in Seq(Record) /\ disk.covers \in Seq(Record)
      /\ disk.marked \in BOOLEAN /\ disk.present \in BOOLEAN
  BY DEF JournalTypeOK, File
<1>3. QED
  BY <1>1, <1>2, ImageIsFile DEF JournalTypeOK

-----------------------------------------------------------------------------
(* The invariant is inductive: one lemma per operation.                    *)

\* A coordinator that was never started has no file.
LEMMA InitInv ==
    ASSUME JournalInit
    PROVE  JournalInv
<1> USE DEF JournalInit
<1>1. JournalTypeOK
  <2>1. <<>> \in Seq(Record) /\ <<>> \in Seq(File) /\ Len(<<>>) = 0
    OBVIOUS
  <2>2. NoFile \in File
    BY <2>1 DEF NoFile, File
  <2>3. attached \in BOOLEAN /\ failed \in BOOLEAN
    OBVIOUS
  <2>4. QED
    BY <2>1, <2>2, <2>3 DEF JournalTypeOK
<1>2. InFlight = <<>>
  BY DEF InFlight
<1>3. NumberingInv
  BY <1>2, JournalLimitsAssumption DEF NumberingInv, NumberedFromOne
<1>4. ModeInv
  BY DEF ModeInv
<1>5. MarkerInv
  BY DEF MarkerInv, NoFile
<1>6. MemoryInv
  BY DEF MemoryInv
<1>7. BufferInv
  BY DEF BufferInv, Healthy
<1>8. QED
  BY <1>1, <1>3, <1>4, <1>5, <1>6, <1>7 DEF JournalInv

\* What open loads from a file that it accepts is what was acknowledged.
LEMMA OpensInv ==
    ASSUME JournalInv, Opens
    PROVE  JournalInv' /\ Extends(acked', acked)
<1> DEFINE file == Established
<1>1. Accepts(file) /\ mode = "closed"
  BY DEF Opens
<1>2. /\ disk' = file /\ mode' = "file" /\ attached' = TRUE /\ entries' = file.records
      /\ nextSequence' = LastSequence(file.records) + 1 /\ validEnd' = Len(file.records)
      /\ runningCrc' = file.covers /\ failed' = FALSE
      /\ acked' = file.records /\ doubt' = <<>>
      /\ stage' = stage /\ stored' = stored /\ buffer' = buffer
  BY DEF Opens, running
<1>3. /\ file \in File /\ file.present
      /\ file.records \in Seq(Record) /\ file.covers = file.records
      /\ file.records \in {acked, InFlight}
  <2>1. CASE disk.present
    <3>1. file = disk
      BY <2>1 DEF Established
    <3>2. disk.marked /\ disk.covers = disk.records
      BY <1>1, <3>1 DEF Accepts
    <3>3. disk.covers \in {acked, InFlight}
      BY <3>2 DEF JournalInv, MarkerInv
    <3>4. QED
      BY <2>1, <3>1, <3>2, <3>3, TypeFacts DEF JournalInv, JournalTypeOK
  <2>2. CASE ~ disk.present
    <3>1. file = Image(<<>>)
      BY <2>2 DEF Established
    <3>2. acked = <<>>
      BY <2>2 DEF JournalInv, MarkerInv
    <3>3. <<>> \in Seq(Record)
      OBVIOUS
    <3>4. QED
      BY <3>1, <3>2, <3>3, ImageIsFile
  <2>3. QED
    BY <2>1, <2>2
<1>4. /\ stage = "idle" /\ stored = <<>> /\ buffer = <<>>
  BY <1>1 DEF JournalInv, ModeInv, JournalTypeOK
<1>5. NumberedFromOne(file.records)
  <2>1. NumberedFromOne(InFlight) /\ acked \in Seq(Record) /\ doubt \in Seq(Record)
    BY DEF JournalInv, NumberingInv, JournalTypeOK
  <2>2. NumberedFromOne(acked)
    BY <2>1, ConcatFacts DEF NumberedFromOne, InFlight
  <2>3. QED
    BY <1>3, <2>1, <2>2
<1>6. InFlight' = acked'
  BY <1>2, <1>3, ConcatFacts DEF InFlight
<1>7. file = Image(file.records)
  <2>1. file.marked /\ file.count = Len(file.records)
    BY <1>1 DEF Accepts
  <2>2. QED
    BY <1>3, <2>1 DEF File, Image, Complete
<1>8. JournalTypeOK'
  <2>1. <<>> \in Seq(Record) /\ Len(<<>>) = 0 /\ Len(file.records) \in Nat
    BY <1>3
  <2>2. nextSequence' \in Nat \ {0}
    BY <1>2, <1>3, <1>5, <2>1, NumberingFacts
  <2>3. attached' \in BOOLEAN /\ failed' \in BOOLEAN
    BY <1>2
  <2>4. QED
    BY <1>2, <1>3, <2>1, <2>2, <2>3 DEF JournalInv, JournalTypeOK
<1>9. NumberingInv'
  <2>1. LastSequence(file.records) = Len(file.records)
    BY <1>3, <1>5, NumberingFacts
  <2>2. Len(file.records) <= MaxRecords
    BY <1>1 DEF Accepts
  <2>3. NumberedFromOne(entries)' /\ NumberedFromOne(InFlight)'
    BY <1>2, <1>5, <1>6 DEF NumberedFromOne
  <2>4. QED
    BY <1>2, <2>1, <2>2, <2>3 DEF NumberingInv
<1>10. ModeInv'
  BY <1>2, <1>3, <1>4 DEF ModeInv
<1>11. MarkerInv'
  BY <1>2, <1>3 DEF MarkerInv
<1>12. MemoryInv'
  <2>1. Extends(file.records, file.records)
    BY <1>3 DEF Extends
  <2>2. Extends(entries, acked)'
    BY <1>2, <2>1 DEF Extends
  <2>3. QED
    BY <1>2, <1>3, <2>2 DEF MemoryInv
<1>13. BufferInv'
  BY <1>2, <1>4, <1>7 DEF BufferInv, Healthy
<1>14. Extends(acked', acked)
  <2>1. Extends(acked, acked) /\ Extends(InFlight, acked)
    BY ConcatFacts DEF Extends, InFlight, JournalInv, JournalTypeOK
  <2>2. QED
    BY <1>2, <1>3, <2>1
<1>15. QED
  BY <1>8, <1>9, <1>10, <1>11, <1>12, <1>13, <1>14 DEF JournalInv

\* A refused open leaves the file as it is, or a new file that covers nothing.
LEMMA OpenRefusesInv ==
    ASSUME JournalInv, OpenRefuses
    PROVE  JournalInv'
<1>1. /\ mode = "closed" /\ mode' = mode /\ attached' = attached
      /\ entries' = <<>> /\ nextSequence' = 1 /\ runningCrc' = <<>> /\ failed' = FALSE
      /\ validEnd' = validEnd /\ stage' = stage /\ stored' = stored /\ buffer' = buffer
      /\ acked' = acked /\ doubt' = doubt
  BY DEF OpenRefuses, running, history
<1>2. /\ ~ attached /\ stage = "idle" /\ stored = <<>> /\ buffer = <<>>
  BY <1>1 DEF JournalInv, ModeInv, JournalTypeOK
<1>3. \/ disk' = disk
      \/ /\ ~ disk.present
         /\ disk' \in {NoFile, Unmarked(<<>>), Image(<<>>)}
  BY DEF OpenRefuses
<1>4. <<>> \in Seq(Record) /\ Len(<<>>) = 0
  OBVIOUS
<1>5. /\ NoFile \in File /\ ~ NoFile.present /\ ~ NoFile.marked
  BY <1>4 DEF NoFile, File
<1>6. InFlight' = InFlight
  BY <1>1 DEF InFlight
<1>7. JournalTypeOK'
  <2>1. disk' \in File
    BY <1>3, <1>4, <1>5, ImageIsFile DEF JournalInv, JournalTypeOK
  <2>2. attached' \in BOOLEAN /\ failed' \in BOOLEAN
    BY <1>1 DEF JournalInv, JournalTypeOK
  <2>3. QED
    BY <1>1, <1>4, <2>1, <2>2 DEF JournalInv, JournalTypeOK
<1>8. NumberingInv'
  BY <1>1, <1>4, <1>6, JournalLimitsAssumption DEF JournalInv, NumberingInv, NumberedFromOne
<1>9. ModeInv'
  BY <1>1, <1>2 DEF JournalInv, ModeInv
<1>10. MarkerInv'
  <2>1. CASE disk' = disk
    BY <1>1, <1>6, <2>1 DEF JournalInv, MarkerInv
  <2>2. CASE ~ disk.present /\ disk' \in {NoFile, Unmarked(<<>>), Image(<<>>)}
    <3>1. acked = <<>>
      BY <2>2 DEF JournalInv, MarkerInv
    <3>2. QED
      BY <1>1, <1>4, <1>5, <2>2, <3>1, ImageIsFile DEF MarkerInv
  <2>3. QED
    BY <1>3, <2>1, <2>2
<1>11. MemoryInv'
  BY <1>1, <1>2 DEF MemoryInv
<1>12. BufferInv'
  BY <1>1, <1>2 DEF BufferInv, Healthy
<1>13. QED
  BY <1>7, <1>8, <1>9, <1>10, <1>11, <1>12 DEF JournalInv

\* A journal in memory leaves the file alone.
LEMMA OpenInMemoryInv ==
    ASSUME JournalInv, OpenInMemory
    PROVE  JournalInv' /\ acked' = acked
<1>1. /\ mode = "closed" /\ mode' = "memory" /\ attached' = FALSE
      /\ entries' = <<>> /\ nextSequence' = 1 /\ validEnd' = 0
      /\ runningCrc' = <<>> /\ failed' = FALSE
      /\ disk' = disk /\ stage' = stage /\ stored' = stored /\ buffer' = buffer
      /\ acked' = acked /\ doubt' = doubt
  BY DEF OpenInMemory, running, history
<1>2. stage = "idle" /\ stored = <<>> /\ buffer = <<>>
  BY <1>1 DEF JournalInv, ModeInv, JournalTypeOK
<1>3. <<>> \in Seq(Record) /\ Len(<<>>) = 0
  OBVIOUS
<1>4. InFlight' = InFlight
  BY <1>1 DEF InFlight
<1>5. JournalTypeOK'
  <2>1. attached' \in BOOLEAN /\ failed' \in BOOLEAN
    BY <1>1
  <2>2. QED
    BY <1>1, <1>3, <2>1 DEF JournalInv, JournalTypeOK
<1>6. NumberingInv'
  BY <1>1, <1>3, <1>4, JournalLimitsAssumption DEF JournalInv, NumberingInv, NumberedFromOne
<1>7. ModeInv'
  BY <1>1, <1>2 DEF ModeInv
<1>8. MarkerInv'
  BY <1>1, <1>4 DEF JournalInv, MarkerInv
<1>9. MemoryInv'
  BY <1>1 DEF MemoryInv
<1>10. BufferInv'
  BY <1>1, <1>2 DEF BufferInv, Healthy
<1>11. QED
  BY <1>1, <1>5, <1>6, <1>7, <1>8, <1>9, <1>10 DEF JournalInv

\* An append without a handle changes the memory only.
LEMMA AppendDetachedInv ==
    ASSUME JournalInv, NEW entry \in Entries, AppendDetached(entry)
    PROVE  JournalInv' /\ acked' = acked
<1> DEFINE r == Stored(entry)
<1>1. /\ stage = "idle" /\ ~ failed /\ Len(entries) < MaxRecords /\ ~ attached
      /\ validEnd' = validEnd + 1 /\ runningCrc' = Append(runningCrc, r)
      /\ nextSequence' = nextSequence + 1 /\ entries' = Append(entries, r)
      /\ disk' = disk /\ mode' = mode /\ attached' = attached /\ failed' = failed
      /\ stage' = stage /\ stored' = stored /\ buffer' = buffer
      /\ acked' = acked /\ doubt' = doubt
  BY DEF AppendDetached, CanAppend, Remember, running, history
<1>2. r \in Record /\ r.sequence = Len(entries) + 1
  BY DEF Stored, Record, JournalInv, JournalTypeOK, NumberingInv
<1>3. /\ entries \in Seq(Record) /\ runningCrc \in Seq(Record) /\ validEnd \in Nat
      /\ nextSequence = Len(entries) + 1 /\ acked \in Seq(Record)
  BY DEF JournalInv, JournalTypeOK, NumberingInv
<1>4. InFlight' = InFlight
  BY <1>1 DEF InFlight
<1>5. /\ Append(entries, r) \in Seq(Record) /\ Append(runningCrc, r) \in Seq(Record)
      /\ Len(Append(entries, r)) = Len(entries) + 1
      /\ \A i \in 1 .. Len(entries) : Append(entries, r)[i] = entries[i]
  BY <1>2, <1>3, ConcatOne
<1> HIDE DEF r
<1>6. JournalTypeOK'
  <2>1. attached' \in BOOLEAN /\ failed' \in BOOLEAN
    BY <1>1 DEF JournalInv, JournalTypeOK
  <2>2. validEnd' \in Nat /\ nextSequence' \in Nat \ {0}
    BY <1>1, <1>3
  <2>3. QED
    BY <1>1, <1>5, <2>1, <2>2 DEF JournalInv, JournalTypeOK
<1>7. NumberingInv'
  <2>1. NumberedFromOne(Append(entries, r))
    BY <1>2, <1>3, NumberingFacts DEF JournalInv, NumberingInv
  <2>2. NumberedFromOne(entries)' /\ NumberedFromOne(InFlight)'
    BY <1>1, <1>4, <2>1 DEF NumberedFromOne, JournalInv, NumberingInv
  <2>3. Len(Append(entries, r)) <= MaxRecords
    BY <1>1, <1>3, <1>5, JournalLimitsAssumption
  <2>4. QED
    BY <1>1, <1>3, <1>5, <2>2, <2>3 DEF NumberingInv
<1>8. ModeInv'
  BY <1>1 DEF JournalInv, ModeInv
<1>9. MarkerInv'
  BY <1>1, <1>4 DEF JournalInv, MarkerInv
<1>10. MemoryInv'
  <2>1. ASSUME mode = "file" PROVE Extends(Append(entries, r), acked)
    <3>1. Extends(entries, acked)
      BY <2>1 DEF JournalInv, MemoryInv
    <3>2. QED
      BY <1>3, <1>5, <3>1 DEF Extends
  <2>2. mode' = "file" => Extends(entries, acked)'
    BY <1>1, <2>1 DEF Extends
  <2>3. QED
    BY <1>1, <2>2 DEF MemoryInv
<1>11. BufferInv'
  BY <1>1, <1>4 DEF JournalInv, BufferInv, Healthy
<1>12. QED
  BY <1>1, <1>6, <1>7, <1>8, <1>9, <1>10, <1>11 DEF JournalInv

\* The record of a new append is the next in number.
LEMMA BeginAppendInv ==
    ASSUME JournalInv, NEW entry \in Entries, BeginAppend(entry)
    PROVE  JournalInv' /\ acked' = acked
<1> DEFINE r == Stored(entry)
<1>1. /\ stage = "idle" /\ ~ failed /\ Len(entries) < MaxRecords /\ attached
      /\ stage' = "record" /\ stored' = <<r>> /\ doubt' = <<r>>
      /\ disk' = disk /\ mode' = mode /\ attached' = attached
      /\ entries' = entries /\ nextSequence' = nextSequence /\ validEnd' = validEnd
      /\ runningCrc' = runningCrc /\ failed' = failed /\ buffer' = buffer /\ acked' = acked
  BY DEF BeginAppend, CanAppend, memory
<1>2. r \in Record /\ r.sequence = Len(entries) + 1
  BY DEF Stored, Record, JournalInv, JournalTypeOK, NumberingInv
<1>3. /\ mode = "file" /\ disk.present /\ buffer = <<>> /\ doubt = <<>> /\ disk = Image(acked)
      /\ entries = acked /\ runningCrc = acked /\ validEnd = Len(acked) /\ acked \in Seq(Record)
  BY <1>1 DEF JournalInv, ModeInv, BufferInv, MemoryInv, Healthy, JournalTypeOK
<1>4. InFlight' = Append(acked, r) /\ InFlight = acked
  BY <1>1, <1>2, <1>3, ConcatOne, ConcatFacts DEF InFlight, JournalInv, JournalTypeOK
<1>5. <<r>> \in Seq(Record) /\ Len(<<r>>) = 1
  BY <1>2, <1>3, ConcatOne
<1> HIDE DEF r
<1>6. JournalTypeOK'
  <2>1. attached' \in BOOLEAN /\ failed' \in BOOLEAN
    BY <1>1 DEF JournalInv, JournalTypeOK
  <2>2. Len(<<r>>) <= 1
    BY <1>5
  <2>3. QED
    BY <1>1, <1>5, <2>1, <2>2 DEF JournalInv, JournalTypeOK
<1>7. NumberingInv'
  <2>1. NumberedFromOne(Append(acked, r))
    BY <1>2, <1>3, NumberingFacts DEF JournalInv, NumberingInv
  <2>2. NumberedFromOne(InFlight)' /\ NumberedFromOne(entries)'
    BY <1>1, <1>4, <2>1 DEF NumberedFromOne, JournalInv, NumberingInv
  <2>3. QED
    BY <1>1, <2>2 DEF JournalInv, NumberingInv
<1>8. ModeInv'
  BY <1>1, <1>3, <1>5 DEF ModeInv
<1>9. MarkerInv'
  <2>1. disk.covers = acked
    BY <1>3, ImageIsFile
  <2>2. QED
    BY <1>1, <1>3, <2>1 DEF MarkerInv
<1>10. MemoryInv'
  BY <1>1 DEF JournalInv, MemoryInv, Extends
<1>11. BufferInv'
  <2>1. SubSeq(disk.records, 1, validEnd) = acked
    BY <1>3, ImageIsFile, CutWhole
  <2>2. QED
    BY <1>1, <1>3, <2>1 DEF BufferInv, Healthy
<1>12. QED
  BY <1>1, <1>6, <1>7, <1>8, <1>9, <1>10, <1>11 DEF JournalInv

\* While an append runs, memory and the record agree with what was acknowledged.
LEMMA RunningFacts ==
    ASSUME JournalInv, stage # "idle"
    PROVE  /\ attached /\ ~ failed /\ mode = "file" /\ disk.present
           /\ entries = acked /\ runningCrc = acked /\ validEnd = Len(acked)
           /\ nextSequence = Len(acked) + 1 /\ Len(acked) < MaxRecords
           /\ acked \in Seq(Record) /\ stored[1] \in Record
           /\ stored = doubt /\ stored = <<stored[1]>>
           /\ InFlight = acked \o stored /\ InFlight = Append(acked, stored[1])
           /\ InFlight \in Seq(Record) /\ Len(InFlight) = Len(acked) + 1
           /\ SubSeq(disk.records, 1, validEnd) = acked
           /\ SubSeq(InFlight, 1, Len(acked)) = acked
<1>1. /\ attached /\ ~ failed /\ stored = doubt /\ Len(doubt) = 1 /\ Len(entries) < MaxRecords
      /\ mode = "file" /\ disk.present
  BY DEF JournalInv, ModeInv
<1>2. /\ entries = acked /\ runningCrc = acked /\ validEnd = Len(acked)
      /\ nextSequence = Len(acked) + 1
  BY <1>1 DEF JournalInv, MemoryInv, NumberingInv
<1>3. stored \in Seq(Record) /\ acked \in Seq(Record)
  BY DEF JournalInv, JournalTypeOK
<1>4. stored = <<stored[1]>> /\ stored[1] \in Record
  BY <1>1, <1>3, OneLong
<1>5. InFlight = acked \o stored
  BY <1>1 DEF InFlight
<1>6. InFlight = Append(acked, stored[1])
  <2>1. PICK r \in Record : stored = <<r>> /\ stored[1] = r
    BY <1>4
  <2>2. acked \o <<r>> = Append(acked, r)
    BY <1>3, ConcatOne
  <2>3. QED
    BY <1>5, <2>1, <2>2
<1>7. SubSeq(disk.records, 1, validEnd) = acked
  BY DEF JournalInv, BufferInv
<1>8. InFlight \in Seq(Record) /\ Len(InFlight) = Len(acked) + 1
  BY <1>3, <1>4, <1>6, ConcatOne
<1>9. SubSeq(InFlight, 1, Len(acked)) = acked
  BY <1>3, <1>5, CutConcat
<1>10. QED
  BY <1>1, <1>2, <1>3, <1>4, <1>5, <1>6, <1>7, <1>8, <1>9

\* Buffers of one and two images.
LEMMA ImagesBuffered ==
    ASSUME NEW f \in File, NEW g \in File
    PROVE  /\ Append(<<>>, f) = <<f>> /\ Append(<<f>>, g) = <<f, g>>
           /\ <<>> \in Seq(File) /\ <<f>> \in Seq(File) /\ <<f, g>> \in Seq(File)
           /\ Head(<<f>>) = f /\ Tail(<<f>>) = <<>>
           /\ Head(<<f, g>>) = f /\ Tail(<<f, g>>) = <<g>>
           /\ <<f>> # <<>> /\ <<f, g>> # <<>>
           /\ <<f, g>> # <<f>> /\ <<f, g>> # <<g>>
           /\ <<f>> = <<g>> => f = g
<1>1. Append(<<f>>, g) = <<f, g>>
  <2> DEFINE s == Append(<<f>>, g)
  <2>1. s \in Seq(File) /\ Len(s) = 2 /\ s[1] = f /\ s[2] = g
    OBVIOUS
  <2>2. \A t \in Seq(File) : Len(t) = 2 => t = <<t[1], t[2]>>
    OBVIOUS
  <2>3. s = <<s[1], s[2]>>
    BY <2>1, <2>2
  <2>4. QED
    BY <2>1, <2>3
<1>2. Append(<<>>, f) = <<f>>
  OBVIOUS
<1>3. <<>> \in Seq(File) /\ <<f>> \in Seq(File) /\ <<f, g>> \in Seq(File)
  OBVIOUS
<1>4. Head(<<f>>) = f /\ Tail(<<f>>) = <<>>
  OBVIOUS
<1>5. Head(<<f, g>>) = f /\ Tail(<<f, g>>) = <<g>>
  OBVIOUS
<1>6. <<f>> # <<>> /\ <<f, g>> # <<>> /\ <<f, g>> # <<f>> /\ <<f, g>> # <<g>>
  OBVIOUS
<1>7. <<f>> = <<g>> => f = g
  OBVIOUS
<1>8. QED
  BY <1>1, <1>2, <1>3, <1>4, <1>5, <1>6, <1>7

\* A write into the buffer leaves everything but the buffer and the stage.
LEMMA WriteRecordInv ==
    ASSUME JournalInv, WriteRecord
    PROVE  JournalInv' /\ acked' = acked
<1>1. /\ stage = "record" /\ stage' = "marker"
      /\ buffer' = Append(buffer, Unmarked(SubSeq(disk.records, 1, validEnd) \o stored))
      /\ disk' = disk /\ mode' = mode /\ attached' = attached
      /\ entries' = entries /\ nextSequence' = nextSequence /\ validEnd' = validEnd
      /\ runningCrc' = runningCrc /\ failed' = failed /\ stored' = stored
      /\ acked' = acked /\ doubt' = doubt
  BY DEF WriteRecord, memory, history
<1>2. buffer = <<>>
  BY <1>1 DEF JournalInv, BufferInv
<1>3. /\ attached /\ ~ failed /\ mode = "file" /\ InFlight = acked \o stored
      /\ SubSeq(disk.records, 1, validEnd) = acked
  BY <1>1, RunningFacts
<1>4. InFlight' = InFlight
  BY <1>1 DEF InFlight
<1>5. Unmarked(InFlight) \in File /\ Image(InFlight) \in File
  BY TypeFacts DEF JournalInv
<1>6. buffer' = <<Unmarked(InFlight)>> /\ buffer' \in Seq(File)
  BY <1>1, <1>2, <1>3, <1>5, ImagesBuffered
<1>7. JournalTypeOK'
  <2>1. attached' \in BOOLEAN /\ failed' \in BOOLEAN
    BY <1>1 DEF JournalInv, JournalTypeOK
  <2>2. QED
    BY <1>1, <1>6, <2>1 DEF JournalInv, JournalTypeOK
<1>8. NumberingInv'
  BY <1>1, <1>4 DEF JournalInv, NumberingInv, NumberedFromOne
<1>9. ModeInv'
  BY <1>1, <1>3 DEF JournalInv, ModeInv
<1>10. MarkerInv'
  BY <1>1, <1>4 DEF JournalInv, MarkerInv
<1>11. MemoryInv'
  BY <1>1 DEF JournalInv, MemoryInv, Extends
<1>12. BufferInv'
  <2>1. Unmarked(InFlight)' = Unmarked(InFlight) /\ Image(InFlight)' = Image(InFlight)
    BY <1>4 DEF Unmarked, Image, Complete
  <2>2. QED
    BY <1>1, <1>3, <1>6, <2>1 DEF BufferInv, Healthy
<1>13. QED
  BY <1>1, <1>7, <1>8, <1>9, <1>10, <1>11, <1>12 DEF JournalInv

\* The end marker that is written counts and covers all that is in flight.
LEMMA WriteMarkerInv ==
    ASSUME JournalInv, WriteMarker
    PROVE  JournalInv' /\ acked' = acked
<1>1. /\ stage = "marker" /\ stage' = "flush"
      /\ buffer' = Append(buffer, Complete(SubSeq(disk.records, 1, validEnd) \o stored,
                                           Len(entries) + 1, runningCrc \o stored))
      /\ disk' = disk /\ mode' = mode /\ attached' = attached
      /\ entries' = entries /\ nextSequence' = nextSequence /\ validEnd' = validEnd
      /\ runningCrc' = runningCrc /\ failed' = failed /\ stored' = stored
      /\ acked' = acked /\ doubt' = doubt
  BY DEF WriteMarker, memory, history
<1>2. buffer \in {<<>>, <<Unmarked(InFlight)>>}
  BY <1>1 DEF JournalInv, BufferInv
<1>3. /\ attached /\ ~ failed /\ mode = "file" /\ InFlight = acked \o stored
      /\ Len(InFlight) = Len(acked) + 1 /\ entries = acked /\ runningCrc = acked
      /\ SubSeq(disk.records, 1, validEnd) = acked /\ InFlight \in Seq(Record)
  BY <1>1, RunningFacts
<1>4. InFlight' = InFlight
  BY <1>1 DEF InFlight
<1>5. Unmarked(InFlight) \in File /\ Image(InFlight) \in File /\ Image(InFlight).marked
      /\ ~ Unmarked(InFlight).marked
  BY <1>3, ImageIsFile
<1>6. buffer' = Append(buffer, Image(InFlight))
  BY <1>1, <1>3 DEF Image
<1>7. /\ buffer' \in {<<Image(InFlight)>>, <<Unmarked(InFlight), Image(InFlight)>>}
      /\ buffer' \in Seq(File) /\ buffer' # <<>> /\ buffer' # <<Unmarked(InFlight)>>
  <2>1. Image(InFlight) # Unmarked(InFlight)
    BY <1>5
  <2>2. CASE buffer = <<>>
    <3>1. buffer' = <<Image(InFlight)>>
      BY <1>5, <1>6, <2>2, ImagesBuffered
    <3>2. <<Image(InFlight)>> # <<Unmarked(InFlight)>>
      BY <1>5, <2>1, ImagesBuffered
    <3>3. QED
      BY <1>5, <3>1, <3>2, ImagesBuffered
  <2>3. CASE buffer = <<Unmarked(InFlight)>>
    <3>1. buffer' = <<Unmarked(InFlight), Image(InFlight)>>
      BY <1>5, <1>6, <2>3, ImagesBuffered
    <3>2. <<Unmarked(InFlight), Image(InFlight)>> # <<Unmarked(InFlight)>>
      BY <1>5, ImagesBuffered
    <3>3. QED
      BY <1>5, <3>1, <3>2, ImagesBuffered
  <2>4. QED
    BY <1>2, <2>2, <2>3
<1>8. JournalTypeOK'
  <2>1. attached' \in BOOLEAN /\ failed' \in BOOLEAN
    BY <1>1 DEF JournalInv, JournalTypeOK
  <2>2. QED
    BY <1>1, <1>7, <2>1 DEF JournalInv, JournalTypeOK
<1>9. NumberingInv'
  BY <1>1, <1>4 DEF JournalInv, NumberingInv, NumberedFromOne
<1>10. ModeInv'
  BY <1>1, <1>3 DEF JournalInv, ModeInv
<1>11. MarkerInv'
  BY <1>1, <1>4 DEF JournalInv, MarkerInv
<1>12. MemoryInv'
  BY <1>1 DEF JournalInv, MemoryInv, Extends
<1>13. BufferInv'
  <2>1. Unmarked(InFlight)' = Unmarked(InFlight) /\ Image(InFlight)' = Image(InFlight)
    BY <1>4 DEF Unmarked, Image, Complete
  <2>2. QED
    BY <1>1, <1>3, <1>7, <2>1 DEF BufferInv, Healthy
<1>14. QED
  BY <1>1, <1>8, <1>9, <1>10, <1>11, <1>12, <1>13 DEF JournalInv

\* When the buffer has been written the file holds all that is in flight, and
\* that is what is acknowledged from now on.
LEMMA FlushInv ==
    ASSUME JournalInv, Flush
    PROVE  JournalInv' /\ Extends(acked', acked)
<1>1. /\ stage = "flush" /\ buffer = <<>> /\ stage' = "idle" /\ stored' = <<>>
      /\ validEnd' = validEnd + 1 /\ runningCrc' = Append(runningCrc, stored[1])
      /\ nextSequence' = nextSequence + 1 /\ entries' = Append(entries, stored[1])
      /\ acked' = acked \o stored /\ doubt' = <<>>
      /\ disk' = disk /\ mode' = mode /\ attached' = attached /\ failed' = failed
      /\ buffer' = buffer
  BY DEF Flush, Remember
<1>2. /\ attached /\ ~ failed /\ mode = "file" /\ disk.present
      /\ entries = acked /\ runningCrc = acked /\ validEnd = Len(acked)
      /\ nextSequence = Len(acked) + 1 /\ Len(acked) < MaxRecords /\ acked \in Seq(Record)
      /\ InFlight = acked \o stored /\ InFlight = Append(acked, stored[1])
      /\ InFlight \in Seq(Record) /\ Len(InFlight) = Len(acked) + 1
      /\ stored = doubt
  BY <1>1, RunningFacts
<1>3. disk = Image(InFlight)
  BY <1>1 DEF JournalInv, BufferInv
<1>4. <<>> \in Seq(Record) /\ Len(<<>>) = 0
  OBVIOUS
<1>5. entries' = InFlight /\ acked' = InFlight /\ runningCrc' = InFlight
  BY <1>1, <1>2
<1>6. InFlight' = InFlight
  BY <1>1, <1>2, <1>5, ConcatFacts, <1>4 DEF InFlight
<1>7. JournalTypeOK'
  <2>1. attached' \in BOOLEAN /\ failed' \in BOOLEAN
    BY <1>1 DEF JournalInv, JournalTypeOK
  <2>2. validEnd' \in Nat /\ nextSequence' \in Nat \ {0}
    BY <1>1, <1>2
  <2>3. QED
    BY <1>1, <1>2, <1>4, <1>5, <2>1, <2>2 DEF JournalInv, JournalTypeOK
<1>8. NumberingInv'
  <2>1. NumberedFromOne(InFlight)
    BY DEF JournalInv, NumberingInv
  <2>2. NumberedFromOne(entries)' /\ NumberedFromOne(InFlight)'
    BY <1>5, <1>6, <2>1 DEF NumberedFromOne
  <2>3. Len(InFlight) <= MaxRecords /\ nextSequence' = Len(InFlight) + 1
    BY <1>1, <1>2, JournalLimitsAssumption
  <2>4. QED
    BY <1>5, <2>2, <2>3 DEF NumberingInv
<1>9. ModeInv'
  BY <1>1, <1>2 DEF ModeInv
<1>10. MarkerInv'
  <2>1. disk.covers = InFlight
    BY <1>2, <1>3, ImageIsFile
  <2>2. QED
    BY <1>1, <1>2, <1>5, <2>1 DEF MarkerInv
<1>11. MemoryInv'
  <2>1. Extends(InFlight, InFlight)
    BY <1>2 DEF Extends
  <2>2. Extends(entries, acked)'
    BY <1>5, <2>1 DEF Extends
  <2>3. validEnd' = Len(acked')
    BY <1>1, <1>2, <1>5
  <2>4. QED
    BY <1>5, <2>2, <2>3 DEF MemoryInv
<1>12. BufferInv'
  <2>1. disk' = Image(acked')
    BY <1>1, <1>3, <1>5
  <2>2. Image(acked)' = Image(acked')
    BY DEF Image, Complete
  <2>3. QED
    BY <1>1, <2>1, <2>2 DEF BufferInv, Healthy
<1>13. Extends(acked', acked)
  BY <1>2, <1>5, ConcatFacts DEF Extends, JournalInv, JournalTypeOK
<1>14. QED
  BY <1>7, <1>8, <1>9, <1>10, <1>11, <1>12, <1>13 DEF JournalInv

\* After a failure nothing may be appended, whatever reaches the file.
LEMMA AppendFailsInv ==
    ASSUME JournalInv, AppendFails
    PROVE  JournalInv' /\ acked' = acked
<1>1. /\ stage # "idle" /\ failed' = TRUE /\ stage' = "idle" /\ stored' = <<>>
      /\ disk' = disk /\ mode' = mode /\ attached' = attached
      /\ entries' = entries /\ nextSequence' = nextSequence /\ validEnd' = validEnd
      /\ runningCrc' = runningCrc /\ buffer' = buffer /\ acked' = acked /\ doubt' = doubt
  BY DEF AppendFails, history
<1>2. attached /\ mode = "file" /\ disk.present
  BY <1>1, RunningFacts
<1>3. <<>> \in Seq(Record) /\ Len(<<>>) = 0
  OBVIOUS
<1>4. InFlight' = InFlight
  BY <1>1 DEF InFlight
<1>5. JournalTypeOK'
  <2>1. attached' \in BOOLEAN /\ failed' \in BOOLEAN
    BY <1>1 DEF JournalInv, JournalTypeOK
  <2>2. QED
    BY <1>1, <1>3, <2>1 DEF JournalInv, JournalTypeOK
<1>6. NumberingInv'
  BY <1>1, <1>4 DEF JournalInv, NumberingInv, NumberedFromOne
<1>7. ModeInv'
  BY <1>1, <1>2 DEF ModeInv
<1>8. MarkerInv'
  BY <1>1, <1>4 DEF JournalInv, MarkerInv
<1>9. MemoryInv'
  BY <1>1 DEF JournalInv, MemoryInv, Extends
<1>10. BufferInv'
  <2>1. Unmarked(InFlight)' = Unmarked(InFlight) /\ Image(InFlight)' = Image(InFlight)
    BY <1>4 DEF Unmarked, Image, Complete
  <2>2. QED
    BY <1>1, <2>1 DEF JournalInv, BufferInv, Healthy
<1>11. QED
  BY <1>1, <1>5, <1>6, <1>7, <1>8, <1>9, <1>10 DEF JournalInv

\* Whatever part of the buffer reaches the file, the end marker on it covers
\* what was acknowledged and what is in flight, or is gone.
LEMMA DrainInv ==
    ASSUME JournalInv, Drain
    PROVE  JournalInv' /\ acked' = acked
<1> DEFINE U == Unmarked(InFlight)
           M == Image(InFlight)
<1>1. /\ buffer # <<>> /\ mode' = mode /\ attached' = attached
      /\ entries' = entries /\ nextSequence' = nextSequence /\ validEnd' = validEnd
      /\ runningCrc' = runningCrc /\ failed' = failed /\ stage' = stage /\ stored' = stored
      /\ acked' = acked /\ doubt' = doubt
  BY DEF Drain, memory, history
<1>2. attached /\ mode = "file" /\ disk.present /\ stage # "record" /\ ~ Healthy
  BY <1>1 DEF JournalInv, ModeInv, BufferInv
<1>3. InFlight' = InFlight
  BY <1>1 DEF InFlight
<1>4. U' = U /\ M' = M
  BY <1>3 DEF Unmarked, Image, Complete
<1>5. /\ U \in File /\ U.present /\ ~ U.marked /\ U.records = InFlight
      /\ M \in File /\ M.present /\ M.records = InFlight /\ M.covers = InFlight
  BY TypeFacts, ImageIsFile DEF JournalInv
<1>6. buffer \in {<<U>>, <<M>>, <<U, M>>} /\ (stage = "flush" => buffer # <<U>>)
      /\ (stage = "marker" => buffer = <<U>>)
  BY <1>1 DEF JournalInv, BufferInv
<1>7. stage # "idle" => SubSeq(InFlight, 1, validEnd) = acked
                        /\ SubSeq(disk.records, 1, validEnd) = acked
  BY RunningFacts
<1> HIDE DEF U, M
<1>8. /\ disk' \in File /\ disk'.present
      /\ disk'.marked => disk'.covers = InFlight
      /\ buffer' \in {<<>>, <<U>>, <<M>>, <<U, M>>}
      /\ buffer' = <<>> => (disk' = M \/ buffer = <<U>>)
      /\ stage = "marker" => buffer' \in {<<>>, <<U>>}
      /\ stage = "flush" => buffer' # <<U>>
      /\ stage # "idle" => SubSeq(disk'.records, 1, validEnd) = acked
  <2>1. CASE disk' = Head(buffer) /\ buffer' = Tail(buffer)
    <3>1. CASE buffer = <<U>>
      <4>1. disk' = U /\ buffer' = <<>>
        BY <1>5, <2>1, <3>1, ImagesBuffered
      <4>2. <<>> # <<U>>
        BY <1>5, ImagesBuffered
      <4>3. QED
        BY <1>5, <1>7, <3>1, <4>1, <4>2
    <3>2. CASE buffer = <<M>>
      <4>1. disk' = M /\ buffer' = <<>>
        BY <1>5, <2>1, <3>2, ImagesBuffered
      <4>2. <<>> # <<U>>
        BY <1>5, ImagesBuffered
      <4>3. QED
        BY <1>5, <1>7, <3>2, <4>1, <4>2
    <3>3. CASE buffer = <<U, M>>
      <4>1. disk' = U /\ buffer' = <<M>>
        BY <1>5, <2>1, <3>3, ImagesBuffered
      <4>2. <<M>> # <<>> /\ <<U, M>> # <<U>>
        BY <1>5, ImagesBuffered
      <4>3. ASSUME <<M>> = <<U>> PROVE FALSE
        <5>1. M = U
          BY <1>5, <4>3, ImagesBuffered
        <5>2. M.marked
          BY DEF M, Image, Complete
        <5>3. QED
          BY <1>5, <5>1, <5>2
      <4>4. QED
        BY <1>5, <1>6, <1>7, <3>3, <4>1, <4>2, <4>3
    <3>4. QED
      BY <1>6, <3>1, <3>2, <3>3
  <2>2. CASE disk' = Unmarked(disk.records) /\ buffer' = buffer
    <3>1. /\ disk' \in File /\ disk'.present /\ ~ disk'.marked /\ disk'.records = disk.records
      BY <2>2, TypeFacts, ImageIsFile DEF JournalInv
    <3>2. QED
      BY <1>1, <1>6, <1>7, <2>2, <3>1
  <2>3. QED
    BY <2>1, <2>2 DEF Drain
<1>9. JournalTypeOK'
  <2>1. attached' \in BOOLEAN /\ failed' \in BOOLEAN
    BY <1>1 DEF JournalInv, JournalTypeOK
  <2>2. buffer' \in Seq(File)
    BY <1>5, <1>8, ImagesBuffered
  <2>3. QED
    BY <1>1, <1>8, <2>1, <2>2 DEF JournalInv, JournalTypeOK
<1>10. NumberingInv'
  BY <1>1, <1>3 DEF JournalInv, NumberingInv, NumberedFromOne
<1>11. ModeInv'
  BY <1>1, <1>2, <1>8 DEF JournalInv, ModeInv
<1>12. MarkerInv'
  BY <1>1, <1>3, <1>8 DEF MarkerInv
<1>13. MemoryInv'
  BY <1>1 DEF JournalInv, MemoryInv, Extends
<1>14. BufferInv'
  <2>1. ~ Healthy'
    BY <1>1, <1>2 DEF Healthy
  <2>2. Unmarked(InFlight)' = U /\ Image(InFlight)' = M
    BY <1>4 DEF U, M
  <2>3. stage = "flush" /\ buffer' = <<>> => disk' = M
    BY <1>6, <1>8
  <2>4. QED
    BY <1>1, <1>2, <1>8, <2>1, <2>2, <2>3 DEF BufferInv
<1>15. QED
  BY <1>1, <1>9, <1>10, <1>11, <1>12, <1>13, <1>14 DEF JournalInv

\* A failed replacement loses the handle and keeps the file.
LEMMA RewriteKeepsOldFileInv ==
    ASSUME JournalInv, RewriteKeepsOldFile
    PROVE  JournalInv' /\ acked' = acked
<1>1. /\ mode = "file" /\ ~ failed /\ stage = "idle" /\ attached' = FALSE
      /\ disk' = disk /\ mode' = mode /\ entries' = entries /\ nextSequence' = nextSequence
      /\ validEnd' = validEnd /\ runningCrc' = runningCrc /\ failed' = failed
      /\ stage' = stage /\ stored' = stored /\ buffer' = buffer
      /\ acked' = acked /\ doubt' = doubt
  BY DEF RewriteKeepsOldFile, CanRewrite, memory, running, history
<1>2. buffer = <<>>
  BY <1>1 DEF JournalInv, ModeInv, BufferInv, Healthy
<1>3. InFlight' = InFlight
  BY <1>1 DEF InFlight
<1>4. JournalTypeOK'
  <2>1. attached' \in BOOLEAN /\ failed' \in BOOLEAN
    BY <1>1 DEF JournalInv, JournalTypeOK
  <2>2. QED
    BY <1>1, <2>1 DEF JournalInv, JournalTypeOK
<1>5. NumberingInv'
  BY <1>1, <1>3 DEF JournalInv, NumberingInv, NumberedFromOne
<1>6. ModeInv'
  BY <1>1, <1>2 DEF JournalInv, ModeInv
<1>7. MarkerInv'
  BY <1>1, <1>3 DEF JournalInv, MarkerInv
<1>8. MemoryInv'
  BY <1>1 DEF JournalInv, MemoryInv, Extends
<1>9. BufferInv'
  BY <1>1, <1>2 DEF BufferInv, Healthy
<1>10. QED
  BY <1>1, <1>4, <1>5, <1>6, <1>7, <1>8, <1>9 DEF JournalInv

\* The records in memory extend the acknowledged ones, and are numbered already.
LEMMA RewriteReplacesInv ==
    ASSUME JournalInv, RewriteReplaces
    PROVE  JournalInv' /\ Extends(acked', acked)
<1>1. /\ mode = "file" /\ ~ failed /\ stage = "idle"
      /\ disk' = Image(Numbered(entries)) /\ acked' = Numbered(entries) /\ doubt' = <<>>
      /\ mode' = mode /\ entries' = entries
      /\ stage' = stage /\ stored' = stored /\ buffer' = buffer
  BY DEF RewriteReplaces, CanRewrite, running
<1>2. \/ /\ attached' = TRUE /\ validEnd' = Len(entries)
         /\ runningCrc' = Numbered(entries) /\ nextSequence' = Len(entries) + 1
         /\ failed' = failed
      \/ /\ attached' = FALSE /\ failed' = TRUE /\ validEnd' = validEnd
         /\ runningCrc' = runningCrc /\ nextSequence' = nextSequence
  BY DEF RewriteReplaces
<1>3. /\ entries \in Seq(Record) /\ NumberedFromOne(entries)
      /\ nextSequence = Len(entries) + 1 /\ Len(entries) <= MaxRecords
  BY DEF JournalInv, JournalTypeOK, NumberingInv
<1>4. Numbered(entries) = entries
  BY <1>3, NumberingFacts
<1>5. buffer = <<>> /\ stored = <<>>
  BY <1>1 DEF JournalInv, ModeInv, BufferInv, Healthy
<1>6. Extends(entries, acked) /\ Extends(entries, entries)
  BY <1>1, <1>3 DEF JournalInv, MemoryInv, Extends
<1>7. <<>> \in Seq(Record) /\ Len(<<>>) = 0
  OBVIOUS
<1>8. InFlight' = entries /\ acked' = entries /\ disk' = Image(entries)
  BY <1>1, <1>3, <1>4, <1>7, ConcatFacts DEF InFlight
<1>9. /\ Image(entries) \in File /\ Image(entries).present /\ Image(entries).covers = entries
  BY <1>3, ImageIsFile
<1>10. JournalTypeOK'
  <2>1. attached' \in BOOLEAN /\ failed' \in BOOLEAN
    BY <1>2 DEF JournalInv, JournalTypeOK
  <2>2. validEnd' \in Nat /\ nextSequence' \in Nat \ {0} /\ runningCrc' \in Seq(Record)
    BY <1>2, <1>3, <1>4 DEF JournalInv, JournalTypeOK
  <2>3. QED
    BY <1>1, <1>3, <1>7, <1>8, <1>9, <2>1, <2>2 DEF JournalInv, JournalTypeOK
<1>11. NumberingInv'
  <2>1. NumberedFromOne(entries)' /\ NumberedFromOne(InFlight)'
    BY <1>1, <1>3, <1>8 DEF NumberedFromOne
  <2>2. nextSequence' = Len(entries) + 1
    BY <1>2, <1>3
  <2>3. QED
    BY <1>1, <1>3, <2>1, <2>2 DEF NumberingInv
<1>12. ModeInv'
  BY <1>1, <1>5, <1>8, <1>9 DEF ModeInv
<1>13. MarkerInv'
  BY <1>8, <1>9 DEF MarkerInv
<1>14. MemoryInv'
  <2>1. Extends(entries, acked)'
    BY <1>1, <1>6, <1>8 DEF Extends
  <2>2. attached' /\ ~ failed' => runningCrc' = entries /\ validEnd' = Len(entries)
    BY <1>2, <1>4
  <2>3. QED
    BY <1>1, <1>8, <2>1, <2>2 DEF MemoryInv
<1>15. BufferInv'
  <2>1. disk' = Image(acked')
    BY <1>8
  <2>2. Image(acked)' = Image(acked')
    BY DEF Image, Complete
  <2>3. QED
    BY <1>1, <1>5, <2>1, <2>2 DEF BufferInv, Healthy
<1>16. QED
  BY <1>6, <1>8, <1>10, <1>11, <1>12, <1>13, <1>14, <1>15 DEF JournalInv

\* Closing changes neither the file nor the memory.
LEMMA CloseInv ==
    ASSUME JournalInv, Close
    PROVE  JournalInv' /\ acked' = acked
<1>1. /\ stage = "idle" /\ mode' = "closed" /\ attached' = FALSE /\ buffer' = <<>>
      /\ disk' = disk /\ entries' = entries /\ nextSequence' = nextSequence
      /\ validEnd' = validEnd /\ runningCrc' = runningCrc /\ failed' = failed
      /\ stage' = stage /\ stored' = stored /\ acked' = acked /\ doubt' = doubt
  BY DEF Close, memory, history
<1>2. InFlight' = InFlight
  BY <1>1 DEF InFlight
<1>3. JournalTypeOK'
  <2>1. attached' \in BOOLEAN /\ failed' \in BOOLEAN
    BY <1>1 DEF JournalInv, JournalTypeOK
  <2>2. <<>> \in Seq(File)
    OBVIOUS
  <2>3. QED
    BY <1>1, <2>1, <2>2 DEF JournalInv, JournalTypeOK
<1>4. NumberingInv'
  BY <1>1, <1>2 DEF JournalInv, NumberingInv, NumberedFromOne
<1>5. ModeInv'
  BY <1>1 DEF JournalInv, ModeInv
<1>6. MarkerInv'
  BY <1>1, <1>2 DEF JournalInv, MarkerInv
<1>7. MemoryInv'
  BY <1>1 DEF MemoryInv
<1>8. BufferInv'
  BY <1>1 DEF BufferInv, Healthy
<1>9. QED
  BY <1>1, <1>3, <1>4, <1>5, <1>6, <1>7, <1>8 DEF JournalInv

\* A crash loses the memory and the buffer, and keeps the file.
LEMMA CrashInv ==
    ASSUME JournalInv, Crash
    PROVE  JournalInv' /\ acked' = acked
<1>1. /\ mode' = "closed" /\ attached' = FALSE /\ entries' = <<>> /\ nextSequence' = 1
      /\ validEnd' = 0 /\ runningCrc' = <<>> /\ failed' = FALSE /\ stage' = "idle"
      /\ stored' = <<>> /\ buffer' = <<>>
      /\ disk' = disk /\ acked' = acked /\ doubt' = doubt
  BY DEF Crash, history
<1>2. InFlight' = InFlight
  BY <1>1 DEF InFlight
<1>3. <<>> \in Seq(Record) /\ <<>> \in Seq(File) /\ Len(<<>>) = 0
  OBVIOUS
<1>4. JournalTypeOK'
  <2>1. attached' \in BOOLEAN /\ failed' \in BOOLEAN
    BY <1>1
  <2>2. QED
    BY <1>1, <1>3, <2>1 DEF JournalInv, JournalTypeOK
<1>5. NumberingInv'
  BY <1>1, <1>2, <1>3, JournalLimitsAssumption DEF JournalInv, NumberingInv, NumberedFromOne
<1>6. ModeInv'
  BY <1>1 DEF ModeInv
<1>7. MarkerInv'
  BY <1>1, <1>2 DEF JournalInv, MarkerInv
<1>8. MemoryInv'
  BY <1>1 DEF MemoryInv
<1>9. BufferInv'
  BY <1>1 DEF BufferInv, Healthy
<1>10. QED
  BY <1>1, <1>4, <1>5, <1>6, <1>7, <1>8, <1>9 DEF JournalInv

\* Damage leaves what the end marker covers, or destroys the end marker.
LEMMA DamageInv ==
    ASSUME JournalInv, Damage
    PROVE  JournalInv' /\ acked' = acked
<1>1. /\ mode = "closed" /\ disk.present /\ disk' \in DamagedForms(disk)
      /\ mode' = mode /\ attached' = attached
      /\ entries' = entries /\ nextSequence' = nextSequence /\ validEnd' = validEnd
      /\ runningCrc' = runningCrc /\ failed' = failed
      /\ stage' = stage /\ stored' = stored /\ buffer' = buffer
      /\ acked' = acked /\ doubt' = doubt
  BY DEF Damage, memory, running, history
<1>2. /\ ~ attached /\ stage = "idle" /\ buffer = <<>>
  BY <1>1 DEF JournalInv, ModeInv
<1>3. InFlight' = InFlight
  BY <1>1 DEF InFlight
<1>4. disk \in File
  BY DEF JournalInv, JournalTypeOK
<1>5. /\ disk' \in File /\ disk'.present
      /\ disk'.marked => disk.marked /\ disk'.covers = disk.covers
  <2>1. CASE \E n \in 0 .. Len(disk.records) : disk' = Unmarked(SubSeq(disk.records, 1, n))
    <3>1. PICK n \in 0 .. Len(disk.records) : disk' = Unmarked(SubSeq(disk.records, 1, n))
      BY <2>1
    <3>2. SubSeq(disk.records, 1, n) \in Seq(Record)
      BY <1>4 DEF File
    <3>3. QED
      BY <3>1, <3>2, ImageIsFile
  <2>2. CASE \E i \in 1 .. Len(disk.records), e \in Entries, n \in 1 .. MaxRecords :
               disk' = [disk EXCEPT !.records =
                          [disk.records EXCEPT ![i] = [entry |-> e, sequence |-> n]]]
    <3>1. PICK i \in 1 .. Len(disk.records), e \in Entries, n \in 1 .. MaxRecords :
               disk' = [disk EXCEPT !.records =
                          [disk.records EXCEPT ![i] = [entry |-> e, sequence |-> n]]]
      BY <2>2
    <3>2. [entry |-> e, sequence |-> n] \in Record
      BY JournalLimitsAssumption DEF Record
    <3>3. [disk.records EXCEPT ![i] = [entry |-> e, sequence |-> n]] \in Seq(Record)
      BY <1>4, <3>2 DEF File
    <3>4. QED
      BY <1>1, <1>4, <3>1, <3>3 DEF File
  <2>3. CASE \E n \in 0 .. MaxRecords : disk' = [disk EXCEPT !.count = n]
    <3>1. PICK n \in 0 .. MaxRecords : disk' = [disk EXCEPT !.count = n]
      BY <2>3
    <3>2. n \in Nat
      BY JournalLimitsAssumption
    <3>3. QED
      BY <1>1, <1>4, <3>1, <3>2 DEF File
  <2>4. QED
    BY <1>1, <2>1, <2>2, <2>3 DEF DamagedForms
<1>6. JournalTypeOK'
  <2>1. attached' \in BOOLEAN /\ failed' \in BOOLEAN
    BY <1>1 DEF JournalInv, JournalTypeOK
  <2>2. QED
    BY <1>1, <1>5, <2>1 DEF JournalInv, JournalTypeOK
<1>7. NumberingInv'
  BY <1>1, <1>3 DEF JournalInv, NumberingInv, NumberedFromOne
<1>8. ModeInv'
  BY <1>1, <1>2 DEF JournalInv, ModeInv
<1>9. MarkerInv'
  BY <1>1, <1>3, <1>5 DEF JournalInv, MarkerInv
<1>10. MemoryInv'
  BY <1>1, <1>2 DEF MemoryInv
<1>11. BufferInv'
  BY <1>1, <1>2 DEF BufferInv, Healthy
<1>12. QED
  BY <1>1, <1>6, <1>7, <1>8, <1>9, <1>10, <1>11 DEF JournalInv

\* A stuttering step changes nothing.
LEMMA StutterInv ==
    ASSUME JournalInv, UNCHANGED vars
    PROVE  JournalInv' /\ acked' = acked
<1>1. /\ disk' = disk /\ mode' = mode /\ attached' = attached
      /\ entries' = entries /\ nextSequence' = nextSequence /\ validEnd' = validEnd
      /\ runningCrc' = runningCrc /\ failed' = failed
      /\ stage' = stage /\ stored' = stored /\ buffer' = buffer
      /\ acked' = acked /\ doubt' = doubt
  BY DEF vars
<1>2. QED
  BY <1>1 DEF JournalInv, JournalTypeOK, NumberingInv, NumberedFromOne, ModeInv, MarkerInv,
              MemoryInv, Extends, BufferInv, Healthy, InFlight, Unmarked, Image, Complete

\* Every step keeps the invariant and everything acknowledged.
LEMMA NextInv ==
    ASSUME JournalInv, [JournalNext]_vars
    PROVE  JournalInv' /\ Extends(acked', acked)
<1>1. Extends(acked, acked)
  BY DEF Extends, JournalInv, JournalTypeOK
<1>2. CASE Opens
  BY <1>2, OpensInv
<1>3. CASE OpenRefuses
  BY <1>1, <1>3, OpenRefusesInv DEF OpenRefuses, history
<1>4. CASE OpenInMemory
  BY <1>1, <1>4, OpenInMemoryInv
<1>5. CASE \E entry \in Entries : AppendDetached(entry) \/ BeginAppend(entry)
  BY <1>1, <1>5, AppendDetachedInv, BeginAppendInv
<1>6. CASE WriteRecord
  BY <1>1, <1>6, WriteRecordInv
<1>7. CASE WriteMarker
  BY <1>1, <1>7, WriteMarkerInv
<1>8. CASE Flush
  BY <1>8, FlushInv
<1>9. CASE AppendFails
  BY <1>1, <1>9, AppendFailsInv
<1>10. CASE Drain
  BY <1>1, <1>10, DrainInv
<1>11. CASE Rewrite
  BY <1>1, <1>11, RewriteKeepsOldFileInv, RewriteReplacesInv DEF Rewrite
<1>12. CASE Close
  BY <1>1, <1>12, CloseInv
<1>13. CASE Crash
  BY <1>1, <1>13, CrashInv
<1>14. CASE Damage
  BY <1>1, <1>14, DamageInv
<1>15. CASE UNCHANGED vars
  BY <1>1, <1>15, StutterInv
<1>16. QED
  BY <1>2, <1>3, <1>4, <1>5, <1>6, <1>7, <1>8, <1>9, <1>10, <1>11, <1>12, <1>13, <1>14, <1>15
     DEF JournalNext

\* The invariant holds in every reachable state.
LEMMA JournalInvariant == JournalSpec => []JournalInv
<1>1. JournalInit => JournalInv
  BY InitInv
<1>2. JournalInv /\ [JournalNext]_vars => JournalInv'
  BY NextInv
<1>3. QED
  BY <1>1, <1>2, PTL DEF JournalSpec

-----------------------------------------------------------------------------
(* Theorems.                                                               *)

\* The variables of the journal keep their types.
THEOREM JournalTypeCorrect == JournalSpec => []JournalTypeOK
<1>1. JournalInv => JournalTypeOK
  BY DEF JournalInv
<1>2. QED
  BY <1>1, JournalInvariant, PTL

\* Whatever dies, fails or is damaged, a file that open accepts holds the
\* acknowledged records in order, and at most the one that was under way.
THEOREM OpensAcknowledged == JournalSpec => []OpensToWhatWasAcknowledged
<1>1. JournalInv => OpensToWhatWasAcknowledged
  BY DEF JournalInv, MarkerInv, OpensToWhatWasAcknowledged, Accepts, InFlight
<1>2. QED
  BY <1>1, JournalInvariant, PTL

\* No step of any kind, reopening included, forgets or changes a record that
\* was acknowledged.
THEOREM NothingForgotten == JournalSpec => AcknowledgedForEver
<1>1. JournalInv /\ [JournalNext]_vars
        => [/\ Len(acked) <= Len(acked')
            /\ \A i \in 1 .. Len(acked) : acked'[i] = acked[i]]_vars
  BY NextInv DEF Extends
<1>2. QED
  BY <1>1, JournalInvariant, PTL DEF JournalSpec, AcknowledgedForEver

\* A journal that works is, on the file, exactly what it is in memory, and
\* opens again unless it has outgrown what open reads.
THEOREM HealthyReopens == JournalSpec => []HealthyJournalReopens
<1>1. ASSUME JournalInv PROVE HealthyJournalReopens
  <2>1. SUFFICES ASSUME Healthy, WithinReadLimits(entries)
                 PROVE  Accepts(disk) /\ disk.records = entries
    BY DEF HealthyJournalReopens
  <2>2. disk = Image(acked) /\ entries = acked
    BY <1>1, <2>1 DEF JournalInv, BufferInv, MemoryInv, Healthy
  <2>3. entries \in Seq(Record) /\ NumberedFromOne(entries) /\ Len(entries) <= MaxRecords
    BY <1>1 DEF JournalInv, JournalTypeOK, NumberingInv
  <2>4. /\ disk.marked /\ disk.covers = entries /\ disk.records = entries
        /\ disk.count = Len(entries)
    BY <2>2, <2>3, ImageIsFile
  <2>5. StrictlyIncreasing(entries)
    BY <2>3, NumberingFacts
  <2>6. QED
    BY <2>1, <2>3, <2>4, <2>5 DEF Accepts, WithinReadLimits
<1>2. QED
  BY <1>1, JournalInvariant, PTL

=============================================================================

----------------------------- MODULE LogOutputs ------------------------------
(***************************************************************************)
(* packages/logger/src/outputs.ts: the outputs that send entries in        *)
(* batches, and the one that writes them to a file it rotates.             *)
(***************************************************************************)
EXTENDS Integers, SequencesExt

(***************************************************************************)
(* BatchElasticsearchOutputAdapter of packages/logger/src/outputs.ts:      *)
(* entries are buffered and written in batches, by the write() that fills  *)
(* one, by a timer and by close(); a batch is tried several times while    *)
(* others go on beside it.                                                 *)
(***************************************************************************)

CONSTANTS LogEntries,    \* bound: entries, numbered in the order of their write()
          LogBatch,      \* options.batchSize
          LogRetries     \* options.maxRetries

LogOutputAssumption == LogBatch \in Nat \ {0} /\ LogRetries \in Nat \ {0}

VARIABLE lo

\* timer: the flush timer runs; flights: the batches being written, by whom, and how often
\* they failed; close: of close().  History: stored, how often the service has taken an
\* entry; lost, entries of batches given up; refused, those the service did not index;
\* retried, those of batches that failed once; seen, those that were still buffered when
\* close() flushed; told, the outcome of each write()
BatchedInit == lo = [buffer |-> <<>>, timer |-> TRUE, flights |-> {}, close |-> "open",
                     written |-> 0, stored |-> [i \in 1..LogEntries |-> 0], lost |-> {},
                     refused |-> {}, retried |-> {}, seen |-> {}, told |-> [i \in 1..LogEntries |-> "none"]]

\* Mutant of Flush: the batch is taken from the buffer when it has been written.
FlushKeeping(l, by) ==
  IF l.buffer = <<>> THEN l
  ELSE [l EXCEPT !.flights = @ \cup {[by |-> by, batch |-> l.buffer, tries |-> 0]}]

\* flush() up to its await
Flush(l, by) ==
  IF l.buffer = <<>> THEN l
  ELSE [l EXCEPT !.buffer = <<>>,
                 !.flights = @ \cup {[by |-> by, batch |-> l.buffer, tries |-> 0]}]

\* write(): the promise of the entry is that of its flush, if it makes one
BatchedWrite ==
  LET i == lo.written + 1
      l == [lo EXCEPT !.written = i, !.buffer = Append(@, i)] IN
  /\ i <= LogEntries
  /\ lo' = IF Len(l.buffer) >= LogBatch THEN Flush(l, "write")
           ELSE [l EXCEPT !.told[i] = "ok"]

\* the timer
Tick == lo.timer /\ lo.buffer # <<>> /\ lo' = Flush(lo, "timer")

\* close() up to its await: it resolves with the flush of what is buffered
BatchedClose ==
  /\ lo.close = "open"
  /\ LET l == [lo EXCEPT !.timer = FALSE, !.seen = ToSet(lo.buffer)] IN
     lo' = [Flush(l, "close") EXCEPT !.close = IF lo.buffer = <<>> THEN "closed" ELSE "closing"]

Ends(l, f, how) ==
  IF f.by = "close" THEN [l EXCEPT !.close = IF how = "ok" THEN "closed" ELSE "failed"]
  ELSE IF f.by = "write" THEN [l EXCEPT !.told[Last(f.batch)] = how]
  ELSE l

Stores(l, entries) ==
  [l EXCEPT !.stored = [i \in DOMAIN @ |-> @[i] + IF i \in entries THEN 1 ELSE 0]]
Without(f) == [lo EXCEPT !.flights = @ \ {f}]

\* Mutant of Answered: the buffer is emptied when the batch has been written.
AnsweredClearing(f, refused) ==
  lo' = Ends([Stores(Without(f), ToSet(f.batch) \ refused) EXCEPT
                !.refused = @ \cup refused, !.buffer = <<>>], f, "ok")

\* fetch() is answered: writeBatch() resolves, also when the answer names documents that
\* were not indexed
Answered(f, refused) ==
  lo' = Ends([Stores(Without(f), ToSet(f.batch) \ refused) EXCEPT
                !.refused = @ \cup refused], f, "ok")

\* Mutant of Fails: a batch that is given up is buffered again.
FailsRequeued(f, taken) ==
  LET l == IF taken THEN Stores(Without(f), ToSet(f.batch)) ELSE Without(f) IN
  lo' = IF f.tries + 1 < LogRetries
        THEN [l EXCEPT !.flights = @ \cup {[f EXCEPT !.tries = @ + 1]},
                       !.retried = @ \cup ToSet(f.batch)]
        ELSE Ends([l EXCEPT !.buffer = f.batch \o @], f, "ok")

\* fetch() fails, the service having taken the batch or not: another try, or the end
Fails(f, taken) ==
  LET l == IF taken THEN Stores(Without(f), ToSet(f.batch)) ELSE Without(f) IN
  lo' = IF f.tries + 1 < LogRetries
        THEN [l EXCEPT !.flights = @ \cup {[f EXCEPT !.tries = @ + 1]},
                       !.retried = @ \cup ToSet(f.batch)]
        ELSE Ends([l EXCEPT !.lost = @ \cup ToSet(f.batch)], f, "failed")

BatchedNext ==
  \/ BatchedWrite \/ Tick \/ BatchedClose
  \/ \E f \in lo.flights :
       \/ \E refused \in SUBSET ToSet(f.batch) : Answered(f, refused)
       \/ \E taken \in BOOLEAN : Fails(f, taken)

BatchedSpec == BatchedInit /\ [][BatchedNext]_lo

-----------------------------------------------------------------------------
(* Properties.                                                             *)

InFlight == UNION {ToSet(f.batch) : f \in lo.flights}

\* An entry that was written is buffered, being written, stored, refused, or was given
\* up.
EntryIsAccounted ==
  \A i \in 1..lo.written :
    \/ i \in ToSet(lo.buffer) \cup InFlight \cup lo.lost \cup lo.refused
    \/ lo.stored[i] > 0

\* close() that resolves has had what was buffered stored, but for what the service refused
\* in an answer.  It knows nothing of the batches that were being written: they may fail
\* after it.  The same holds for the write() that filled a batch.
ResolvedIsStored ==
  /\ lo.close = "closed" => \A i \in lo.seen \ lo.refused : lo.stored[i] > 0
  /\ \A i \in 1..lo.written :
       lo.told[i] = "failed" => i \in lo.lost

\* The service gets an entry twice only when its batch is tried again.
StoredTwiceOnlyIfRetried == \A i \in 1..lo.written : lo.stored[i] > 1 => i \in lo.retried

\* After close() nothing waits in the buffer but entries written since, fewer than a batch.
LittleIsStranded ==
  lo.close # "open" => Len(lo.buffer) < LogBatch /\ ToSet(lo.buffer) \cap lo.seen = {}

-----------------------------------------------------------------------------
(***************************************************************************)
(* FileOutputAdapter of packages/logger/src/outputs.ts: entries are        *)
(* appended to one file, which is renamed away when it is full.  write()   *)
(* awaits the opening, the rotation and the writing, and nothing orders    *)
(* the calls that overlap.                                                 *)
(***************************************************************************)

CONSTANTS FileEntries,   \* bound: entries, numbered, of one unit each
          FileWrites,    \* bound: write() calls that overlap
          FileMax,       \* maxSize, in units
          FileKept       \* maxFiles

LogFileAssumption == FileMax \in Nat \ {0} /\ FileKept \in Nat

VARIABLE lf

\* files: what was written to each file ever created; name: the files by their names, the
\* current one at 0, the rotated ones at 1, 2, ..., no file being 0; handles: of each handle
\* ever opened, its file and whether close() was called; stream: the handle of writeStream,
\* or 0; size: currentSize; pc: where each write() is, own, the handle it waits for, and step,
\* the rename it does next; closing: the handle close() waits for, or 0.
\* History: told, the outcome of each write(); aged, the entries of the oldest file when a
\* rename replaced it; races, what has overlapped: two writes, two first openings, a write
\* and a rotation or close(), two rotations
FileInit == lf = [files |-> <<>>, name |-> [k \in 0..FileKept |-> 0], handles |-> <<>>,
                  stream |-> 0, size |-> 0, written |-> 0, closing |-> 0,
                  pc |-> [i \in 1..FileEntries |-> "none"], own |-> [i \in 1..FileEntries |-> 0],
                  step |-> [i \in 1..FileEntries |-> 0],
                  told |-> [i \in 1..FileEntries |-> "none"], aged |-> {}, races |-> {}]

Inside == {i \in 1..FileEntries : lf.pc[i] # "none"}
Rotating == {i \in Inside : lf.pc[i] \in {"closing", "renaming", "opening", "restat"}}
When(cond, race) == IF cond THEN {race} ELSE {}
Held(k) == IF lf.name[k] = 0 THEN {} ELSE lf.files[lf.name[k]]
InUse(l, h) == \E i \in 1..FileEntries : l.pc[i] = "writing" /\ l.own[i] = h

\* the write, by what writeStream is now; a handle is usable until close() has let the last
\* write on it end
Issues(l, i) ==
  IF l.stream # 0 /\ (l.handles[l.stream].open \/ InUse(l, l.stream))
  THEN [l EXCEPT !.pc[i] = "writing", !.own[i] = l.stream]
  ELSE [l EXCEPT !.pc[i] = "none", !.own[i] = 0, !.told[i] = "failed"]

\* the renames of rotateFile(), or none of them
Moves(l, i) == [l EXCEPT !.pc[i] = IF FileKept > 0 THEN "renaming" ELSE "opening",
                         !.step[i] = FileKept - 1]

\* Mutant of Rotates: the handle is not closed.
RotatesOpen(l, i) == Moves(l, i)

\* rotateFile() up to its first await
Rotates(l, i) ==
  LET m == [l EXCEPT !.races = @ \cup When(Inside \ {i} # {}, "rotation")
                                  \cup When(Rotating \ {i} # {}, "rotations")] IN
  IF l.stream = 0 THEN Moves(m, i)
  ELSE [m EXCEPT !.handles[l.stream].open = FALSE, !.pc[i] = "closing", !.own[i] = l.stream]

\* Mutant of Goes: the file is rotated when it is too large already.
GoesLate(l, i) == IF l.size > FileMax THEN Rotates(l, i) ELSE Issues(l, i)

\* shouldRotate(), then the rotation or the write
Goes(l, i) == IF l.size + 1 > FileMax THEN Rotates(l, i) ELSE Issues(l, i)

FileWrite ==
  LET i == lf.written + 1
      l == [lf EXCEPT !.written = i,
                      !.races = @ \cup When(Inside # {}, "writes")
                                  \cup When(\E j \in Inside : lf.pc[j] = "first", "opens")
                                  \cup When(Rotating # {} \/ lf.closing # 0, "rotation")] IN
  /\ i <= FileEntries /\ Cardinality(Inside) < FileWrites
  /\ lf' = IF l.stream = 0 THEN [l EXCEPT !.pc[i] = "first"] ELSE Goes(l, i)

\* Mutant of Opened: the file is truncated.
OpenedAnew(i) ==
  /\ lf.pc[i] \in {"first", "opening"}
  /\ LET new == lf.name[0] = 0
         f == IF new THEN Len(lf.files) + 1 ELSE lf.name[0]
         h == Len(lf.handles) + 1 IN
     lf' = [lf EXCEPT !.files = IF new THEN Append(@, {}) ELSE [@ EXCEPT ![f] = {}], !.name[0] = f,
                      !.handles = Append(@, [file |-> f, open |-> TRUE]), !.stream = h,
                      !.own[i] = h, !.pc[i] = IF @ = "first" THEN "stat" ELSE "restat"]

\* openFile(): the file is opened for appending, or created; first by a write() that found
\* no stream, or at the end of a rotation
Opened(i) ==
  /\ lf.pc[i] \in {"first", "opening"}
  /\ LET new == lf.name[0] = 0
         f == IF new THEN Len(lf.files) + 1 ELSE lf.name[0]
         h == Len(lf.handles) + 1 IN
     lf' = [lf EXCEPT !.files = IF new THEN Append(@, {}) ELSE @, !.name[0] = f,
                      !.handles = Append(@, [file |-> f, open |-> TRUE]), !.stream = h,
                      !.own[i] = h, !.pc[i] = IF @ = "first" THEN "stat" ELSE "restat"]

\* stat() of the new handle; a rotation then sets the size to 0
Stats(i) ==
  \/ /\ lf.pc[i] = "stat"
     /\ lf' = Goes([lf EXCEPT !.size = Cardinality(lf.files[lf.handles[lf.own[i]].file])], i)
  \/ lf.pc[i] = "restat" /\ lf' = Issues([lf EXCEPT !.size = 0], i)

\* rotateFile(): the handle is closed, ...
HandleClosed(i) ==
  lf.pc[i] = "closing" /\ ~InUse(lf, lf.own[i]) /\ lf' = Moves(lf, i)

\* ... the rotated files move up, the oldest first, and the current one after them; a
\* rename of a file that is not there fails, which is ignored
Renames(i) ==
  /\ lf.pc[i] = "renaming"
  /\ LET k == lf.step[i] IN
     lf' = [lf EXCEPT !.name = IF @[k] = 0 THEN @ ELSE [@ EXCEPT ![k + 1] = lf.name[k], ![k] = 0],
                      !.aged = IF lf.name[k] = 0 \/ k < FileKept - 1 THEN @
                               ELSE @ \cup Held(FileKept),
                      !.step[i] = IF k > 0 THEN k - 1 ELSE 0,
                      !.pc[i] = IF k > 0 THEN @ ELSE "opening"]

\* the write has ended
Appends(i) ==
  /\ lf.pc[i] = "writing"
  /\ lf' = [lf EXCEPT !.files[lf.handles[lf.own[i]].file] = @ \cup {i}, !.size = @ + 1,
                      !.pc[i] = "none", !.own[i] = 0, !.told[i] = "ok"]

\* close(), and when its handle is closed: writeStream is forgotten, whatever it is then
FileClose ==
  /\ lf.stream # 0 /\ lf.closing = 0
  /\ lf' = [lf EXCEPT !.closing = lf.stream, !.handles[lf.stream].open = FALSE,
                      !.races = @ \cup When(Inside # {}, "rotation")]
Closed ==
  /\ lf.closing # 0 /\ ~InUse(lf, lf.closing)
  /\ lf' = [lf EXCEPT !.closing = 0, !.stream = 0]

FileNext ==
  \/ FileWrite \/ FileClose \/ Closed
  \/ \E i \in Inside : Opened(i) \/ Stats(i) \/ HandleClosed(i) \/ Renames(i) \/ Appends(i)

FileSpec == FileInit /\ [][FileNext]_lf

-----------------------------------------------------------------------------
(* Properties.                                                             *)

\* An entry whose write() resolved is in a file that has a name, until the rotation after
\* the last that keeps it, and what has aged out is older than all that is kept; whatever
\* overlaps, but for two rotations, which rename a file over the one before it.
StoredOrAged ==
  "rotations" \notin lf.races =>
  LET kept == UNION {Held(k) : k \in 0..FileKept} IN
  /\ \A i \in 1..lf.written : lf.told[i] = "ok" => i \in kept \cup lf.aged
  /\ "writes" \notin lf.races => \A i \in lf.aged, j \in kept : i < j

\* A write() fails only if it may have been given the handle that another one's rotation, or
\* close(), was closing.
FailsByRotation ==
  (\E i \in 1..lf.written : lf.told[i] = "failed") => "rotation" \in lf.races

\* The only handle that is open is the one of writeStream, unless two writes found no stream
\* and opened one each, or close() or a rotation forgot the one another had opened.
NoHandleLeaks ==
  lf.races \cap {"opens", "rotation"} = {} =>
    \A h \in DOMAIN lf.handles : lf.handles[h].open => h = lf.stream

\* If rotated files are kept, no file grows over maxSize by more than the writes that overlap:
\* each of them compares the size from before the others' writing.
FilesAreBounded ==
  FileKept = 0 \/ "opens" \in lf.races \/ "rotation" \in lf.races \/
  \A f \in DOMAIN lf.files :
    Cardinality(lf.files[f]) <= FileMax + IF "writes" \in lf.races THEN FileWrites - 1 ELSE 0
=============================================================================

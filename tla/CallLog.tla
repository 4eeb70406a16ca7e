------------------------------- MODULE CallLog -------------------------------
(***************************************************************************)
(* The call log of the gateway (EventLog): a ring of the last records in   *)
(* memory, the lines that wait for the background writer, and two files,   *)
(* the current one and the segment before it (".1"). Requests append, the  *)
(* writer empties the waiting lines and rotates the file, the console      *)
(* clears the log, the shell reads the files from outside, or removes them *)
(* when the gateway's port does not answer, and the process may die        *)
(* between any two of these.                                               *)
(*                                                                         *)
(* Records are numbered in the order in which they are appended. Clear     *)
(* and writeToFile hold writeMu from beginning to end and Append and       *)
(* takePending hold mu, so each is one step, but for the files that Clear  *)
(* removes one after the other.                                            *)
(***************************************************************************)
EXTENDS Naturals, Sequences, SequencesExt

CONSTANTS
    MaxCalls,    \* bound: records appended
    RingSizes,   \* the limits an operator may set for the ring
    PendingMax,  \* maxPendingLines
    RotateAt,    \* callLogRotateBytes: the size beyond which a file is rotated
    Tails,       \* how many records a reader asks for; 0 is all of them
    MaxClears,   \* bound: clearings since the process started
    MaxCrashes   \* bound: restarts of the process

ASSUME CallLogAssumption ==
    /\ MaxCalls \in Nat /\ MaxClears \in Nat /\ MaxCrashes \in Nat
    /\ RingSizes \subseteq Nat \ {0}
    /\ \E n \in RingSizes : \A m \in RingSizes : m <= n  \* the default limit
    /\ PendingMax \in Nat \ {0} /\ RotateAt \in Nat /\ Tails \subseteq Nat

VARIABLES
    calls,    \* how many records were appended
    records, maxRecords, pendingWrite, writeGen,
    f,        \* the file the writer has open: none, the log, or a removed one
    main, prev,  \* the lines of the log and of ".1"; NoFile when there is none
    writer,   \* the lines the writer took, and the generation it took them in
    clearing, \* what a Clear is about to do; the newest record it covers
    cleared,  \* history: the newest record covered by a Clear that succeeded
    reader,   \* what a reader has of ".1", and what it has read in the end
    crashes

mem   == <<records, maxRecords, pendingWrite, writeGen>>
files == <<f, main, prev>>
vars  == <<calls, mem, files, writer, clearing, cleared, reader, crashes>>

NoFile  == [there |-> FALSE, lines |-> << >>]
File(s) == [there |-> TRUE, lines |-> s]

\* The newest n of s.
Newest(n, s) == IF Len(s) > n THEN SubSeq(s, Len(s) - n + 1, Len(s)) ELSE s

Idle      == [pc |-> "idle", lines |-> << >>, gen |-> 0]
NoClear   == [pc |-> "no", upTo |-> 0]
NoReading == [pc |-> "no", tail |-> 0, older |-> << >>, view |-> << >>]

Init ==
    /\ calls = 0 /\ cleared = 0 /\ crashes = 0
    /\ records = << >> /\ pendingWrite = << >> /\ writeGen = 0
    /\ maxRecords \in RingSizes
    /\ f = "none" /\ main = NoFile /\ prev = NoFile
    /\ writer = Idle /\ clearing = NoClear /\ reader = NoReading

-----------------------------------------------------------------------------
(* Requests *)

\* A record goes into the ring and, as a line, to the writer; beyond the
\* limit the oldest waiting line is dropped.
Append1(r) ==
    /\ records' = Newest(maxRecords, Append(records, r))
    /\ pendingWrite' = Newest(PendingMax, Append(pendingWrite, r))

recordCall ==
    /\ calls < MaxCalls
    /\ calls' = calls + 1
    /\ Append1(calls + 1)
    /\ UNCHANGED <<maxRecords, writeGen, files, writer, clearing, cleared, reader, crashes>>

SetMaxRecords ==
    \E n \in RingSizes \ {maxRecords} :
        /\ maxRecords' = n
        /\ records' = Newest(n, records)
        /\ UNCHANGED <<calls, pendingWrite, writeGen, files, writer, clearing, cleared,
                       reader, crashes>>

-----------------------------------------------------------------------------
(* The writer *)

\* Mutant: the lines stay where they are.
TakePendingKeeps ==
    /\ writer.pc = "idle" /\ pendingWrite # << >>
    /\ writer' = [pc |-> "took", lines |-> pendingWrite, gen |-> writeGen]
    /\ UNCHANGED <<calls, mem, files, clearing, cleared, reader, crashes>>

takePending ==
    /\ writer.pc = "idle" /\ pendingWrite # << >>
    /\ writer' = [pc |-> "took", lines |-> pendingWrite, gen |-> writeGen]
    /\ pendingWrite' = << >>
    /\ UNCHANGED <<calls, records, maxRecords, writeGen, files, clearing, cleared,
                   reader, crashes>>

\* A file that was removed from outside is reopened; one that has grown
\* beyond the limit is closed and becomes the older segment in place of the
\* one before it, but for a removal or a renaming that fails.
Full == f = "log" /\ Len(main.lines) > RotateAt

Rotations ==
    IF Full THEN {<<main, NoFile>>, <<NoFile, main>>, <<prev, main>>}
    ELSE {<<prev, main>>}

\* Mutant: a batch taken before a clearing is written all the same.
StaleNever == FALSE

Stale == writer.gen # writeGen

\* The whole of writeToFile, which a Clear keeps out. Opening the file or
\* writing to it may fail: the lines are lost.
writeToFile ==
    /\ writer.pc = "took" /\ clearing.pc = "no"
    /\ writer' = Idle
    /\ IF Stale
       THEN UNCHANGED files
       ELSE \E after \in Rotations :
              /\ prev' = after[1]
              /\ \/ f' = "log" /\ main' = File(after[2].lines \o writer.lines)
                 \/ f' = "none" /\ main' \in {after[2], File(after[2].lines)}
    /\ UNCHANGED <<calls, mem, clearing, cleared, reader, crashes>>

-----------------------------------------------------------------------------
(* Clear: the console's DELETE /api/clear-call-log *)

Clear ==
    /\ clearing.pc = "no" /\ writeGen < MaxClears
    /\ records' = << >> /\ pendingWrite' = << >>
    /\ writeGen' = writeGen + 1
    /\ f' = "none"
    /\ clearing' = [pc |-> "main", upTo |-> calls]
    /\ UNCHANGED <<calls, maxRecords, main, prev, writer, cleared, reader, crashes>>

\* Each removal may fail, and then Clear reports the failure.
ClearMain ==
    /\ clearing.pc = "main"
    /\ \/ main' = NoFile /\ clearing' = [clearing EXCEPT !.pc = "prev"]
       \/ main.there /\ main' = main /\ clearing' = NoClear
    /\ UNCHANGED <<calls, mem, f, prev, writer, cleared, reader, crashes>>

ClearPrev ==
    /\ clearing.pc = "prev"
    /\ \/ prev' = NoFile /\ cleared' = clearing.upTo
       \/ prev.there /\ prev' = prev /\ cleared' = cleared
    /\ clearing' = NoClear
    /\ UNCHANGED <<calls, mem, f, main, writer, reader, crashes>>

-----------------------------------------------------------------------------
(* The shell, another process *)

\* ClearCallLog when the port does not answer: the files are removed behind
\* the back of a process that may be about to start or to stop.
removeLogFileRetry ==
    /\ \/ main.there /\ main' = NoFile /\ prev' = prev
          /\ f' = IF f = "log" THEN "gone" ELSE f
       \/ prev.there /\ prev' = NoFile /\ UNCHANGED <<f, main>>
    /\ UNCHANGED <<calls, mem, writer, clearing, cleared, reader, crashes>>

\* At most `tail` records of a file; all of them when tail is 0.
ReadPart(file, tail) == IF tail = 0 THEN file.lines ELSE Newest(tail, file.lines)

\* readCallLogFileTail: the older segment first, then the current file.
ReadPrev ==
    /\ reader.pc = "no"
    /\ \E tail \in Tails :
          reader' = [pc |-> "main", tail |-> tail, older |-> ReadPart(prev, tail),
                     view |-> << >>]
    /\ UNCHANGED <<calls, mem, files, writer, clearing, cleared, crashes>>

\* Mutant: the newer segment comes first.
MergedNewestFirst(older, newer, tail) ==
    IF tail = 0 THEN newer \o older ELSE Newest(tail, newer \o older)

Merged(older, newer, tail) ==
    IF tail = 0 THEN older \o newer ELSE Newest(tail, older \o newer)

ReadMain ==
    /\ reader.pc = "main"
    /\ reader' = [NoReading EXCEPT
                    !.view = Merged(reader.older, ReadPart(main, reader.tail), reader.tail)]
    /\ UNCHANGED <<calls, mem, files, writer, clearing, cleared, crashes>>

-----------------------------------------------------------------------------

\* The process dies, and another starts: initCallLog fills the ring from
\* the current file alone, cut to the default limit, the largest here.
Restart ==
    /\ crashes < MaxCrashes
    /\ crashes' = crashes + 1
    /\ maxRecords' = CHOOSE n \in RingSizes : \A m \in RingSizes : m <= n
    /\ records' = Newest(maxRecords', main.lines)
    /\ pendingWrite' = << >> /\ writeGen' = 0
    /\ f' = "none" /\ writer' = Idle /\ clearing' = NoClear
    /\ UNCHANGED <<calls, main, prev, cleared, reader>>

Next ==
    \/ recordCall \/ SetMaxRecords \/ takePending \/ writeToFile
    \/ Clear \/ ClearMain \/ ClearPrev
    \/ removeLogFileRetry \/ ReadPrev \/ ReadMain \/ Restart

Spec == Init /\ [][Next]_vars

-----------------------------------------------------------------------------
(* Properties *)

Log == prev.lines \o main.lines
Waiting == (IF Stale THEN << >> ELSE writer.lines) \o pendingWrite
Rising(s) == \A i, j \in DOMAIN s : i < j => s[i] < s[j]

\* The lines of appended records.
Lines == Seq(1..calls)

TypeOK ==
    /\ calls \in 0..MaxCalls /\ cleared \in 0..calls /\ crashes \in 0..MaxCrashes
    /\ maxRecords \in RingSizes /\ writeGen \in 0..MaxClears
    /\ records \in Lines /\ Len(records) <= maxRecords
    /\ pendingWrite \in Lines /\ Len(pendingWrite) <= PendingMax
    /\ f \in {"none", "log", "gone"}
    /\ main \in [there : BOOLEAN, lines : Lines] /\ prev \in [there : BOOLEAN, lines : Lines]
    /\ writer \in [pc : {"idle", "took"}, lines : Lines, gen : 0..writeGen]
    /\ writer.pc = "idle" => writer.lines = << >>
    /\ clearing \in [pc : {"no", "main", "prev"}, upTo : 0..calls]
    /\ reader \in [pc : {"no", "main"}, tail : Tails \cup {0}, older : Lines, view : Lines]

(* What the console cleared never comes back, though the writer may have   *)
(* held a batch of it while it was cleared (the generation of              *)
(* writeToFile, "防日志复活"), though either file may fail to go, and      *)
(* though the process may restart at once and read its log again.          *)
ClearedStaysCleared ==
    \A s \in {records, Log, Waiting} : \A i \in DOMAIN s : s[i] > cleared

(* The two files and what waits for them hold every record once and in the *)
(* order of the calls, through drops, rotations, failures, removals from   *)
(* outside and restarts; the ring does too.                                *)
LogInOrder == Rising(Log \o Waiting) /\ Rising(records)

(* Whoever reads the segments while the writer rotates them, or while they *)
(* are cleared, gets no record twice and none out of order.                *)
ReadInOrder == Rising(reader.view)

=============================================================================

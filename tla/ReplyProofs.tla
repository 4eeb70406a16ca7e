----------------------------- MODULE ReplyProofs -----------------------------
(***************************************************************************)
(* Proofs about what becomes of a reply.  First its record: CallLog, for   *)
(* every length of the ring, of the waiting lines and of the files and     *)
(* every bound (type correctness, that no record is kept or read twice or  *)
(* out of order, and that what a clearing covered does not come back).     *)
(* Then its stream: ReplyStream, for every vendor protocol and API and any *)
(* length of a reply (that a truncated reply is told from a complete one,  *)
(* and that the client's events are those of EventStream).                 *)
(***************************************************************************)
EXTENDS CallLog, ReplyStream, Integers, SequenceTheorems, FiniteSetTheorems, WellFoundedInduction,
        TLAPS

-----------------------------------------------------------------------------
(* What the module does with sequences, said of their sets of values.      *)

Below(s, t) == \A x \in ToSet(s), y \in ToSet(t) : x < y
Above(s, n) == \A x \in ToSet(s) : x > n

LEMMA EmptyLines ==
  /\ \A S : << >> \in Seq(S)
  /\ ToSet(<< >>) = {} /\ Rising(<< >>) /\ Len(<< >>) = 0
BY DEF ToSet, Rising

LEMMA ValuesOf ==
  ASSUME NEW S, NEW s \in Seq(S)
  PROVE  /\ ToSet(s) \subseteq S
         /\ \A i \in DOMAIN s : s[i] \in ToSet(s)
         /\ \A x \in ToSet(s) : \E i \in DOMAIN s : x = s[i]
BY LenProperties, ElementOfSeq DEF ToSet

LEMMA NewestLines ==
  ASSUME NEW S, S \subseteq Nat, NEW s \in Seq(S), NEW n \in Nat
  PROVE  /\ Newest(n, s) \in Seq(S) /\ Len(Newest(n, s)) <= n
         /\ ToSet(Newest(n, s)) \subseteq ToSet(s)
         /\ Rising(s) => Rising(Newest(n, s))
<1>1. CASE Len(s) <= n
  BY <1>1, LenProperties DEF Newest
<1>2. CASE Len(s) > n
  <2> DEFINE k == Len(s) - n
             t == SubSeq(s, k + 1, Len(s))
  <2>1. Len(s) \in Nat /\ DOMAIN s = 1 .. Len(s) /\ k \in Nat
    BY <1>2, LenProperties
  <2>2. Newest(n, s) = t
    BY <1>2 DEF Newest
  <2>3. \A i \in k + 1 .. Len(s) : s[i] \in S
    BY <2>1, ElementOfSeq
  <2>4. /\ t \in Seq(S) /\ Len(t) = n
        /\ \A i \in 1 .. n : t[i] = s[k + i]
    <3>1. /\ t \in Seq(S) /\ Len(t) = IF k + 1 <= Len(s) THEN Len(s) - (k + 1) + 1 ELSE 0
          /\ \A i \in 1 .. Len(s) - (k + 1) + 1 : t[i] = s[(k + 1) + i - 1]
      BY <2>1, <2>3, SubSeqProperties
    <3>2. QED
      BY <2>1, <3>1
  <2>5. DOMAIN t = 1 .. n
    BY <2>4, LenProperties
  <2>6. \A i \in 1 .. n : k + i \in 1 .. Len(s)
    BY <2>1
  <2> HIDE DEF t, k
  <2>7. ToSet(t) \subseteq ToSet(s)
    BY <2>1, <2>4, <2>5, <2>6 DEF ToSet
  <2>8. Rising(s) => Rising(t)
    <3> SUFFICES ASSUME Rising(s), NEW i \in 1 .. n, NEW j \in 1 .. n, i < j PROVE t[i] < t[j]
      BY <2>5 DEF Rising
    <3>1. k + i \in DOMAIN s /\ k + j \in DOMAIN s /\ k + i < k + j
      BY <2>1, <2>6
    <3>2. QED
      BY <2>4, <3>1 DEF Rising
  <2>9. QED
    BY <2>2, <2>4, <2>7, <2>8
<1>3. QED
  BY <1>1, <1>2, LenProperties

LEMMA JoinedLines ==
  ASSUME NEW S, S \subseteq Nat, NEW s \in Seq(S), NEW t \in Seq(S)
  PROVE  /\ s \o t \in Seq(S)
         /\ ToSet(s \o t) = ToSet(s) \cup ToSet(t)
         /\ Rising(s) /\ Rising(t) /\ Below(s, t) => Rising(s \o t)
<1>1. /\ s \o t \in Seq(S) /\ Len(s \o t) = Len(s) + Len(t)
      /\ \A i \in 1 .. Len(s) + Len(t) :
           (s \o t)[i] = IF i <= Len(s) THEN s[i] ELSE t[i - Len(s)]
  BY ConcatProperties
<1>2. /\ Len(s) \in Nat /\ DOMAIN s = 1 .. Len(s)
      /\ Len(t) \in Nat /\ DOMAIN t = 1 .. Len(t)
      /\ DOMAIN (s \o t) = 1 .. Len(s) + Len(t)
  BY <1>1, LenProperties
<1> DEFINE u == s \o t
<1> HIDE DEF u
<1>3. /\ \A i \in DOMAIN u : IF i <= Len(s) THEN i \in DOMAIN s /\ u[i] = s[i]
                             ELSE i - Len(s) \in DOMAIN t /\ u[i] = t[i - Len(s)]
      /\ \A i \in DOMAIN s : i \in DOMAIN u /\ u[i] = s[i]
      /\ \A i \in DOMAIN t : Len(s) + i \in DOMAIN u /\ u[Len(s) + i] = t[i]
  BY <1>1, <1>2 DEF u
<1>4. ToSet(u) = ToSet(s) \cup ToSet(t)
  <2>1. ToSet(u) \subseteq ToSet(s) \cup ToSet(t)
    BY <1>3 DEF ToSet
  <2>2. ToSet(s) \subseteq ToSet(u) /\ ToSet(t) \subseteq ToSet(u)
    BY <1>3 DEF ToSet
  <2>3. QED
    BY <2>1, <2>2
<1>5. ASSUME Rising(s), Rising(t), Below(s, t) PROVE Rising(u)
  <2> SUFFICES ASSUME NEW i \in DOMAIN u, NEW j \in DOMAIN u, i < j PROVE u[i] < u[j]
    BY DEF Rising
  <2>0. i \in Nat /\ j \in Nat
    BY <1>2 DEF u
  <2>1. CASE j <= Len(s)
    BY <1>2, <1>3, <1>5, <2>0, <2>1 DEF Rising
  <2>2. CASE i > Len(s)
    <3>1. i - Len(s) \in DOMAIN t /\ j - Len(s) \in DOMAIN t /\ i - Len(s) < j - Len(s)
      BY <1>2, <1>3, <2>0, <2>2
    <3>2. u[i] = t[i - Len(s)] /\ u[j] = t[j - Len(s)]
      BY <1>2, <1>3, <2>0, <2>2
    <3>3. QED
      BY <1>5, <3>1, <3>2 DEF Rising
  <2>3. CASE i <= Len(s) /\ j > Len(s)
    <3>1. u[i] \in ToSet(s) /\ u[j] \in ToSet(t)
      BY <1>2, <1>3, <2>0, <2>3 DEF ToSet
    <3>2. QED
      BY <1>5, <3>1 DEF Below
  <2>4. QED
    BY <1>2, <2>0, <2>1, <2>2, <2>3
<1>6. QED
  BY <1>1, <1>4, <1>5 DEF u

LEMMA AppendedLine ==
  ASSUME NEW S, S \subseteq Nat, NEW s \in Seq(S), NEW x \in S
  PROVE  /\ Append(s, x) \in Seq(S)
         /\ ToSet(Append(s, x)) = ToSet(s) \cup {x}
         /\ Rising(s) /\ (\A y \in ToSet(s) : y < x) => Rising(Append(s, x))
<1>1. <<x>> \in Seq(S) /\ ToSet(<<x>>) = {x} /\ Rising(<<x>>)
  BY DEF ToSet, Rising
<1>2. Append(s, x) = s \o <<x>>
  BY AppendIsConcat
<1>3. (\A y \in ToSet(s) : y < x) => Below(s, <<x>>)
  BY <1>1 DEF Below
<1>4. /\ s \o <<x>> \in Seq(S) /\ ToSet(s \o <<x>>) = ToSet(s) \cup ToSet(<<x>>)
      /\ Rising(s) /\ Rising(<<x>>) /\ Below(s, <<x>>) => Rising(s \o <<x>>)
  BY <1>1, JoinedLines, ZenonT(30)
<1>5. ToSet(s \o <<x>>) = ToSet(s) \cup {x}
  BY <1>1, <1>4, Zenon
<1>6. Rising(s) /\ (\A y \in ToSet(s) : y < x) => Rising(s \o <<x>>)
  BY <1>1, <1>3, <1>4, Zenon
<1>7. QED
  BY <1>2, <1>4, <1>5, <1>6, Zenon

-----------------------------------------------------------------------------
(* Type correctness.                                                       *)

LEMMA LinesGrow ==
  ASSUME NEW m \in Nat, NEW n \in Nat, m <= n
  PROVE  /\ 1 .. m \subseteq 1 .. n /\ 0 .. m \subseteq 0 .. n
         /\ Seq(1 .. m) \subseteq Seq(1 .. n)
BY SeqMonotonic

Files == [there : BOOLEAN, lines : Lines]
Readings == [pc : {"no", "main"}, tail : Tails \cup {0}, older : Lines, view : Lines]

LEMMA EmptyFile == NoFile \in Files /\ NoFile.lines = << >> /\ ~NoFile.there
BY EmptyLines DEF NoFile, Files, Lines

LEMMA FileType ==
  ASSUME NEW s \in Lines
  PROVE  File(s) \in Files /\ File(s).lines = s
BY DEF File, Files

\* What a reader takes of a file is among its lines, in their order.
LEMMA PartRead ==
  ASSUME NEW file \in Files, NEW n \in Nat, calls \in Nat
  PROVE  /\ ReadPart(file, n) \in Lines
         /\ ToSet(ReadPart(file, n)) \subseteq ToSet(file.lines)
         /\ Rising(file.lines) => Rising(ReadPart(file, n))
<1>1. file.lines \in Seq(1 .. calls) /\ 1 .. calls \subseteq Nat
  BY DEF Files, Lines
<1>2. QED
  BY <1>1, NewestLines DEF ReadPart, Lines

\* Two parts, one after the other.
LEMMA PartsMerged ==
  ASSUME NEW s \in Lines, NEW t \in Lines, NEW n \in Nat, calls \in Nat
  PROVE  /\ Merged(s, t, n) \in Lines
         /\ Rising(s) /\ Rising(t) /\ Below(s, t) => Rising(Merged(s, t, n))
<1>1. s \in Seq(1 .. calls) /\ t \in Seq(1 .. calls) /\ 1 .. calls \subseteq Nat
  BY DEF Lines
<1>2. s \o t \in Seq(1 .. calls) /\ (Rising(s) /\ Rising(t) /\ Below(s, t) => Rising(s \o t))
  BY <1>1, JoinedLines
<1>3. Newest(n, s \o t) \in Seq(1 .. calls) /\ (Rising(s \o t) => Rising(Newest(n, s \o t)))
  BY <1>1, <1>2, NewestLines
<1>4. QED
  BY <1>2, <1>3 DEF Merged, Lines

\* The parameters as the steps use them.
LEMMA Limits ==
  ASSUME TypeOK
  PROVE  /\ calls \in Nat /\ maxRecords \in Nat /\ writeGen \in Nat /\ 1 .. calls \subseteq Nat
         /\ PendingMax \in Nat /\ RingSizes \subseteq Nat /\ Tails \cup {0} \subseteq Nat
         /\ (CHOOSE n \in RingSizes : \A m \in RingSizes : m <= n) \in RingSizes
<1>1. (CHOOSE n \in RingSizes : \A m \in RingSizes : m <= n) \in RingSizes
  BY CallLogAssumption
<1>2. 0 .. MaxCalls \subseteq Nat /\ 0 .. MaxClears \subseteq Nat
  OBVIOUS
<1>3. calls \in Nat /\ writeGen \in Nat
  BY <1>2 DEF TypeOK
<1>4. QED
  BY <1>1, <1>3, CallLogAssumption DEF TypeOK

\* What writeToFile leaves on disk: the files are part of what they were, and the lines of
\* the writer are added to the newer one or are lost.
Written(after, p, m) ==
  /\ p = after[1]
  /\ m \in {after[2], File(after[2].lines), File(after[2].lines \o writer.lines)}

LEMMA RotationTypes ==
  ASSUME TypeOK, NEW after \in Rotations
  PROVE  /\ after[1] \in Files /\ after[2] \in Files
         /\ after \in {<<main, NoFile>>, <<NoFile, main>>, <<prev, main>>}
BY EmptyFile DEF Rotations, TypeOK, Files

LEMMA WriteEffect ==
  ASSUME TypeOK, writeToFile, ~Stale
  PROVE  \E after \in Rotations : Written(after, prev', main')
<1>1. PICK after \in Rotations :
        /\ prev' = after[1]
        /\ \/ f' = "log" /\ main' = File(after[2].lines \o writer.lines)
           \/ f' = "none" /\ main' \in {after[2], File(after[2].lines)}
  BY DEF writeToFile
<1>2. QED
  BY <1>1 DEF Written

LEMMA WrittenType ==
  ASSUME TypeOK, NEW after \in Rotations, NEW p, NEW m, Written(after, p, m)
  PROVE  p \in Files /\ m \in Files
<1>1. after[1] \in Files /\ after[2] \in Files
  BY RotationTypes
<1>2. after[2].lines \in Lines /\ writer.lines \in Lines
  BY <1>1 DEF TypeOK, Files
<1>3. after[2].lines \o writer.lines \in Lines
  BY <1>2, Limits, JoinedLines DEF Lines
<1>4. QED
  BY <1>1, <1>2, <1>3, FileType DEF Written

LEMMA TypeInit == Init => TypeOK
<1> SUFFICES ASSUME Init PROVE TypeOK
  OBVIOUS
<1>1. << >> \in Lines
  BY EmptyLines DEF Lines
<1>2. main \in Files /\ prev \in Files
  BY EmptyFile DEF Init
<1>3. calls = 0 /\ cleared = 0 /\ crashes = 0 /\ writeGen = 0
  BY DEF Init
<1>4. 0 \in 0 .. MaxCalls /\ 0 \in 0 .. MaxCrashes /\ 0 \in 0 .. MaxClears /\ 0 \in 0 .. 0
  BY CallLogAssumption
<1>5. /\ writer \in [pc : {"idle", "took"}, lines : Lines, gen : 0 .. writeGen]
      /\ writer.pc = "idle" => writer.lines = << >>
  BY <1>1, <1>3, <1>4 DEF Init, Idle
<1>6. clearing \in [pc : {"no", "main", "prev"}, upTo : 0 .. calls]
  BY <1>3, <1>4 DEF Init, NoClear
<1>7. reader \in Readings
  BY <1>1 DEF Init, NoReading, Readings
<1>8. /\ records = << >> /\ pendingWrite = << >> /\ maxRecords \in RingSizes /\ f = "none"
      /\ Len(<< >>) <= maxRecords /\ Len(<< >>) <= PendingMax
  BY EmptyLines, CallLogAssumption DEF Init
<1>9. QED
  BY <1>1, <1>2, <1>3, <1>4, <1>5, <1>6, <1>7, <1>8 DEF TypeOK, Files, Readings

LEMMA TypeStep == TypeOK /\ [Next]_vars => TypeOK'
<1> SUFFICES ASSUME TypeOK, [Next]_vars PROVE TypeOK'
  OBVIOUS
<1> USE DEF TypeOK, mem, files
<1>0. /\ calls \in Nat /\ maxRecords \in Nat /\ writeGen \in Nat /\ 1 .. calls \subseteq Nat
      /\ PendingMax \in Nat /\ RingSizes \subseteq Nat /\ Tails \cup {0} \subseteq Nat
  BY Limits
<1>1. CASE recordCall
  <2>1. /\ calls' = calls + 1 /\ calls' \in 0 .. MaxCalls /\ calls' \in Nat
        /\ UNCHANGED <<maxRecords, writeGen, files, writer, clearing, cleared, reader, crashes>>
    BY <1>0, <1>1, CallLogAssumption DEF recordCall
  <2>2. Lines \subseteq Lines' /\ 0 .. calls \subseteq 0 .. calls'
    <3>1. calls <= calls' /\ calls' \in Nat
      BY <1>0, <2>1
    <3>2. Seq(1 .. calls) \subseteq Seq(1 .. calls') /\ 0 .. calls \subseteq 0 .. calls'
      <4> HIDE DEF TypeOK
      <4>1. QED
        BY <1>0, <3>1, LinesGrow
    <3>3. QED
      BY <3>2, Zenon DEF Lines
  <2>3. 1 .. calls' \subseteq Nat /\ calls + 1 \in 1 .. calls'
    BY <1>0, <2>1
  <2>4. /\ Append(records, calls + 1) \in Lines' /\ Append(pendingWrite, calls + 1) \in Lines'
    BY <2>2, <2>3, AppendedLine DEF Lines
  <2>5. /\ records' \in Lines' /\ Len(records') <= maxRecords
        /\ pendingWrite' \in Lines' /\ Len(pendingWrite') <= PendingMax
    BY <1>0, <1>1, <2>3, <2>4, NewestLines DEF recordCall, Append1, Lines
  <2>6. writer \in [pc : {"idle", "took"}, lines : Lines', gen : 0 .. writeGen]
    BY <2>2
  <2>7. clearing \in [pc : {"no", "main", "prev"}, upTo : 0 .. calls']
    BY <2>2
  <2>8. reader \in [pc : {"no", "main"}, tail : Tails \cup {0}, older : Lines', view : Lines']
    BY <2>2
  <2>9. main \in [there : BOOLEAN, lines : Lines'] /\ prev \in [there : BOOLEAN, lines : Lines']
    BY <2>2
  <2>10. QED
    BY <2>1, <2>2, <2>5, <2>6, <2>7, <2>8, <2>9
<1> USE DEF Lines
<1>2. CASE SetMaxRecords
  <2>1. PICK n \in RingSizes :
          /\ maxRecords' = n /\ records' = Newest(n, records)
          /\ UNCHANGED <<calls, pendingWrite, writeGen, files, writer, clearing, cleared,
                         reader, crashes>>
    BY <1>2 DEF SetMaxRecords
  <2>2. Newest(n, records) \in Lines /\ Len(Newest(n, records)) <= n
    BY <1>0, NewestLines
  <2>3. QED
    BY <2>1, <2>2
<1>3. CASE takePending
  BY <1>0, <1>3, EmptyLines, CallLogAssumption DEF takePending
<1>4. CASE writeToFile
  <2>1. main' \in Files /\ prev' \in Files /\ f' \in {"none", "log", "gone"}
    <3>1. CASE Stale
      BY <1>4, <3>1 DEF writeToFile, Files
    <3>2. CASE ~Stale
      <4>1. main' \in Files /\ prev' \in Files
        BY <1>4, <3>2, WriteEffect, WrittenType
      <4>2. f' \in {"none", "log", "gone"}
        BY <1>4, <3>2 DEF writeToFile
      <4>3. QED
        BY <4>1, <4>2
    <3>3. QED
      BY <3>1, <3>2
  <2>2. writer' \in [pc : {"idle", "took"}, lines : Lines, gen : 0 .. writeGen] /\ writer'.lines = << >>
    BY <1>0, <1>4, EmptyLines DEF writeToFile, Idle
  <2>3. UNCHANGED <<calls, mem, clearing, cleared, reader, crashes>>
    BY <1>4 DEF writeToFile
  <2>4. QED
    BY <2>1, <2>2, <2>3 DEF Files
<1>5. CASE Clear
  <2>1. writeGen' = writeGen + 1 /\ writeGen' \in 0 .. MaxClears
    BY <1>0, <1>5, CallLogAssumption DEF Clear
  <2>2. writer' \in [pc : {"idle", "took"}, lines : Lines, gen : 0 .. writeGen']
    BY <1>0, <1>5, <2>1 DEF Clear
  <2>3. clearing' \in [pc : {"no", "main", "prev"}, upTo : 0 .. calls]
    BY <1>0, <1>5 DEF Clear
  <2>4. f' = "none" /\ UNCHANGED <<calls, maxRecords, main, prev, cleared, reader, crashes>>
    BY <1>5 DEF Clear
  <2>5. /\ records' = << >> /\ pendingWrite' = << >> /\ Len(<< >>) = 0
        /\ writer'.pc = writer.pc /\ writer'.lines = writer.lines
    BY <1>5 DEF Clear
  <2>6. QED
    BY <1>0, <2>1, <2>2, <2>3, <2>4, <2>5, EmptyLines, CallLogAssumption
<1>6. CASE ClearMain
  <2>1. main' \in Files
    BY <1>6, EmptyFile DEF ClearMain, Files
  <2>2. clearing' \in [pc : {"no", "main", "prev"}, upTo : 0 .. calls]
    <3>1. NoClear \in [pc : {"no", "main", "prev"}, upTo : 0 .. calls]
      BY <1>0 DEF NoClear
    <3>2. [clearing EXCEPT !.pc = "prev"] \in [pc : {"no", "main", "prev"}, upTo : 0 .. calls]
      OBVIOUS
    <3>3. QED
      BY <1>6, <3>1, <3>2 DEF ClearMain
  <2>3. UNCHANGED <<calls, mem, f, prev, writer, cleared, reader, crashes>>
    BY <1>6 DEF ClearMain
  <2>4. QED
    BY <2>1, <2>2, <2>3 DEF Files
<1>7. CASE ClearPrev
  <2>1. prev' \in Files
    BY <1>7, EmptyFile DEF ClearPrev, Files
  <2>2. /\ clearing' \in [pc : {"no", "main", "prev"}, upTo : 0 .. calls]
        /\ cleared' \in 0 .. calls
    BY <1>0, <1>7 DEF ClearPrev, NoClear
  <2>3. UNCHANGED <<calls, mem, f, main, writer, reader, crashes>>
    BY <1>7 DEF ClearPrev
  <2>4. QED
    BY <2>1, <2>2, <2>3 DEF Files
<1>8. CASE removeLogFileRetry
  <2>1. main' \in Files /\ prev' \in Files
    BY <1>8, EmptyFile DEF removeLogFileRetry, Files
  <2>2. f' \in {"none", "log", "gone"} /\ UNCHANGED <<calls, mem, writer, clearing, cleared, reader, crashes>>
    BY <1>8 DEF removeLogFileRetry
  <2>3. QED
    BY <2>1, <2>2 DEF Files
<1>9. CASE ReadPrev
  <2>1. PICK n \in Tails :
          reader' = [pc |-> "main", tail |-> n, older |-> ReadPart(prev, n), view |-> << >>]
    BY <1>9 DEF ReadPrev
  <2>2. ReadPart(prev, n) \in Lines
    BY <1>0, PartRead DEF Files
  <2>3. reader' \in Readings
    BY <2>1, <2>2, EmptyLines DEF Readings
  <2>4. QED
    BY <1>9, <2>3 DEF ReadPrev, Readings
<1>10. CASE ReadMain
  <2> DEFINE view == Merged(reader.older, ReadPart(main, reader.tail), reader.tail)
  <2>1. view \in Lines
    BY <1>0, PartRead, PartsMerged DEF Files
  <2>2. reader' = [NoReading EXCEPT !.view = view]
    BY <1>10 DEF ReadMain
  <2> HIDE DEF view
  <2>3. reader' \in Readings
    BY <2>1, <2>2, EmptyLines DEF Readings, NoReading
  <2>4. QED
    BY <1>10, <2>3 DEF ReadMain, Readings
<1>11. CASE Restart
  <2>1. maxRecords' \in RingSizes
    BY <1>11, Limits DEF Restart
  <2>2. records' \in Lines /\ Len(records') <= maxRecords'
    <3>1. main.lines \in Seq(1 .. calls) /\ maxRecords' \in Nat
      BY <1>0, <2>1
    <3>2. records' = Newest(maxRecords', main.lines) /\ calls' = calls
      BY <1>11 DEF Restart
    <3>3. QED
      BY <1>0, <3>1, <3>2, NewestLines
  <2>3. writer' \in [pc : {"idle", "took"}, lines : Lines, gen : 0 .. writeGen'] /\ writer'.lines = << >>
    BY <1>11, EmptyLines DEF Restart, Idle
  <2>4. clearing' \in [pc : {"no", "main", "prev"}, upTo : 0 .. calls]
    BY <1>0, <1>11 DEF Restart, NoClear
  <2>5. crashes' \in 0 .. MaxCrashes /\ writeGen' \in 0 .. MaxClears
    BY <1>11, CallLogAssumption DEF Restart
  <2>6. QED
    BY <1>0, <1>11, <2>1, <2>2, <2>3, <2>4, <2>5, EmptyLines, CallLogAssumption DEF Restart
<1>12. CASE UNCHANGED vars
  BY <1>12 DEF vars
<1>13. QED
  BY <1>1, <1>2, <1>3, <1>4, <1>5, <1>6, <1>7, <1>8, <1>9, <1>10, <1>11, <1>12 DEF Next

\* The ring and the waiting lines keep to their limits, and only records that were appended
\* are anywhere, whatever fails (gateway_timeout.go's EventLog, core/manager/calllog.go).
THEOREM TypeCorrect == Spec => []TypeOK
<1>1. Init => TypeOK
  BY TypeInit
<1>2. TypeOK /\ [Next]_vars => TypeOK'
  BY TypeStep
<1>3. QED
  BY <1>1, <1>2, PTL DEF Spec

-----------------------------------------------------------------------------
(* What the steps do to the lines that the writer holds.                   *)

\* A batch taken before a clearing counts as gone.
Taken == IF Stale THEN << >> ELSE writer.lines

LEMMA TakenType == TypeOK => Taken \in Lines
BY EmptyLines DEF TypeOK, Taken, Lines

\* The clearing makes stale what the writer has: its generation is an earlier one.
LEMMA TakenSteps ==
  ASSUME TypeOK
  PROVE  /\ recordCall \/ SetMaxRecords \/ ClearMain \/ ClearPrev \/ removeLogFileRetry
              \/ ReadPrev \/ ReadMain \/ UNCHANGED vars
            => Taken' = Taken
         /\ takePending => Taken = << >> /\ Taken' = pendingWrite
         /\ writeToFile \/ Clear \/ Restart => Taken' = << >>
<1> USE DEF Taken, Stale, mem, files
<1>1. recordCall \/ SetMaxRecords \/ ClearMain \/ ClearPrev \/ removeLogFileRetry
        \/ ReadPrev \/ ReadMain \/ UNCHANGED vars
      => Taken' = Taken
  BY DEF recordCall, SetMaxRecords, ClearMain, ClearPrev, removeLogFileRetry, ReadPrev, ReadMain,
         vars
<1>2. takePending => Taken = << >> /\ Taken' = pendingWrite
  BY DEF takePending, TypeOK
<1>3. writeToFile \/ Restart => Taken' = << >>
  BY DEF writeToFile, Restart, Idle
<1>4. ASSUME Clear PROVE Taken' = << >>
  <2>1. writer.gen \in 0 .. writeGen /\ writeGen \in Nat
    BY Limits DEF TypeOK
  <2>2. writer' = writer /\ writeGen' = writeGen + 1
    BY <1>4 DEF Clear
  <2>3. writer'.gen # writeGen'
    BY <2>1, <2>2
  <2>4. QED
    BY <2>3
<1>5. QED
  BY <1>1, <1>2, <1>3, <1>4

\* Every record is a number up to the last one given.
LEMMA LinesInUse ==
  ASSUME TypeOK
  PROVE  /\ \A s \in {records, pendingWrite, main.lines, prev.lines, Taken, reader.older, reader.view} :
              s \in Seq(1 .. calls) /\ ToSet(s) \subseteq 1 .. calls
         /\ calls \in Nat /\ 1 .. calls \subseteq Nat
<1>1. \A s \in {records, pendingWrite, main.lines, prev.lines, Taken, reader.older, reader.view} :
        s \in Seq(1 .. calls)
  BY TakenType DEF TypeOK, Lines
<1>2. QED
  BY <1>1, ValuesOf, Limits

\* A new record comes after all others, in the ring and among the waiting lines.
LEMMA RecordAppended ==
  ASSUME calls \in Nat, NEW s \in Seq(1 .. calls), NEW n \in Nat,
         NEW t, t = Newest(n, Append(s, calls + 1))
  PROVE  ToSet(t) \subseteq ToSet(s) \cup {calls + 1} /\ (Rising(s) => Rising(t))
<1>1. s \in Seq(1 .. calls + 1) /\ calls + 1 \in 1 .. calls + 1 /\ 1 .. calls + 1 \subseteq Nat
  BY LinesGrow
<1>2. \A y \in ToSet(s) : y < calls + 1
  <2>1. ToSet(s) \subseteq 1 .. calls
    BY ValuesOf
  <2>2. QED
    BY <2>1
<1>3. /\ Append(s, calls + 1) \in Seq(1 .. calls + 1)
      /\ ToSet(Append(s, calls + 1)) = ToSet(s) \cup {calls + 1}
      /\ Rising(s) => Rising(Append(s, calls + 1))
  BY <1>1, <1>2, AppendedLine
<1>4. QED
  BY <1>1, <1>3, NewestLines

LEMMA RecordEffect ==
  ASSUME TypeOK, recordCall
  PROVE  /\ ToSet(records') \subseteq ToSet(records) \cup {calls + 1}
         /\ Rising(records) => Rising(records')
         /\ ToSet(pendingWrite') \subseteq ToSet(pendingWrite) \cup {calls + 1}
         /\ Rising(pendingWrite) => Rising(pendingWrite')
<1>1. records \in Seq(1 .. calls) /\ pendingWrite \in Seq(1 .. calls) /\ calls \in Nat
  BY LinesInUse
<1>2. /\ records' = Newest(maxRecords, Append(records, calls + 1))
      /\ pendingWrite' = Newest(PendingMax, Append(pendingWrite, calls + 1))
      /\ maxRecords \in Nat /\ PendingMax \in Nat
  BY Limits DEF recordCall, Append1
<1>3. ToSet(records') \subseteq ToSet(records) \cup {calls + 1} /\ (Rising(records) => Rising(records'))
  BY <1>1, <1>2, RecordAppended
<1>4. /\ ToSet(pendingWrite') \subseteq ToSet(pendingWrite) \cup {calls + 1}
      /\ Rising(pendingWrite) => Rising(pendingWrite')
  BY <1>1, <1>2, RecordAppended
<1>5. QED
  BY <1>3, <1>4

\* A ring that is cut, or filled from the log, holds part of what there was.
LEMMA RingEffect ==
  ASSUME TypeOK
  PROVE  /\ SetMaxRecords => ToSet(records') \subseteq ToSet(records)
                              /\ (Rising(records) => Rising(records'))
         /\ Restart => ToSet(records') \subseteq ToSet(main.lines)
                        /\ (Rising(main.lines) => Rising(records'))
<1>1. /\ records \in Seq(1 .. calls) /\ main.lines \in Seq(1 .. calls)
      /\ 1 .. calls \subseteq Nat /\ RingSizes \subseteq Nat
  BY LinesInUse, Limits
<1>2. SetMaxRecords => \E n \in Nat : records' = Newest(n, records)
  BY <1>1 DEF SetMaxRecords
<1>3. Restart => \E n \in Nat : records' = Newest(n, main.lines)
  BY <1>1, Limits DEF Restart
<1>4. \A n \in Nat : \A s \in {records, main.lines} :
        ToSet(Newest(n, s)) \subseteq ToSet(s) /\ (Rising(s) => Rising(Newest(n, s)))
  BY <1>1, NewestLines
<1>5. QED
  BY <1>2, <1>3, <1>4

\* The writer leaves of the two files one, the other or both, in their order, and adds what
\* it took to the newer one or loses it.
LEMMA WriteParts ==
  ASSUME TypeOK, NEW after \in Rotations, NEW p, NEW m, Written(after, p, m)
  PROVE  /\ \/ ToSet(p.lines) = {} /\ Rising(p.lines)
            \/ p.lines = prev.lines
            \/ p.lines = main.lines /\ ToSet(m.lines) \subseteq ToSet(writer.lines)
         /\ ToSet(m.lines) \subseteq ToSet(main.lines) \cup ToSet(writer.lines)
         /\ Rising(main.lines) /\ Rising(writer.lines) /\ Below(main.lines, writer.lines)
              => Rising(m.lines)
<1>1. /\ after \in {<<main, NoFile>>, <<NoFile, main>>, <<prev, main>>}
      /\ after[2].lines \in Lines /\ writer.lines \in Lines
  BY RotationTypes DEF TypeOK, Files
<1>2. /\ after[2].lines \o writer.lines \in Lines
      /\ ToSet(after[2].lines \o writer.lines) = ToSet(after[2].lines) \cup ToSet(writer.lines)
      /\ Rising(after[2].lines) /\ Rising(writer.lines) /\ Below(after[2].lines, writer.lines)
           => Rising(after[2].lines \o writer.lines)
  BY <1>1, Limits, JoinedLines DEF Lines
<1>3. m.lines \in {after[2].lines, after[2].lines \o writer.lines}
  BY <1>1, <1>2, FileType DEF Written
<1>4. after[2].lines \in {<< >>, main.lines} /\ p = after[1]
  BY <1>1, EmptyFile DEF Written
<1>5. CASE after[2].lines = << >>
  <2>1. Below(after[2].lines, writer.lines) /\ Rising(after[2].lines) /\ ToSet(after[2].lines) = {}
    BY <1>5, EmptyLines DEF Below
  <2>2. ToSet(m.lines) \subseteq ToSet(writer.lines)
    BY <1>2, <1>3, <2>1
  <2>3. Rising(writer.lines) => Rising(m.lines)
    BY <1>2, <1>3, <2>1
  <2>4. p.lines \in {main.lines, << >>, prev.lines}
    BY <1>1, <1>4, EmptyFile
  <2>5. QED
    BY <2>2, <2>3, <2>4, EmptyLines
<1>6. CASE after[2].lines = main.lines
  <2>1. ToSet(m.lines) \subseteq ToSet(main.lines) \cup ToSet(writer.lines)
    BY <1>2, <1>3, <1>6
  <2>2. Rising(main.lines) /\ Rising(writer.lines) /\ Below(main.lines, writer.lines)
              => Rising(m.lines)
    BY <1>2, <1>3, <1>6
  <2>3. p.lines \in {<< >>, prev.lines} \/ (p.lines = main.lines /\ after[2] = NoFile)
    BY <1>1, <1>4, EmptyFile
  <2>4. after[2] = NoFile => ToSet(m.lines) \subseteq ToSet(writer.lines)
    BY <1>2, <1>3, EmptyFile, EmptyLines
  <2>5. QED
    BY <2>1, <2>2, <2>3, <2>4, EmptyLines
<1>7. QED
  BY <1>4, <1>5, <1>6

-----------------------------------------------------------------------------
(* No record is kept or read twice or out of order.                        *)

\* Everything in s is older than what the writer has, what waits, and what t holds.
Precedes(s, t) == Below(s, t) /\ Below(s, Taken) /\ Below(s, pendingWrite)

OnDisk ==
  /\ Rising(prev.lines) /\ Rising(main.lines) /\ Rising(Taken) /\ Rising(pendingWrite)
  /\ Precedes(prev.lines, main.lines)
  /\ Below(main.lines, Taken) /\ Below(main.lines, pendingWrite) /\ Below(Taken, pendingWrite)

\* What a reader has of the older segment stays older than the newer one, whatever becomes of
\* both before it reads on: neither LogInOrder nor ReadInOrder says this, and the second
\* does not hold without.
InReader ==
  Rising(reader.older) /\ Precedes(reader.older, main.lines) /\ Rising(reader.view)

Ordered == OnDisk /\ Rising(records) /\ InReader

LEMMA OrderedInit == Init => Ordered
<1> SUFFICES ASSUME Init PROVE Ordered
  OBVIOUS
<1>1. /\ records = << >> /\ pendingWrite = << >> /\ main.lines = << >> /\ prev.lines = << >>
      /\ writer.lines = << >> /\ reader.older = << >> /\ reader.view = << >>
  BY EmptyFile DEF Init, Idle, NoReading
<1>2. Taken = << >>
  BY <1>1 DEF Taken
<1>3. QED
  BY <1>1, <1>2, EmptyLines DEF Ordered, OnDisk, InReader, Precedes, Below

\* The steps that only take lines away from the files, the writer or those that wait.
LEMMA OrderedLess ==
  ASSUME Ordered, reader' = reader,
         Rising(records) /\ Rising(main.lines) => Rising(records'),
         prev'.lines \in {prev.lines, << >>}, main'.lines \in {main.lines, << >>},
         Taken' \in {Taken, << >>}, pendingWrite' \in {pendingWrite, << >>}
  PROVE  Ordered'
<1>1. /\ Rising(prev'.lines) /\ Rising(main'.lines) /\ Rising(Taken') /\ Rising(pendingWrite')
      /\ Rising(records')
  BY EmptyLines DEF Ordered, OnDisk
<1>2. /\ ToSet(prev'.lines) \subseteq ToSet(prev.lines) /\ ToSet(main'.lines) \subseteq ToSet(main.lines)
      /\ ToSet(Taken') \subseteq ToSet(Taken) /\ ToSet(pendingWrite') \subseteq ToSet(pendingWrite)
  BY EmptyLines
<1>3. ASSUME NEW s, NEW t, NEW u, NEW v, Below(s, t),
             ToSet(u) \subseteq ToSet(s), ToSet(v) \subseteq ToSet(t)
      PROVE  Below(u, v)
  BY <1>3 DEF Below
<1>4. OnDisk'
  BY <1>1, <1>2, <1>3 DEF Ordered, OnDisk, Precedes
<1>5. InReader'
  BY <1>1, <1>2, <1>3 DEF Ordered, InReader, Precedes
<1>6. QED
  BY <1>1, <1>4, <1>5 DEF Ordered

LEMMA OrderedRecord == ASSUME TypeOK, Ordered, recordCall PROVE Ordered'
<1>1. /\ Taken' = Taken /\ UNCHANGED <<main, prev, reader>>
  BY TakenSteps DEF recordCall, files
<1>2. Rising(records') /\ Rising(pendingWrite')
  BY RecordEffect DEF Ordered, OnDisk
<1>3. ToSet(pendingWrite') \subseteq ToSet(pendingWrite) \cup {calls + 1}
  BY RecordEffect
<1>4. \A s \in {main.lines, prev.lines, Taken, reader.older} : \A x \in ToSet(s) : x < calls + 1
  BY LinesInUse
<1>5. \A s \in {main.lines, prev.lines, Taken, reader.older} : Below(s, pendingWrite)
  BY DEF Ordered, OnDisk, InReader, Precedes
<1>6. \A s \in {main.lines, prev.lines, Taken, reader.older} : Below(s, pendingWrite')
  BY <1>3, <1>4, <1>5 DEF Below
<1>7. QED
  BY <1>1, <1>2, <1>6 DEF Ordered, OnDisk, InReader, Precedes, Below

LEMMA OrderedTake == ASSUME TypeOK, Ordered, takePending PROVE Ordered'
<1>1. Taken = << >> /\ Taken' = pendingWrite /\ pendingWrite' = << >>
  BY TakenSteps DEF takePending
<1>2. UNCHANGED <<records, main, prev, reader>>
  BY DEF takePending, files
<1>3. QED
  BY <1>1, <1>2, EmptyLines DEF Ordered, OnDisk, InReader, Precedes, Below

LEMMA OrderedWrite == ASSUME TypeOK, Ordered, writeToFile PROVE Ordered'
<1>1. Taken' = << >> /\ UNCHANGED <<records, pendingWrite, reader>>
  BY TakenSteps DEF writeToFile, mem
<1>2. CASE Stale
  <2>1. UNCHANGED <<main, prev>>
    BY <1>2 DEF writeToFile, files
  <2>2. QED
    BY <1>1, <2>1, OrderedLess
<1>3. CASE ~Stale
  <2>1. PICK after \in Rotations : Written(after, prev', main')
    BY <1>3, WriteEffect
  <2>2. Taken = writer.lines
    BY <1>3 DEF Taken
  <2>3. /\ \/ ToSet(prev'.lines) = {} /\ Rising(prev'.lines)
           \/ prev'.lines = prev.lines
           \/ prev'.lines = main.lines /\ ToSet(main'.lines) \subseteq ToSet(Taken)
        /\ ToSet(main'.lines) \subseteq ToSet(main.lines) \cup ToSet(Taken)
        /\ Rising(main'.lines)
    BY <2>1, <2>2, WriteParts DEF Ordered, OnDisk
  <2>4. Rising(prev'.lines) /\ Below(prev'.lines, main'.lines) /\ Below(prev'.lines, pendingWrite)
    BY <2>3 DEF Ordered, OnDisk, Precedes, Below
  <2>5. Below(main'.lines, pendingWrite) /\ Below(reader.older, main'.lines)
    BY <2>3 DEF Ordered, OnDisk, InReader, Precedes, Below
  <2>6. \A s : Below(s, << >>) /\ Below(<< >>, s)
    BY EmptyLines DEF Below
  <2>7. Below(reader.older, pendingWrite) /\ Rising(records) /\ Rising(reader.older)
        /\ Rising(reader.view) /\ Rising(pendingWrite) /\ Rising(<< >>)
    BY EmptyLines DEF Ordered, OnDisk, InReader, Precedes
  <2> HIDE DEF Below
  <2>8. OnDisk'
    BY <1>1, <2>3, <2>4, <2>5, <2>6, <2>7 DEF OnDisk, Precedes
  <2>9. InReader'
    BY <1>1, <2>5, <2>6, <2>7 DEF InReader, Precedes
  <2>10. QED
    BY <1>1, <2>7, <2>8, <2>9 DEF Ordered
<1>4. QED
  BY <1>2, <1>3

LEMMA OrderedReadPrev == ASSUME TypeOK, Ordered, ReadPrev PROVE Ordered'
<1>1. PICK n \in Tails :
        reader' = [pc |-> "main", tail |-> n, older |-> ReadPart(prev, n), view |-> << >>]
  BY DEF ReadPrev
<1>2. Taken' = Taken /\ UNCHANGED <<records, main, prev, pendingWrite>>
  BY TakenSteps DEF ReadPrev, mem, files
<1>3. ToSet(reader'.older) \subseteq ToSet(prev.lines) /\ Rising(reader'.older) /\ Rising(reader'.view)
  <2>1. prev \in Files /\ n \in Nat /\ calls \in Nat
    BY Limits DEF TypeOK, Files
  <2>2. QED
    BY <1>1, <2>1, PartRead, EmptyLines DEF Ordered, OnDisk
<1>4. QED
  BY <1>2, <1>3 DEF Ordered, OnDisk, InReader, Precedes, Below

LEMMA OrderedReadMain == ASSUME TypeOK, Ordered, ReadMain PROVE Ordered'
<1> DEFINE newer == ReadPart(main, reader.tail)
           view == Merged(reader.older, newer, reader.tail)
<1>1. reader' = [NoReading EXCEPT !.view = view]
  BY DEF ReadMain
<1>2. Taken' = Taken /\ UNCHANGED <<records, main, prev, pendingWrite>>
  BY TakenSteps DEF ReadMain, mem, files
<1>3. main \in Files /\ reader.tail \in Nat /\ calls \in Nat /\ reader.older \in Lines
  BY Limits DEF TypeOK, Files
<1>4. newer \in Lines /\ ToSet(newer) \subseteq ToSet(main.lines) /\ Rising(newer)
  BY <1>3, PartRead DEF Ordered, OnDisk
<1>5. Below(reader.older, newer) /\ Rising(reader.older)
  BY <1>4 DEF Ordered, InReader, Precedes, Below
<1>6. Rising(view)
  BY <1>3, <1>4, <1>5, PartsMerged
<1> HIDE DEF view, newer
<1>7. reader'.older = << >> /\ reader'.view = view
  BY <1>1 DEF NoReading
<1>8. QED
  BY <1>2, <1>6, <1>7, EmptyLines DEF Ordered, OnDisk, InReader, Precedes, Below

LEMMA OrderedStep == TypeOK /\ Ordered /\ [Next]_vars => Ordered'
<1> SUFFICES ASSUME TypeOK, Ordered, [Next]_vars PROVE Ordered'
  OBVIOUS
<1>1. CASE SetMaxRecords
  BY <1>1, TakenSteps, RingEffect, OrderedLess DEF SetMaxRecords, files
<1>2. CASE Clear
  BY <1>2, TakenSteps, EmptyLines, OrderedLess DEF Clear
<1>3. CASE ClearMain
  BY <1>3, TakenSteps, EmptyFile, OrderedLess DEF ClearMain, mem
<1>4. CASE ClearPrev
  BY <1>4, TakenSteps, EmptyFile, OrderedLess DEF ClearPrev, mem
<1>5. CASE removeLogFileRetry
  BY <1>5, TakenSteps, EmptyFile, OrderedLess DEF removeLogFileRetry, mem
<1>6. CASE Restart
  BY <1>6, TakenSteps, RingEffect, OrderedLess DEF Restart
<1>7. CASE UNCHANGED vars
  BY <1>7, TakenSteps, OrderedLess DEF vars, mem, files
<1>8. QED
  BY <1>1, <1>2, <1>3, <1>4, <1>5, <1>6, <1>7, OrderedRecord, OrderedTake, OrderedWrite,
     OrderedReadPrev, OrderedReadMain DEF Next

LEMMA OrderedAlways == Spec => []Ordered
<1>1. Init => Ordered
  BY OrderedInit
<1>2. TypeOK /\ Ordered /\ [Next]_vars => Ordered'
  BY OrderedStep
<1>3. QED
  BY <1>1, <1>2, TypeCorrect, PTL DEF Spec

\* Whatever is dropped, rotated, lost, removed from outside or read again at a restart, the
\* two files with what waits for them, and the ring, hold every record at most once and in
\* the order of the calls (EventLog.writeToFile, takePending, LoadCallLogFromFile).
THEOREM LogKeepsOrder == Spec => []LogInOrder
<1>1. TypeOK /\ Ordered => LogInOrder
  <2> SUFFICES ASSUME TypeOK, Ordered PROVE LogInOrder
    OBVIOUS
  <2>1. /\ prev.lines \in Seq(1 .. calls) /\ main.lines \in Seq(1 .. calls) /\ 1 .. calls \subseteq Nat
        /\ Taken \in Seq(1 .. calls) /\ pendingWrite \in Seq(1 .. calls)
    BY LinesInUse
  <2>2. /\ Log \in Seq(1 .. calls) /\ Rising(Log)
        /\ ToSet(Log) = ToSet(prev.lines) \cup ToSet(main.lines)
    <3>1. Rising(prev.lines) /\ Rising(main.lines) /\ Below(prev.lines, main.lines)
      BY DEF Ordered, OnDisk, Precedes
    <3>2. QED
      BY <2>1, <3>1, JoinedLines, ZenonT(30) DEF Log
  <2>3. Waiting = Taken \o pendingWrite
    BY DEF Waiting, Taken
  <2>4. /\ Waiting \in Seq(1 .. calls) /\ Rising(Waiting)
        /\ ToSet(Waiting) = ToSet(Taken) \cup ToSet(pendingWrite)
    <3>1. Rising(Taken) /\ Rising(pendingWrite) /\ Below(Taken, pendingWrite)
      BY DEF Ordered, OnDisk
    <3>2. /\ Taken \o pendingWrite \in Seq(1 .. calls) /\ Rising(Taken \o pendingWrite)
          /\ ToSet(Taken \o pendingWrite) = ToSet(Taken) \cup ToSet(pendingWrite)
      BY <2>1, <3>1, JoinedLines, ZenonT(30)
    <3>3. QED
      BY <2>3, <3>2, Zenon
  <2>5. Below(Log, Waiting)
    BY <2>2, <2>4 DEF Ordered, OnDisk, Precedes, Below
  <2>6. Rising(Log \o Waiting)
    BY <2>1, <2>2, <2>4, <2>5, JoinedLines
  <2>7. QED
    BY <2>6 DEF LogInOrder, Ordered
<1>2. QED
  BY <1>1, TypeCorrect, OrderedAlways, PTL

\* A reader of the two segments gets no record twice and none out of order, though they are
\* rotated or cleared between the one and the other (Manager.ReadCallLog).
THEOREM ReadsInOrder == Spec => []ReadInOrder
<1>1. Ordered => ReadInOrder
  BY DEF Ordered, InReader, ReadInOrder
<1>2. QED
  BY <1>1, OrderedAlways, PTL

-----------------------------------------------------------------------------
(* What was cleared stays cleared.                                         *)

\* Everything there is is newer than what was cleared.
AllNewer ==
  \A s \in {records, prev.lines, main.lines, Taken, pendingWrite} : Above(s, cleared)

\* A clearing on its way has emptied the memory, made the writer's batch stale and kept the
\* writer out, and then removed the log: what is there by then is newer than all it covers.
\* It reports success only when the older segment is gone too.
ClearingNewer ==
  /\ clearing.pc # "no" => \A s \in {records, Taken, pendingWrite} : Above(s, clearing.upTo)
  /\ clearing.pc = "prev" => Above(main.lines, clearing.upTo)

Forgotten == AllNewer /\ ClearingNewer

LEMMA ForgottenInit == Init => Forgotten
<1> SUFFICES ASSUME Init PROVE Forgotten
  OBVIOUS
<1>1. /\ records = << >> /\ pendingWrite = << >> /\ main.lines = << >> /\ prev.lines = << >>
      /\ writer.lines = << >> /\ clearing.pc = "no"
  BY EmptyFile DEF Init, Idle, NoClear
<1>2. Taken = << >>
  BY <1>1 DEF Taken
<1>3. QED
  BY <1>1, <1>2, EmptyLines DEF Forgotten, AllNewer, ClearingNewer, Above

\* Steps that bring nothing back, while a clearing goes on as it was or ends.
LEMMA ForgottenLess ==
  ASSUME Forgotten, cleared' = cleared, clearing' \in {clearing, NoClear},
         ToSet(records') \subseteq ToSet(records),
         ToSet(prev'.lines) \subseteq ToSet(prev.lines),
         ToSet(main'.lines) \subseteq ToSet(main.lines),
         ToSet(Taken') \subseteq ToSet(Taken) \cup ToSet(pendingWrite),
         ToSet(pendingWrite') \subseteq ToSet(pendingWrite)
  PROVE  Forgotten'
<1>1. AllNewer'
  BY DEF Forgotten, AllNewer, Above
<1>2. ClearingNewer'
  BY DEF Forgotten, ClearingNewer, Above, NoClear
<1>3. QED
  BY <1>1, <1>2 DEF Forgotten

LEMMA ForgottenRecord == ASSUME TypeOK, Forgotten, recordCall PROVE Forgotten'
<1>1. Taken' = Taken /\ UNCHANGED <<main, prev, cleared, clearing>>
  BY TakenSteps DEF recordCall, files
<1>2. /\ ToSet(records') \subseteq ToSet(records) \cup {calls + 1}
      /\ ToSet(pendingWrite') \subseteq ToSet(pendingWrite) \cup {calls + 1}
  BY RecordEffect
<1>3. calls + 1 > cleared /\ calls + 1 > clearing.upTo
  <2>1. cleared \in 0 .. calls /\ clearing.upTo \in 0 .. calls /\ calls \in Nat
    BY Limits DEF TypeOK
  <2>2. QED
    BY <2>1
<1>4. AllNewer'
  BY <1>1, <1>2, <1>3 DEF Forgotten, AllNewer, Above
<1>5. ClearingNewer'
  BY <1>1, <1>2, <1>3 DEF Forgotten, ClearingNewer, Above
<1>6. QED
  BY <1>4, <1>5 DEF Forgotten

\* The writer writes only what is not stale, and not while a clearing is on.
LEMMA ForgottenWrite == ASSUME TypeOK, Forgotten, writeToFile PROVE Forgotten'
<1>1. Taken' = << >> /\ UNCHANGED <<records, pendingWrite, cleared, clearing>> /\ clearing.pc = "no"
  BY TakenSteps DEF writeToFile, mem
<1>2. CASE Stale
  BY <1>1, <1>2, EmptyLines, ForgottenLess DEF writeToFile, files
<1>3. CASE ~Stale
  <2>1. PICK after \in Rotations : Written(after, prev', main')
    BY <1>3, WriteEffect
  <2>2. Taken = writer.lines
    BY <1>3 DEF Taken
  <2>3. /\ ToSet(prev'.lines) \subseteq ToSet(prev.lines) \cup ToSet(main.lines)
        /\ ToSet(main'.lines) \subseteq ToSet(main.lines) \cup ToSet(Taken)
    BY <2>1, <2>2, WriteParts
  <2>4. AllNewer'
    BY <1>1, <2>3, EmptyLines DEF Forgotten, AllNewer, Above
  <2>5. QED
    BY <1>1, <2>4 DEF Forgotten, ClearingNewer
<1>4. QED
  BY <1>2, <1>3

LEMMA ForgottenClear == ASSUME TypeOK, Forgotten, Clear PROVE Forgotten'
<1>1. /\ Taken' = << >> /\ records' = << >> /\ pendingWrite' = << >> /\ clearing'.pc = "main"
      /\ UNCHANGED <<main, prev, cleared>>
  BY TakenSteps DEF Clear
<1>2. \A n : Above(<< >>, n)
  BY EmptyLines DEF Above
<1>3. QED
  BY <1>1, <1>2 DEF Forgotten, AllNewer, ClearingNewer

LEMMA ForgottenClearMain == ASSUME TypeOK, Forgotten, ClearMain PROVE Forgotten'
<1>1. Taken' = Taken /\ UNCHANGED <<records, pendingWrite, prev, cleared>>
  BY TakenSteps DEF ClearMain, mem
<1>2. CASE main' = NoFile /\ clearing' = [clearing EXCEPT !.pc = "prev"]
  <2>1. clearing'.upTo = clearing.upTo /\ clearing.pc = "main"
    BY <1>2 DEF ClearMain, TypeOK
  <2>2. main'.lines = << >> /\ \A n : Above(<< >>, n)
    BY <1>2, EmptyFile, EmptyLines DEF Above
  <2>3. QED
    BY <1>1, <2>1, <2>2 DEF Forgotten, AllNewer, ClearingNewer
<1>3. CASE main' = main /\ clearing' = NoClear
  BY <1>1, <1>3, ForgottenLess
<1>4. QED
  BY <1>2, <1>3 DEF ClearMain

LEMMA ForgottenClearPrev == ASSUME TypeOK, Forgotten, ClearPrev PROVE Forgotten'
<1>1. Taken' = Taken /\ UNCHANGED <<records, pendingWrite, main>> /\ clearing' = NoClear
  BY TakenSteps DEF ClearPrev, mem
<1>2. CASE prev' = NoFile /\ cleared' = clearing.upTo
  <2>1. prev'.lines = << >> /\ Above(<< >>, cleared')
    BY <1>2, EmptyFile, EmptyLines DEF Above
  <2>2. clearing.pc = "prev"
    BY DEF ClearPrev
  <2>3. AllNewer'
    BY <1>1, <1>2, <2>1, <2>2 DEF Forgotten, AllNewer, ClearingNewer
  <2>4. QED
    BY <1>1, <2>3 DEF Forgotten, ClearingNewer, NoClear
<1>3. CASE prev' = prev /\ cleared' = cleared
  BY <1>1, <1>3, ForgottenLess
<1>4. QED
  BY <1>2, <1>3 DEF ClearPrev

\* The new process reads back what is in the log, which is newer than all that was cleared.
LEMMA ForgottenRestart == ASSUME TypeOK, Forgotten, Restart PROVE Forgotten'
<1>1. /\ Taken' = << >> /\ pendingWrite' = << >> /\ clearing'.pc = "no"
      /\ UNCHANGED <<main, prev, cleared>> /\ ToSet(records') \subseteq ToSet(main.lines)
  BY TakenSteps, RingEffect DEF Restart, NoClear
<1>2. QED
  BY <1>1, EmptyLines DEF Forgotten, AllNewer, ClearingNewer, Above

LEMMA ForgottenStep == TypeOK /\ Forgotten /\ [Next]_vars => Forgotten'
<1> SUFFICES ASSUME TypeOK, Forgotten, [Next]_vars PROVE Forgotten'
  OBVIOUS
<1>1. CASE SetMaxRecords
  BY <1>1, TakenSteps, RingEffect, ForgottenLess DEF SetMaxRecords, files
<1>2. CASE takePending
  BY <1>2, TakenSteps, EmptyLines, ForgottenLess DEF takePending, files
<1>3. CASE removeLogFileRetry
  BY <1>3, TakenSteps, EmptyFile, EmptyLines, ForgottenLess DEF removeLogFileRetry, mem
<1>4. CASE ReadPrev \/ ReadMain
  BY <1>4, TakenSteps, ForgottenLess DEF ReadPrev, ReadMain, mem, files
<1>5. CASE UNCHANGED vars
  BY <1>5, TakenSteps, ForgottenLess DEF vars, mem, files
<1>6. QED
  BY <1>1, <1>2, <1>3, <1>4, <1>5, ForgottenRecord, ForgottenWrite, ForgottenClear,
     ForgottenClearMain, ForgottenClearPrev, ForgottenRestart DEF Next

\* Once a clearing has succeeded, no record it covered is in the ring, in either file or on
\* its way to one, in any process that reads the log again (EventLog.Clear, the generation
\* of writeToFile).
THEOREM ClearedForGood == Spec => []ClearedStaysCleared
<1>1. Init => Forgotten
  BY ForgottenInit
<1>2. TypeOK /\ Forgotten /\ [Next]_vars => Forgotten'
  BY ForgottenStep
<1>3. TypeOK /\ Forgotten => ClearedStaysCleared
  <2> SUFFICES ASSUME TypeOK, Forgotten PROVE ClearedStaysCleared
    OBVIOUS
  <2>1. /\ records \in Seq(1 .. calls) /\ 1 .. calls \subseteq Nat
        /\ prev.lines \in Seq(1 .. calls) /\ main.lines \in Seq(1 .. calls)
        /\ Taken \in Seq(1 .. calls) /\ pendingWrite \in Seq(1 .. calls)
    BY LinesInUse
  <2>2. Waiting = Taken \o pendingWrite
    BY DEF Waiting, Taken
  <2>3. Log \in Seq(1 .. calls) /\ ToSet(Log) = ToSet(prev.lines) \cup ToSet(main.lines)
    BY <2>1, JoinedLines, ZenonT(30) DEF Log
  <2>4. Waiting \in Seq(1 .. calls) /\ ToSet(Waiting) = ToSet(Taken) \cup ToSet(pendingWrite)
    <3>1. /\ Taken \o pendingWrite \in Seq(1 .. calls)
          /\ ToSet(Taken \o pendingWrite) = ToSet(Taken) \cup ToSet(pendingWrite)
      BY <2>1, JoinedLines, ZenonT(30)
    <3>2. QED
      BY <2>2, <3>1, Zenon
  <2>5. Above(records, cleared) /\ Above(Log, cleared) /\ Above(Waiting, cleared)
    BY <2>3, <2>4 DEF Forgotten, AllNewer, Above
  <2>6. \A s \in {records, Log, Waiting} : \A i \in DOMAIN s : s[i] \in ToSet(s)
    BY <2>1, <2>3, <2>4, ValuesOf
  <2>7. \A s \in {records, Log, Waiting} : \A i \in DOMAIN s : s[i] > cleared
    BY <2>5, <2>6 DEF Above
  <2>8. QED
    BY <2>7, Zenon DEF ClearedStaysCleared
<1>4. QED
  BY <1>1, <1>2, <1>3, TypeCorrect, PTL DEF Spec

-----------------------------------------------------------------------------
(* What a client of the event protocols makes of the events in flight:     *)
(* ReplyStream, for any protocols and any length of a reply.               *)

ItemKinds == {"text", "thinking", "call"}
PhaseNames == {"idle", "on", "over", "confused"}
EndNames == {"", "stop", "length", "content_filter", "tool_calls", "failed", "incomplete"}
EventNames == {"begin", "open", "delta", "close", "end", "frame"}
EventKinds == ItemKinds \cup {"", "args"}
HItems == [kind : ItemKinds, tool : Nat, data : Seq(Nat)]
Handlers ==
  [begun : BOOLEAN, items : Seq(HItems), open : SUBSET {"text", "thinking"},
   done : SUBSET Nat, status : EndNames, counted : BOOLEAN, ended : BOOLEAN]
Events ==
  [ev : EventNames, i : Nat, kind : EventKinds, tool : Nat, data : Seq(Nat), status : EndNames,
   output : Seq(HItems), named : BOOLEAN]
VItems ==
  [kind : ItemKinds, tool : Nat, data : Seq(Nat), open : BOOLEAN, whole : Seq(Nat),
   status : EndNames]
Views == [phase : PhaseNames, items : Seq(VItems), status : EndNames, output : Seq(HItems)]
States == [h : Handlers, es : Seq(Events)]

\* An event that the client, as it is, can take at its word: a step of EventStream.
Fine(cut, cl, e) ==
  \/ e.ev = "begin" /\ cl.phase = "idle"
  \/ e.ev = "open" /\ cl.phase = "on" /\ e.i = Len(cl.items) + 1 /\ e.kind \in ItemKinds
  \/ /\ e.ev = "delta" /\ cl.phase = "on" /\ e.data # << >>
     /\ e.i \in DOMAIN cl.items /\ cl.items[e.i].open
  \/ /\ e.ev = "close" /\ cl.phase = "on"
     /\ e.i \in DOMAIN cl.items /\ cl.items[e.i].open
  \/ /\ e.ev = "end"
     /\ \/ cl.phase = "on" /\ \A i \in DOMAIN cl.items : ~cl.items[i].open
        \/ cl.phase # "over" /\ cut

\* The events es, one fine after another, take the client from cl to v.
Course(cut, cl, es, v) ==
  \E tr : /\ tr[0] = cl /\ tr[Len(es)] = v
          /\ \A k \in 1..Len(es) : Fine(cut, tr[k - 1], es[k]) /\ tr[k] = Takes(tr[k - 1], es[k])

\* What the client will be when it has taken all events, by the handler's items.
View(v, begun, items) ==
  /\ v \in Views
  /\ v.phase = IF begun THEN "on" ELSE "idle"
  /\ items # << >> => begun
  /\ Len(v.items) = Len(items)
  /\ \A i \in 1..Len(items) : /\ v.items[i].kind = items[i].kind
                              /\ v.items[i].tool = items[i].tool
                              /\ v.items[i].data = items[i].data

\* With nothing in flight, the client stays as it is.
LEMMA CourseEmpty ==
  ASSUME NEW cut, NEW cl, NEW v
  PROVE  Course(cut, cl, << >>, v) <=> v = cl
<1>1. Len(<< >>) = 0 /\ \A k \in 1..0 : FALSE
  OBVIOUS
<1>2. ASSUME v = cl PROVE Course(cut, cl, << >>, v)
  <2> DEFINE tr == [k \in {0} |-> cl]
  <2>1. tr[0] = cl
    OBVIOUS
  <2>2. QED
    BY <1>1, <1>2, <2>1 DEF Course
<1>3. QED
  BY <1>1, <1>2 DEF Course

\* Events in flight one after the other.
LEMMA CourseJoin ==
  ASSUME NEW cut, NEW cl, NEW v, NEW w, NEW es \in Seq(Events), NEW fs \in Seq(Events),
         Course(cut, cl, es, v), Course(cut, v, fs, w)
  PROVE  Course(cut, cl, es \o fs, w)
<1>1. PICK a : /\ a[0] = cl /\ a[Len(es)] = v
               /\ \A k \in 1..Len(es) : Fine(cut, a[k - 1], es[k]) /\ a[k] = Takes(a[k - 1], es[k])
  BY DEF Course
<1>2. PICK b : /\ b[0] = v /\ b[Len(fs)] = w
               /\ \A k \in 1..Len(fs) : Fine(cut, b[k - 1], fs[k]) /\ b[k] = Takes(b[k - 1], fs[k])
  BY DEF Course
<1>3. PICK n : n = Len(es)
  OBVIOUS
<1>4. PICK m : m = Len(fs)
  OBVIOUS
<1>5. n \in Nat /\ m \in Nat
  BY <1>3, <1>4, LenProperties
<1>6. PICK t : t = es \o fs
  OBVIOUS
<1>7. Len(t) = n + m /\ \A k \in 1..(n + m) : t[k] = IF k <= n THEN es[k] ELSE fs[k - n]
  BY <1>3, <1>4, <1>6, ConcatProperties
<1> DEFINE tr == [k \in 0..(n + m) |-> IF k <= n THEN a[k] ELSE b[k - n]]
<1>8. tr[0] = cl /\ tr[n + m] = w
  <2>1. CASE m = 0
    BY <1>1, <1>2, <1>3, <1>4, <1>5, <2>1
  <2>2. CASE m # 0
    BY <1>1, <1>2, <1>3, <1>4, <1>5, <2>2
  <2>3. QED
    BY <2>1, <2>2
<1>9. ASSUME NEW k \in 1..(n + m)
      PROVE  Fine(cut, tr[k - 1], t[k]) /\ tr[k] = Takes(tr[k - 1], t[k])
  <2>1. CASE k <= n
    <3>1. k \in 1..n /\ k - 1 \in 0..(n + m) /\ k \in 0..(n + m)
      BY <1>5, <2>1
    <3>2. t[k] = es[k]
      BY <1>7, <2>1
    <3>3. tr[k] = a[k] /\ tr[k - 1] = a[k - 1]
      BY <1>5, <2>1, <3>1
    <3> HIDE DEF tr
    <3>4. QED
      BY <1>1, <1>3, <3>1, <3>2, <3>3
  <2>2. CASE ~(k <= n)
    <3>1. k - n \in 1..m /\ k - 1 \in 0..(n + m) /\ k \in 0..(n + m) /\ (k - 1) - n = (k - n) - 1
      BY <1>5, <2>2
    <3>2. t[k] = fs[k - n]
      BY <1>7, <2>2
    <3>3. tr[k] = b[k - n]
      BY <2>2, <3>1
    <3>4. tr[k - 1] = b[(k - n) - 1]
      <4>1. CASE k - 1 = n
        BY <1>1, <1>2, <1>3, <1>5, <3>1, <4>1
      <4>2. CASE k - 1 # n
        <5>1. ~(k - 1 <= n)
          BY <1>5, <2>2, <4>2
        <5>2. QED
          BY <3>1, <5>1
      <4>3. QED
        BY <4>1, <4>2
    <3> HIDE DEF tr
    <3>5. Fine(cut, b[(k - n) - 1], fs[k - n]) /\ b[k - n] = Takes(b[(k - n) - 1], fs[k - n])
      BY <1>2, <1>4, <3>1
    <3>6. QED
      BY <3>2, <3>3, <3>4, <3>5
  <2>3. QED
    BY <2>1, <2>2
<1> HIDE DEF tr
<1>10. QED
  BY <1>6, <1>7, <1>8, <1>9 DEF Course

\* One event in flight.
LEMMA CourseOne ==
  ASSUME NEW cut, NEW v, NEW e, Fine(cut, v, e)
  PROVE  Course(cut, v, <<e>>, Takes(v, e))
<1> DEFINE tr == [k \in {0, 1} |-> IF k = 0 THEN v ELSE Takes(v, e)]
<1>1. tr[0] = v /\ tr[1] = Takes(v, e)
  OBVIOUS
<1>2. Len(<<e>>) = 1 /\ <<e>>[1] = e /\ \A k \in 1..1 : k = 1 /\ k - 1 = 0
  OBVIOUS
<1> HIDE DEF tr
<1>3. QED
  BY <1>1, <1>2 DEF Course

\* One more event is put into flight.
LEMMA CourseMore ==
  ASSUME NEW cut, NEW cl, NEW v, NEW es \in Seq(Events), NEW e \in Events,
         Course(cut, cl, es, v), Fine(cut, v, e)
  PROVE  /\ Append(es, e) \in Seq(Events)
         /\ Course(cut, cl, Append(es, e), Takes(v, e))
<1>1. <<e>> \in Seq(Events) /\ Append(es, e) \in Seq(Events)
  OBVIOUS
<1>2. Append(es, e) = es \o <<e>>
  <2>1. Len(Append(es, e)) = Len(es) + 1 /\ Len(es \o <<e>>) = Len(es) + 1 /\ Len(es) \in Nat
    OBVIOUS
  <2>2. es \o <<e>> \in Seq(Events)
    BY <1>1, ConcatProperties
  <2>3. ASSUME NEW i \in 1..(Len(es) + 1) PROVE Append(es, e)[i] = (es \o <<e>>)[i]
    OBVIOUS
  <2>4. QED
    BY <1>1, <2>1, <2>2, <2>3, SeqEqual
<1>3. Course(cut, cl, es \o <<e>>, Takes(v, e))
  BY <1>1, CourseJoin, CourseOne
<1>4. QED
  BY <1>1, <1>2, <1>3

\* The first event in flight is taken.
LEMMA CourseNext ==
  ASSUME NEW cut, NEW cl, NEW v, NEW es \in Seq(Events), es # << >>, Course(cut, cl, es, v)
  PROVE  /\ Fine(cut, cl, Head(es))
         /\ Course(cut, Takes(cl, Head(es)), Tail(es), v)
<1>1. PICK a : /\ a[0] = cl /\ a[Len(es)] = v
               /\ \A k \in 1..Len(es) : Fine(cut, a[k - 1], es[k]) /\ a[k] = Takes(a[k - 1], es[k])
  BY DEF Course
<1>2. PICK n : n = Len(es)
  OBVIOUS
<1>3. n \in Nat \ {0}
  BY <1>2, EmptySeq
<1>4. PICK t : t = Tail(es)
  OBVIOUS
<1>5. Len(t) = n - 1 /\ (\A k \in 1..(n - 1) : t[k] = es[k + 1]) /\ Head(es) = es[1]
  BY <1>2, <1>4, HeadTailProperties
<1> DEFINE tr == [k \in 0..(n - 1) |-> a[k + 1]]
<1>6. tr[0] = a[1] /\ tr[n - 1] = v
  BY <1>1, <1>2, <1>3
<1>7. Fine(cut, cl, es[1]) /\ a[1] = Takes(cl, es[1])
  <2>1. 1 \in 1..Len(es) /\ 1 - 1 = 0
    BY <1>2, <1>3
  <2>2. QED
    BY <1>1, <2>1
<1>8. ASSUME NEW k \in 1..(n - 1)
      PROVE  Fine(cut, tr[k - 1], t[k]) /\ tr[k] = Takes(tr[k - 1], t[k])
  <2>1. k + 1 \in 1..Len(es) /\ (k + 1) - 1 = k /\ (k - 1) + 1 = k /\ k - 1 \in 0..(n - 1) /\ k \in 0..(n - 1)
    BY <1>2, <1>3
  <2>2. tr[k] = a[k + 1] /\ tr[k - 1] = a[k] /\ t[k] = es[k + 1]
    BY <1>5, <2>1
  <2> HIDE DEF tr
  <2>3. Fine(cut, a[(k + 1) - 1], es[k + 1]) /\ a[k + 1] = Takes(a[(k + 1) - 1], es[k + 1])
    BY <1>1, <2>1
  <2>4. QED
    BY <2>1, <2>2, <2>3
<1> HIDE DEF tr
<1>9. QED
  BY <1>4, <1>5, <1>6, <1>7, <1>8 DEF Course

-----------------------------------------------------------------------------
(* The events one by one. *)

\* What Event builds.
LEMMA EventFacts ==
  ASSUME NEW ev \in EventNames, NEW i \in Nat, NEW kind \in EventKinds, NEW tool \in Nat,
         NEW data \in Seq(Nat), NEW status \in EndNames,
         NEW e, e = Event(ev, i, Item(kind, tool), data, status)
  PROVE  /\ e \in Events /\ e.ev = ev /\ e.i = i /\ e.kind = kind /\ e.tool = tool
         /\ e.data = data /\ e.status = status /\ e.output = << >>
<1>1. << >> \in Seq(HItems)
  BY EmptySeq
<1>2. QED
  BY <1>1 DEF Event, Item, Events

IsEvent(e, ev, i, kind, tool, data, status) ==
  /\ e \in Events /\ e.ev = ev /\ e.i = i /\ e.kind = kind /\ e.tool = tool
  /\ e.data = data /\ e.status = status /\ e.output = << >>

\* The same, in one name.
LEMMA EventIs ==
  ASSUME NEW ev \in EventNames, NEW i \in Nat, NEW kind \in EventKinds, NEW tool \in Nat,
         NEW data \in Seq(Nat), NEW status \in EndNames
  PROVE  IsEvent(Event(ev, i, Item(kind, tool), data, status), ev, i, kind, tool, data, status)
<1>1. << >> \in Seq(HItems)
  BY EmptySeq
<1>2. QED
  BY <1>1 DEF Event, Item, Events, IsEvent

\* The types of a client.
LEMMA ViewType ==
  ASSUME NEW v \in Views
  PROVE  /\ v.items \in Seq(VItems) /\ Len(v.items) \in Nat
         /\ DOMAIN v.items = 1..Len(v.items)
         /\ \A x \in Seq(VItems) : /\ [v EXCEPT !.items = x] \in Views
                                   /\ [v EXCEPT !.items = x].items = x
                                   /\ [v EXCEPT !.items = x].phase = v.phase
                                   /\ [v EXCEPT !.items = x].status = v.status
<1>1. v.items \in Seq(VItems)
  BY DEF Views
<1>2. Len(v.items) \in Nat /\ DOMAIN v.items = 1..Len(v.items)
  BY <1>1, LenProperties
<1>3. QED
  BY <1>1, <1>2 DEF Views

\* The client takes the beginning of a message.
LEMMA Beginning ==
  ASSUME NEW v \in Views, NEW e \in Events, v.phase = "idle", e.ev = "begin",
         NEW w, w = Takes(v, e)
  PROVE  w \in Views /\ w.phase = "on" /\ w.items = v.items
<1>1. w = [v EXCEPT !.phase = "on"]
  BY DEF Takes
<1>2. QED
  BY <1>1 DEF Views, PhaseNames

\* What the client w has, once it has taken e, that it was without as v.
Opened(v, w, e) ==
  /\ w \in Views /\ w.phase = "on"
  /\ Len(w.items) = Len(v.items) + 1
  /\ \A j \in 1..Len(v.items) : w.items[j] = v.items[j]
  /\ w.items[e.i].kind = e.kind /\ w.items[e.i].tool = e.tool
  /\ w.items[e.i].data = << >> /\ w.items[e.i].open = TRUE

Longer(v, w, e) ==
  /\ w \in Views /\ w.phase = "on"
  /\ Len(w.items) = Len(v.items)
  /\ \A j \in 1..Len(v.items) : j # e.i => w.items[j] = v.items[j]
  /\ w.items[e.i].kind = v.items[e.i].kind /\ w.items[e.i].tool = v.items[e.i].tool
  /\ w.items[e.i].data = v.items[e.i].data \o e.data
  /\ w.items[e.i].open = TRUE /\ v.items[e.i].open = TRUE
  /\ w.items[e.i].status = v.items[e.i].status

Closed(v, w, e) ==
  /\ w \in Views /\ w.phase = "on"
  /\ Len(w.items) = Len(v.items)
  /\ \A j \in 1..Len(v.items) : j # e.i => w.items[j] = v.items[j]
  /\ w.items[e.i].kind = v.items[e.i].kind /\ w.items[e.i].tool = v.items[e.i].tool
  /\ w.items[e.i].data = v.items[e.i].data
  /\ w.items[e.i].open = FALSE /\ v.items[e.i].open = TRUE
  /\ w.items[e.i].status = e.status

\* It takes the opening of an item.
LEMMA Opening ==
  ASSUME NEW cut, NEW v \in Views, NEW e \in Events, e.ev = "open", Fine(cut, v, e),
         NEW w, w = Takes(v, e)
  PROVE  Opened(v, w, e)
<1>0. v.phase = "on" /\ e.i = Len(v.items) + 1 /\ e.kind \in ItemKinds
  BY DEF Fine
<1> DEFINE new == [kind |-> e.kind, tool |-> e.tool, data |-> << >>, open |-> TRUE,
                   whole |-> << >>, status |-> ""]
<1>1. new \in VItems
  <2>1. << >> \in Seq(Nat) /\ "" \in EndNames /\ e.tool \in Nat
    BY EmptySeq DEF EndNames, Events
  <2>2. QED
    BY <1>0, <2>1 DEF VItems
<1>2. v.items \in Seq(VItems)
  BY ViewType
<1>3. Append(v.items, new) \in Seq(VItems)
  BY <1>1, <1>2, AppendProperties
<1>4. w = [v EXCEPT !.items = Append(@, new)]
  BY <1>0 DEF Takes
<1>5. new.kind = e.kind /\ new.tool = e.tool /\ new.data = << >> /\ new.open = TRUE
  OBVIOUS
<1> HIDE DEF new
<1>6. w \in Views /\ w.phase = "on" /\ w.items = Append(v.items, new)
  <2>1. PICK x \in Seq(VItems) : x = Append(v.items, new)
    BY <1>3
  <2>2. w = [v EXCEPT !.items = x]
    BY <1>4, <2>1
  <2>3. w \in Views /\ w.phase = v.phase /\ w.items = x
    BY <2>2, ViewType
  <2>4. QED
    BY <1>0, <2>1, <2>3
<1>7. /\ Len(w.items) = Len(v.items) + 1 /\ w.items[e.i] = new
      /\ \A j \in 1..Len(v.items) : w.items[j] = v.items[j]
  BY <1>0, <1>1, <1>2, <1>6, AppendProperties
<1>8. QED
  BY <1>5, <1>6, <1>7 DEF Opened

\* It takes a delta.
LEMMA Growing ==
  ASSUME NEW cut, NEW v \in Views, NEW e \in Events, e.ev = "delta", Fine(cut, v, e),
         NEW w, w = Takes(v, e)
  PROVE  Longer(v, w, e)
<1>0. /\ v.phase = "on" /\ e.i \in 1..Len(v.items) /\ v.items[e.i].open /\ e.data # << >>
  BY ViewType DEF Fine
<1>1. v.items \in Seq(VItems) /\ DOMAIN v.items = 1..Len(v.items)
  BY ViewType
<1>2. v.items[e.i] \in VItems /\ v.items[e.i].open = TRUE
  <2>1. v.items[e.i] \in VItems
    BY <1>0, <1>1, ElementOfSeq
  <2>2. QED
    BY <1>0, <2>1 DEF VItems
<1> DEFINE new == [v.items[e.i] EXCEPT !.data = @ \o e.data]
<1>3. /\ new \in VItems /\ new.kind = v.items[e.i].kind /\ new.tool = v.items[e.i].tool
      /\ new.data = v.items[e.i].data \o e.data /\ new.open = TRUE
      /\ new.status = v.items[e.i].status
  <2>1. v.items[e.i].data \o e.data \in Seq(Nat)
    <3>1. v.items[e.i].data \in Seq(Nat) /\ e.data \in Seq(Nat)
      BY <1>2 DEF VItems, Events
    <3>2. QED
      BY <3>1, ConcatProperties
  <2>2. QED
    BY <1>2, <2>1 DEF VItems
<1>4. w = [v EXCEPT !.items = [v.items EXCEPT ![e.i] = new]]
  BY <1>0, <1>1 DEF Takes
<1> HIDE DEF new
<1>6. /\ [v.items EXCEPT ![e.i] = new] \in Seq(VItems)
      /\ Len([v.items EXCEPT ![e.i] = new]) = Len(v.items)
      /\ \A j \in 1..Len(v.items) :
            [v.items EXCEPT ![e.i] = new][j] = IF j = e.i THEN new ELSE v.items[j]
  BY <1>0, <1>1, <1>3, ExceptSeq
<1>7. w \in Views /\ w.phase = "on" /\ w.items = [v.items EXCEPT ![e.i] = new]
  <2>1. PICK x : x = [v.items EXCEPT ![e.i] = new]
    OBVIOUS
  <2>2. x \in Seq(VItems) /\ w = [v EXCEPT !.items = x]
    BY <1>4, <1>6, <2>1
  <2>3. w \in Views /\ w.phase = "on" /\ w.items = x
    BY <1>0, <2>2, ViewType
  <2>4. QED
    BY <2>1, <2>3
<1>8. w.items[e.i] = new
  BY <1>0, <1>6, <1>7
<1>9. QED
  BY <1>2, <1>3, <1>6, <1>7, <1>8 DEF Longer

\* It takes the closing of an item.
LEMMA Closes ==
  ASSUME NEW cut, NEW v \in Views, NEW e \in Events, e.ev = "close", Fine(cut, v, e),
         NEW w, w = Takes(v, e)
  PROVE  Closed(v, w, e)
<1>0. /\ v.phase = "on" /\ e.i \in 1..Len(v.items) /\ v.items[e.i].open
  BY ViewType DEF Fine
<1>1. v.items \in Seq(VItems) /\ DOMAIN v.items = 1..Len(v.items)
  BY ViewType
<1>2. v.items[e.i] \in VItems /\ v.items[e.i].open = TRUE
  <2>1. v.items[e.i] \in VItems
    BY <1>0, <1>1, ElementOfSeq
  <2>2. QED
    BY <1>0, <2>1 DEF VItems
<1> DEFINE new == [v.items[e.i] EXCEPT !.open = FALSE, !.whole = e.data, !.status = e.status]
<1>3. /\ new \in VItems /\ new.kind = v.items[e.i].kind /\ new.tool = v.items[e.i].tool
      /\ new.data = v.items[e.i].data /\ new.open = FALSE /\ new.status = e.status
  <2>1. e.data \in Seq(Nat) /\ e.status \in EndNames
    BY DEF Events
  <2>2. QED
    BY <1>2, <2>1 DEF VItems
<1>4. w = [v EXCEPT !.items = [v.items EXCEPT ![e.i] = new]]
  BY <1>0, <1>1 DEF Takes
<1> HIDE DEF new
<1>6. /\ [v.items EXCEPT ![e.i] = new] \in Seq(VItems)
      /\ Len([v.items EXCEPT ![e.i] = new]) = Len(v.items)
      /\ \A j \in 1..Len(v.items) :
            [v.items EXCEPT ![e.i] = new][j] = IF j = e.i THEN new ELSE v.items[j]
  BY <1>0, <1>1, <1>3, ExceptSeq
<1>7. w \in Views /\ w.phase = "on" /\ w.items = [v.items EXCEPT ![e.i] = new]
  <2>1. PICK x : x = [v.items EXCEPT ![e.i] = new]
    OBVIOUS
  <2>2. x \in Seq(VItems) /\ w = [v EXCEPT !.items = x]
    BY <1>4, <1>6, <2>1
  <2>3. w \in Views /\ w.phase = "on" /\ w.items = x
    BY <1>0, <2>2, ViewType
  <2>4. QED
    BY <2>1, <2>3
<1>8. w.items[e.i] = new
  BY <1>0, <1>6, <1>7
<1>9. QED
  BY <1>2, <1>3, <1>6, <1>7, <1>8 DEF Closed

\* It takes the terminal event.
LEMMA Ending ==
  ASSUME NEW v \in Views, v.phase # "over", NEW e \in Events, e.ev = "end",
         NEW w, w = Takes(v, e)
  PROVE  /\ w \in Views /\ w.phase = "over" /\ w.items = v.items /\ w.status = e.status
<1>1. w = [v EXCEPT !.phase = IF @ = "over" THEN "confused" ELSE "over",
                     !.status = e.status, !.output = e.output]
  BY DEF Takes
<1>2. e.status \in EndNames /\ e.output \in Seq(HItems)
  BY DEF Events
<1>3. QED
  BY <1>1, <1>2 DEF Views, PhaseNames

-----------------------------------------------------------------------------
(* What the handlers have in common. *)

\* The types of a handler with its events.
LEMMA HandlerType ==
  ASSUME NEW s \in States
  PROVE  /\ s.h \in Handlers /\ s.es \in Seq(Events)
         /\ s.h.items \in Seq(HItems) /\ Len(s.h.items) \in Nat
         /\ DOMAIN s.h.items = 1..Len(s.h.items)
         /\ s.h.status \in EndNames
<1>1. s.h \in Handlers /\ s.es \in Seq(Events)
  BY DEF States
<1>2. s.h.items \in Seq(HItems) /\ s.h.status \in EndNames
  BY <1>1 DEF Handlers
<1>3. QED
  BY <1>1, <1>2, LenProperties

\* A handler keeps its type when one of its variables is set.
LEMMA HandlerFacts ==
  ASSUME NEW hh \in Handlers
  PROVE  /\ \A x \in Seq(HItems) : [hh EXCEPT !.items = x] \in Handlers
         /\ \A x \in SUBSET {"text", "thinking"} : [hh EXCEPT !.open = x] \in Handlers
         /\ \A x \in SUBSET Nat : [hh EXCEPT !.done = x] \in Handlers
         /\ \A x \in EndNames : [hh EXCEPT !.status = x] \in Handlers
         /\ \A x \in BOOLEAN : [hh EXCEPT !.begun = x] \in Handlers
         /\ \A x \in BOOLEAN : [hh EXCEPT !.counted = x] \in Handlers
         /\ \A x \in BOOLEAN : [hh EXCEPT !.ended = x] \in Handlers
BY DEF Handlers

\* And so does a handler with its events, when the handler is set.
LEMMA StateFacts ==
  ASSUME NEW s \in States, NEW hh \in Handlers
  PROVE  /\ [s EXCEPT !.h = hh] \in States /\ [s EXCEPT !.h = hh].h = hh
         /\ [s EXCEPT !.h = hh].es = s.es
BY DEF States

\* What Put does.
LEMMA PutFacts ==
  ASSUME NEW s \in States, NEW e \in Events
  PROVE  Put(s, e) \in States /\ Put(s, e).h = s.h /\ Put(s, e).es = Append(s.es, e)
<1>1. Append(s.es, e) \in Seq(Events)
  BY HandlerType, AppendProperties
<1>2. QED
  BY <1>1 DEF Put, States

\* A fine event that is put behind the others is taken after them.
LEMMA PutCourse ==
  ASSUME NEW cut, NEW cl, NEW s \in States, NEW v, Course(cut, cl, s.es, v),
         NEW e \in Events, Fine(cut, v, e)
  PROVE  /\ Put(s, e) \in States /\ Put(s, e).h = s.h
         /\ Course(cut, cl, Put(s, e).es, Takes(v, e))
<1>1. s.es \in Seq(Events)
  BY HandlerType
<1>2. Course(cut, cl, Append(s.es, e), Takes(v, e))
  BY <1>1, CourseMore
<1>3. QED
  BY <1>2, PutFacts

\* The event that begins a message.
LEMMA BeginFacts ==
  ASSUME NEW e, e = Event("begin", 0, Item("", NoTool), << >>, "")
  PROVE  e \in Events /\ e.ev = "begin"
<1>1. << >> \in Seq(Nat) /\ << >> \in Seq(HItems)
  BY EmptySeq
<1>2. QED
  BY <1>1 DEF Event, Item, Events, EventKinds, EndNames, EventNames, NoTool

\* The message has begun, and the client that was to be v will have been told.
StartedAs(cut, cl, s, v) ==
  /\ Started(s) \in States /\ Started(s).h = [s.h EXCEPT !.begun = TRUE]
  /\ \E w : /\ Course(cut, cl, Started(s).es, w)
            /\ View(w, TRUE, s.h.items) /\ w.items = v.items

\* After Started the client will have the message begun.
LEMMA StartedCourse ==
  ASSUME NEW cut, NEW cl, NEW s \in States, NEW v,
         Course(cut, cl, s.es, v), View(v, s.h.begun, s.h.items)
  PROVE  StartedAs(cut, cl, s, v)
<1> USE DEF StartedAs
<1>1. s.h \in Handlers /\ s.es \in Seq(Events)
  BY HandlerType
<1>2. CASE s.h.begun
  <2>1. Started(s) = s /\ s.h = [s.h EXCEPT !.begun = TRUE]
    BY <1>1, <1>2 DEF Started, Handlers
  <2>2. View(v, TRUE, s.h.items)
    BY <1>2 DEF View
  <2>3. QED
    BY <2>1, <2>2
<1>3. CASE ~s.h.begun
  <2> DEFINE hh == [s.h EXCEPT !.begun = TRUE]
  <2>1. PICK e : e = Event("begin", 0, Item("", NoTool), << >>, "")
    OBVIOUS
  <2>2. e \in Events /\ e.ev = "begin"
    BY <2>1, BeginFacts
  <2>3. hh \in Handlers
    BY <1>1, HandlerFacts
  <2>4. Started(s) = Put([s EXCEPT !.h = hh], e)
    BY <1>3, <2>1 DEF Started
  <2> HIDE DEF hh
  <2>5. PICK r : r = [s EXCEPT !.h = hh]
    OBVIOUS
  <2>6. r \in States /\ r.h = hh /\ r.es = s.es
    BY <2>3, <2>5, StateFacts
  <2>7. v \in Views /\ v.phase = "idle"
    BY <1>3 DEF View
  <2>8. PICK w : w = Takes(v, e)
    OBVIOUS
  <2>9. Fine(cut, v, e) /\ w \in Views /\ w.phase = "on" /\ w.items = v.items
    BY <2>2, <2>7, <2>8, Beginning DEF Fine
  <2>10. View(w, TRUE, s.h.items)
    BY <2>9 DEF View
  <2>11. Put(r, e) \in States /\ Put(r, e).h = r.h /\ Course(cut, cl, Put(r, e).es, w)
    BY <2>2, <2>6, <2>8, <2>9, PutCourse
  <2>12. QED
    BY <2>4, <2>5, <2>6, <2>9, <2>10, <2>11 DEF hh
<1>4. QED
  BY <1>2, <1>3

\* A new item takes the next number, and the client adds it.
AddedAs(cut, cl, s, v, kind, tool) ==
  /\ Added(s, kind, tool) \in States
  /\ \E x, w :
        /\ x \in Seq(HItems)
        /\ Added(s, kind, tool).h = [s.h EXCEPT !.items = x]
        /\ Len(x) = Len(s.h.items) + 1
        /\ \A j \in 1..Len(s.h.items) : x[j] = s.h.items[j]
        /\ x[Len(s.h.items) + 1].kind = kind /\ x[Len(s.h.items) + 1].tool = tool
        /\ Course(cut, cl, Added(s, kind, tool).es, w)
        /\ View(w, TRUE, x)
        /\ \A j \in 1..Len(s.h.items) : w.items[j] = v.items[j]
        /\ w.items[Len(s.h.items) + 1].open = TRUE

\* After Added it will have the new item, open.
LEMMA AddedCourse ==
  ASSUME NEW cut, NEW cl, NEW s \in States, NEW v,
         Course(cut, cl, s.es, v), View(v, TRUE, s.h.items),
         NEW kind \in ItemKinds, NEW tool \in Nat
  PROVE  AddedAs(cut, cl, s, v, kind, tool)
<1>1. /\ s.h \in Handlers /\ s.es \in Seq(Events) /\ s.h.items \in Seq(HItems)
      /\ Len(s.h.items) \in Nat
  BY HandlerType
<1>2. PICK n : n = Len(s.h.items) + 1
  OBVIOUS
<1>3. PICK it : it = Content(kind, tool, << >>)
  OBVIOUS
<1>4. it \in HItems /\ it.kind = kind /\ it.tool = tool /\ it.data = << >>
  <2>1. << >> \in Seq(Nat)
    BY EmptySeq
  <2>2. QED
    BY <1>3, <2>1 DEF Content, HItems
<1>4x. PICK x : x = Append(s.h.items, Content(kind, tool, << >>))
  OBVIOUS
<1>5. /\ x \in Seq(HItems) /\ Len(x) = n /\ x[n] = it
      /\ \A j \in 1..Len(s.h.items) : x[j] = s.h.items[j]
  BY <1>1, <1>2, <1>3, <1>4, <1>4x, AppendProperties
<1>6. PICK e : e = Event("open", n, Item(kind, tool), << >>, "")
  OBVIOUS
<1>7. e \in Events /\ e.ev = "open" /\ e.i = n /\ e.kind = kind /\ e.tool = tool
  <2>1. PICK nil : nil = << >>
    OBVIOUS
  <2>2. PICK none : none = ""
    OBVIOUS
  <2>3. "open" \in EventNames /\ kind \in EventKinds /\ none \in EndNames
    BY <2>2 DEF EventNames, EventKinds, EndNames
  <2>4. n \in Nat
    BY <1>1, <1>2
  <2>5. nil \in Seq(Nat)
    BY <2>1, EmptySeq
  <2>6. PICK op \in EventNames : op = "open"
    BY <2>3
  <2>7. e = Event(op, n, Item(kind, tool), nil, none)
    BY <1>6, <2>1, <2>2, <2>6
  <2>8. QED
    BY <2>3, <2>4, <2>5, <2>6, <2>7, EventFacts
<1>8. PICK hh : hh = [s.h EXCEPT !.items = x]
  OBVIOUS
<1>9. hh \in Handlers
  BY <1>1, <1>5, <1>8, HandlerFacts
<1>10. PICK r : r = [s EXCEPT !.h = hh]
  OBVIOUS
<1>11. r \in States /\ r.h = hh /\ r.es = s.es
  BY <1>9, <1>10, StateFacts
<1>12. Added(s, kind, tool) = Put(r, e)
  BY <1>2, <1>4x, <1>6, <1>8, <1>10 DEF Added
<1>13. v \in Views /\ v.phase = "on" /\ Len(v.items) = Len(s.h.items)
  BY DEF View
<1>14. PICK w : w = Takes(v, e)
  OBVIOUS
<1>15. /\ Fine(cut, v, e)
       /\ w \in Views /\ w.phase = "on"
       /\ Len(w.items) = n
       /\ \A j \in 1..Len(s.h.items) : w.items[j] = v.items[j]
       /\ w.items[n].kind = kind /\ w.items[n].tool = tool
       /\ w.items[n].data = << >> /\ w.items[n].open = TRUE
  <2>1. Fine(cut, v, e)
    BY <1>2, <1>7, <1>13 DEF Fine
  <2>2. Opened(v, w, e)
    BY <1>7, <1>13, <1>14, <2>1, Opening
  <2>3. QED
    BY <1>2, <1>7, <1>13, <2>1, <2>2 DEF Opened
<1>16. View(w, TRUE, x)
  <2>1. ASSUME NEW i \in 1..Len(x)
        PROVE  /\ w.items[i].kind = x[i].kind
               /\ w.items[i].tool = x[i].tool
               /\ w.items[i].data = x[i].data
    <3>1. CASE i \in 1..Len(s.h.items)
      BY <1>5, <1>15, <3>1 DEF View
    <3>2. CASE i = n
      BY <1>4, <1>5, <1>15, <3>2
    <3>3. QED
      BY <1>1, <1>2, <1>5, <3>1, <3>2
  <2>2. QED
    BY <1>5, <1>15, <2>1 DEF View
<1>17. Put(r, e) \in States /\ Put(r, e).h = hh /\ Course(cut, cl, Put(r, e).es, w)
  BY <1>7, <1>11, <1>14, <1>15, PutCourse
<1>18. /\ x \in Seq(HItems) /\ Added(s, kind, tool) \in States
       /\ Added(s, kind, tool).h = [s.h EXCEPT !.items = x]
       /\ Course(cut, cl, Added(s, kind, tool).es, w)
  BY <1>5, <1>8, <1>12, <1>17
<1>19. /\ Len(x) = Len(s.h.items) + 1
       /\ \A j \in 1..Len(s.h.items) : x[j] = s.h.items[j]
       /\ x[Len(s.h.items) + 1].kind = kind /\ x[Len(s.h.items) + 1].tool = tool
       /\ \A j \in 1..Len(s.h.items) : w.items[j] = v.items[j]
       /\ w.items[Len(s.h.items) + 1].open = TRUE
  BY <1>2, <1>4, <1>5, <1>15
<1>20. QED
  BY <1>16, <1>18, <1>19, Zenon DEF AddedAs

\* Items and what the client has of them are what they were, but for their content.
Like(v, items, w, x) ==
  /\ Len(x) = Len(items)
  /\ \A j \in 1..Len(items) :
        /\ x[j].kind = items[j].kind /\ x[j].tool = items[j].tool
        /\ w.items[j].open = v.items[j].open /\ w.items[j].status = v.items[j].status

\* An item that is open grows, with the client's.
GrownAs(cut, cl, s, v, i, data) ==
  /\ Grown(s, i, data) \in States
  /\ \E x, w :
        /\ x \in Seq(HItems)
        /\ Grown(s, i, data).h = [s.h EXCEPT !.items = x]
        /\ Course(cut, cl, Grown(s, i, data).es, w)
        /\ View(w, TRUE, x)
        /\ Like(v, s.h.items, w, x)

\* After Grown the open item will be longer.
LEMMA GrownCourse ==
  ASSUME NEW cut, NEW cl, NEW s \in States, NEW v,
         Course(cut, cl, s.es, v), View(v, TRUE, s.h.items),
         NEW i \in 1..Len(s.h.items), v.items[i].open = TRUE, NEW data \in Seq(Nat)
  PROVE  GrownAs(cut, cl, s, v, i, data)
<1> USE DEF GrownAs
<1>1. /\ s.h \in Handlers /\ s.es \in Seq(Events) /\ s.h.items \in Seq(HItems)
      /\ Len(s.h.items) \in Nat
  BY HandlerType
<1>2. CASE data = << >>
  <2>1. Grown(s, i, data) = s
    BY <1>2 DEF Grown
  <2>2. s.h = [s.h EXCEPT !.items = s.h.items]
    BY <1>1 DEF Handlers
  <2>3. Like(v, s.h.items, v, s.h.items)
    BY DEF Like
  <2>4. QED
    BY <1>1, <2>1, <2>2, <2>3, Zenon
<1>3. CASE data # << >>
  <2>1. PICK it : it = s.h.items[i]
    OBVIOUS
  <2>2. it \in HItems /\ it.kind \in ItemKinds /\ it.tool \in Nat /\ it.data \in Seq(Nat)
    <3>1. it \in HItems
      BY <1>1, <2>1, ElementOfSeq
    <3>2. QED
      BY <3>1 DEF HItems
  <2>3. PICK e : e = Event("delta", i, Item(it.kind, it.tool), data, "")
    OBVIOUS
  <2>4. e \in Events /\ e.ev = "delta" /\ e.i = i /\ e.data = data
    <3>1. PICK none : none = ""
      OBVIOUS
    <3>2. "delta" \in EventNames /\ it.kind \in EventKinds /\ none \in EndNames
      BY <2>2, <3>1 DEF EventNames, EventKinds, EndNames, ItemKinds
    <3>3. i \in Nat
      OBVIOUS
    <3>4. e = Event("delta", i, Item(it.kind, it.tool), data, none)
      BY <2>3, <3>1
    <3>5. QED
      BY <2>2, <3>2, <3>3, <3>4, EventFacts
  <2>5. PICK new : new = [it EXCEPT !.data = it.data \o data]
    OBVIOUS
  <2>6. new \in HItems /\ new.kind = it.kind /\ new.tool = it.tool /\ new.data = it.data \o data
    <3>1. it.data \o data \in Seq(Nat)
      BY <2>2, ConcatProperties
    <3>2. QED
      BY <2>2, <2>5, <3>1 DEF HItems
  <2>7. PICK x : x = [s.h.items EXCEPT ![i] = new]
    OBVIOUS
  <2>8. /\ x \in Seq(HItems) /\ Len(x) = Len(s.h.items)
        /\ \A j \in 1..Len(s.h.items) : x[j] = IF j = i THEN new ELSE s.h.items[j]
    BY <1>1, <2>6, <2>7, ExceptSeq
  <2>9. PICK hh : hh = [s.h EXCEPT !.items = x]
    OBVIOUS
  <2>10. hh \in Handlers
    BY <1>1, <2>8, <2>9, HandlerFacts
  <2>11. PICK r : r = [s EXCEPT !.h = hh]
    OBVIOUS
  <2>12. r \in States /\ r.h = hh /\ r.es = s.es
    BY <2>10, <2>11, StateFacts
  <2>13. Grown(s, i, data) = Put(r, e)
    <3>1. [s EXCEPT !.h.items[i].data = @ \o data] = r
      BY <1>1, <2>1, <2>5, <2>7, <2>9, <2>11
    <3>2. QED
      BY <1>3, <2>1, <2>3, <3>1 DEF Grown
  <2>14. v \in Views /\ v.phase = "on" /\ Len(v.items) = Len(s.h.items)
    BY DEF View
  <2>15. PICK w : w = Takes(v, e)
    OBVIOUS
  <2>16. /\ Fine(cut, v, e)
         /\ w \in Views /\ w.phase = "on"
         /\ Len(w.items) = Len(s.h.items)
         /\ \A j \in 1..Len(s.h.items) : j # i => w.items[j] = v.items[j]
         /\ w.items[i].kind = v.items[i].kind /\ w.items[i].tool = v.items[i].tool
         /\ w.items[i].data = v.items[i].data \o data
         /\ w.items[i].open = TRUE /\ v.items[i].open = TRUE
         /\ w.items[i].status = v.items[i].status
    <3>1. Fine(cut, v, e)
      BY <1>3, <2>4, <2>14, ViewType DEF Fine
    <3>2. Longer(v, w, e)
      BY <2>4, <2>14, <2>15, <3>1, Growing
    <3>3. QED
      BY <2>4, <2>14, <3>1, <3>2 DEF Longer
  <2>17. ASSUME NEW j \in 1..Len(x)
         PROVE  /\ x[j].kind = s.h.items[j].kind /\ x[j].tool = s.h.items[j].tool
                /\ w.items[j].kind = x[j].kind
                /\ w.items[j].tool = x[j].tool
                /\ w.items[j].data = x[j].data
                /\ w.items[j].open = v.items[j].open
                /\ w.items[j].status = v.items[j].status
    <3>1. /\ v.items[j].kind = s.h.items[j].kind /\ v.items[j].tool = s.h.items[j].tool
          /\ v.items[j].data = s.h.items[j].data
      BY <2>8 DEF View
    <3>2. CASE j = i
      <4>1. x[j] = new /\ v.items[j].data = it.data
        BY <2>1, <2>8, <3>1, <3>2
      <4>2. QED
        BY <2>1, <2>6, <2>16, <3>1, <3>2, <4>1
    <3>3. CASE j # i
      BY <2>8, <2>16, <3>1, <3>3
    <3>4. QED
      BY <3>2, <3>3
  <2>18. View(w, TRUE, x)
    BY <2>8, <2>16, <2>17 DEF View
  <2>19. Put(r, e) \in States /\ Put(r, e).h = hh /\ Course(cut, cl, Put(r, e).es, w)
    BY <2>4, <2>12, <2>15, <2>16, PutCourse
  <2>20. Like(v, s.h.items, w, x)
    BY <2>8, <2>17 DEF Like
  <2>21. QED
    BY <2>8, <2>9, <2>13, <2>18, <2>19, <2>20, Zenon
<1>4. QED
  BY <1>2, <1>3

\* Of the client's items the i-th has been closed.
ClosedAt(v, w, items, i, status) ==
  /\ View(w, TRUE, items)
  /\ \A j \in 1..Len(items) : j # i => w.items[j] = v.items[j]
  /\ w.items[i].open = FALSE /\ w.items[i].status = status

\* An item that is open is closed, with the client's.
LEMMA ClosedCourse ==
  ASSUME NEW cut, NEW cl, NEW es \in Seq(Events), NEW v, NEW items \in Seq(HItems),
         Course(cut, cl, es, v), View(v, TRUE, items),
         NEW e \in Events, e.ev = "close", e.i \in 1..Len(items), v.items[e.i].open = TRUE
  PROVE  \E w : /\ Course(cut, cl, Append(es, e), w)
                /\ ClosedAt(v, w, items, e.i, e.status)
<1>1. v \in Views /\ v.phase = "on" /\ Len(v.items) = Len(items)
  BY DEF View
<1>2. PICK w : w = Takes(v, e)
  OBVIOUS
<1>3. Fine(cut, v, e)
  BY <1>1, ViewType DEF Fine
<1>4. /\ w \in Views /\ w.phase = "on"
      /\ Len(w.items) = Len(items)
      /\ \A j \in 1..Len(items) : j # e.i => w.items[j] = v.items[j]
      /\ w.items[e.i].kind = v.items[e.i].kind /\ w.items[e.i].tool = v.items[e.i].tool
      /\ w.items[e.i].data = v.items[e.i].data
      /\ w.items[e.i].open = FALSE /\ w.items[e.i].status = e.status
  <2>1. Closed(v, w, e)
    BY <1>1, <1>2, <1>3, Closes
  <2>2. QED
    BY <1>1, <2>1 DEF Closed
<1>5. View(w, TRUE, items)
  <2>1. ASSUME NEW j \in 1..Len(items)
        PROVE  /\ w.items[j].kind = items[j].kind
               /\ w.items[j].tool = items[j].tool
               /\ w.items[j].data = items[j].data
    BY <1>4 DEF View
  <2>2. QED
    BY <1>4, <2>1 DEF View
<1>6. Course(cut, cl, Append(es, e), w)
  BY <1>2, <1>3, CourseMore
<1>7. ClosedAt(v, w, items, e.i, e.status)
  BY <1>4, <1>5 DEF ClosedAt
<1>8. QED
  BY <1>6, <1>7

\* A set of natural numbers has a least element.
LEMMA Least ==
  ASSUME NEW S \in SUBSET Nat, S # {}
  PROVE  \E n \in S : \A k \in S : n <= k
<1>1. PICK n \in S : \A k \in S : ~(<<k, n>> \in OpToRel(<, Nat))
  BY NatLessThanWellFounded, WFMin
<1>2. \A k \in S : ~(k < n)
  BY <1>1 DEF OpToRel
<1>3. QED
  BY <1>2

\* A strict total order of S.
StrictOrder(S, R) ==
  /\ \A a \in S : <<a, a>> \notin R
  /\ \A a, b, c \in S : <<a, b>> \in R /\ <<b, c>> \in R => <<a, c>> \in R
  /\ \A a, b \in S : a = b \/ <<a, b>> \in R \/ <<b, a>> \in R

\* In a strict total order of a finite set, each position is somebody's.
LEMMA EachPlaceIsTaken ==
  ASSUME NEW S, IsFiniteSet(S), NEW R, StrictOrder(S, R),
         NEW rank, rank = [m \in S |-> Cardinality({k \in S : <<k, m>> \in R})]
  PROVE  /\ \A m \in S : rank[m] \in 0..(Cardinality(S) - 1)
         /\ \A a, b \in S : rank[a] < rank[b] => <<a, b>> \in R
         /\ \A i \in 0..(Cardinality(S) - 1) : \E m \in S : rank[m] = i
<1> DEFINE Prior(m) == {k \in S : <<k, m>> \in R}
           n == Cardinality(S)
<1> USE DEF StrictOrder
<1>1. n \in Nat /\ \A m \in S : IsFiniteSet(Prior(m)) /\ Cardinality(Prior(m)) \in Nat
  BY FS_CardinalityType, FS_Subset
<1>2. ASSUME NEW m \in S PROVE rank[m] \in 0..(n - 1)
  <2>1. IsFiniteSet(S \ {m}) /\ Cardinality(S \ {m}) = n - 1
    BY FS_RemoveElement
  <2>2. Prior(m) \in SUBSET (S \ {m})
    OBVIOUS
  <2>3. Cardinality(Prior(m)) <= n - 1
    <3> HIDE DEF Prior
    <3>1. QED
      BY <2>1, <2>2, FS_Subset
  <2>4. QED
    BY <1>1, <2>3
<1>3. ASSUME NEW a \in S, NEW b \in S, <<a, b>> \in R PROVE rank[a] < rank[b]
  <2>1. IsFiniteSet(Prior(a) \cup {a}) /\ Cardinality(Prior(a) \cup {a}) = Cardinality(Prior(a)) + 1
    <3>1. a \notin Prior(a)
      OBVIOUS
    <3>2. QED
      BY <1>1, <3>1, FS_AddElement
  <2>2. Prior(a) \cup {a} \in SUBSET Prior(b)
    BY <1>3
  <2>3. Cardinality(Prior(a) \cup {a}) <= Cardinality(Prior(b))
    BY <1>1, <2>2, FS_Subset
  <2>4. QED
    BY <1>1, <2>1, <2>3
<1>4. \A a, b \in S : rank[a] < rank[b] => <<a, b>> \in R
  <2> SUFFICES ASSUME NEW a \in S, NEW b \in S, rank[a] < rank[b] PROVE <<a, b>> \in R
    OBVIOUS
  <2>1. rank[a] \in Int /\ rank[b] \in Int
    BY <1>2
  <2>2. CASE a = b
    BY <2>1, <2>2
  <2>3. CASE <<b, a>> \in R
    BY <1>3, <2>1, <2>3
  <2>4. QED
    BY <2>2, <2>3
<1>5. ASSUME NEW i \in 0..(n - 1) PROVE \E m \in S : rank[m] = i
  <2> DEFINE T == 0..(n - 1)
  <2>1. rank \in Injection(S, T)
    <3>1. rank \in [S -> T]
      BY <1>2
    <3>2. ASSUME NEW a \in S, NEW b \in S, rank[a] = rank[b] PROVE a = b
      <4>1. rank[a] \in Int /\ rank[b] \in Int
        BY <1>2
      <4>2. CASE <<a, b>> \in R
        BY <1>3, <3>2, <4>1, <4>2
      <4>3. CASE <<b, a>> \in R
        BY <1>3, <3>2, <4>1, <4>3
      <4>4. QED
        BY <4>2, <4>3
    <3>3. QED
      BY <3>1, <3>2 DEF Injection, IsInjective
  <2>2. IsFiniteSet(T) /\ Cardinality(T) = n
    BY <1>1, FS_Interval
  <2>3. rank \in Surjection(S, T)
    BY <2>1, <2>2, FS_Injection
  <2>4. QED
    BY <2>3 DEF Surjection
<1>6. QED
  BY <1>2, <1>4, <1>5

\* So the set can be put in that order.
LEMMA OrderExists ==
  ASSUME NEW S, IsFiniteSet(S), NEW R, StrictOrder(S, R)
  PROVE  \E s \in [1..Cardinality(S) -> S] :
            \A i, j \in 1..Cardinality(S) : i < j => <<s[i], s[j]>> \in R
<1> DEFINE n == Cardinality(S)
           rank == [m \in S |-> Cardinality({k \in S : <<k, m>> \in R})]
           s == [i \in 1..n |-> CHOOSE m \in S : rank[m] = i - 1]
<1>1. /\ n \in Nat
      /\ \A a, b \in S : rank[a] < rank[b] => <<a, b>> \in R
      /\ \A i \in 0..(n - 1) : \E m \in S : rank[m] = i
  <2>1. n \in Nat
    BY FS_CardinalityType
  <2>2. rank = [m \in S |-> Cardinality({k \in S : <<k, m>> \in R})]
    OBVIOUS
  <2> HIDE DEF rank
  <2>3. /\ \A a, b \in S : rank[a] < rank[b] => <<a, b>> \in R
        /\ \A i \in 0..(Cardinality(S) - 1) : \E m \in S : rank[m] = i
    BY <2>2, EachPlaceIsTaken
  <2>4. QED
    BY <2>1, <2>3
<1> HIDE DEF rank, n
<1>2. \A i \in 1..n : s[i] \in S /\ rank[s[i]] = i - 1
  <2> SUFFICES ASSUME NEW i \in 1..n PROVE s[i] \in S /\ rank[s[i]] = i - 1
    OBVIOUS
  <2>1. \E m \in S : rank[m] = i - 1
    BY <1>1
  <2>2. QED
    BY <2>1
<1> HIDE DEF s
<1>3. \A i, j \in 1..n : i < j => <<s[i], s[j]>> \in R
  BY <1>1, <1>2
<1>4. s \in [1..n -> S]
  BY <1>2 DEF s
<1>5. QED
  BY <1>3, <1>4 DEF n

\* A list of the members of S, each once.
Lists(S, ts, n) ==
  /\ n \in Nat /\ ts \in [1..n -> S]
  /\ \A i, j \in 1..n : ts[i] = ts[j] => i = j
  /\ \A m \in S : \E i \in 1..n : ts[i] = m

\* Numbers have an order, and its list has each of them once.
LEMMA AscendingFacts ==
  ASSUME NEW S \in SUBSET Nat, IsFiniteSet(S)
  PROVE  Lists(S, Ascending(S), Cardinality(S))
<1>1. PICK n : n = Cardinality(S)
  OBVIOUS
<1>2. n \in Nat
  BY <1>1, FS_CardinalityType
<1>3. PICK a : a = Ascending(S)
  OBVIOUS
<1>4. a \in [1..n -> S] /\ \A i, j \in 1..n : i < j => a[i] < a[j]
  <2> DEFINE R == {p \in S \X S : p[1] < p[2]}
  <2>1. \A b, c \in S : <<b, c>> \in R <=> b < c
    OBVIOUS
  <2>2. StrictOrder(S, R)
    <3> HIDE DEF R
    <3>1. \A b \in S : <<b, b>> \notin R
      BY <2>1
    <3>2. \A b, c, d \in S : <<b, c>> \in R /\ <<c, d>> \in R => <<b, d>> \in R
      BY <2>1
    <3>3. \A b, c \in S : b = c \/ <<b, c>> \in R \/ <<c, b>> \in R
      <4> SUFFICES ASSUME NEW b \in S, NEW c \in S PROVE b = c \/ <<b, c>> \in R \/ <<c, b>> \in R
        OBVIOUS
      <4>1. b \in Nat /\ c \in Nat
        OBVIOUS
      <4>2. b = c \/ b < c \/ c < b
        BY <4>1
      <4>3. QED
        BY <2>1, <4>2
    <3>4. QED
      BY <3>1, <3>2, <3>3 DEF StrictOrder
  <2> HIDE DEF R
  <2>3. \E s \in [1..n -> S] : \A i, j \in 1..n : i < j => <<s[i], s[j]>> \in R
    BY <1>1, <2>2, OrderExists
  <2>4. \E s \in [1..n -> S] : \A i, j \in 1..n : i < j => s[i] < s[j]
    BY <2>1, <2>3
  <2>5. QED
    BY <1>1, <1>3, <2>4 DEF Ascending
<1>5. \A i, j \in 1..n : a[i] = a[j] => i = j
  <2> SUFFICES ASSUME NEW i \in 1..n, NEW j \in 1..n, a[i] = a[j] PROVE i = j
    OBVIOUS
  <2>1. a[i] \in Nat /\ a[j] \in Nat
    BY <1>4
  <2>2. ~(i < j) /\ ~(j < i)
    BY <1>4, <2>1
  <2>3. QED
    BY <1>2, <2>2
<1>6. \A m \in S : \E i \in 1..n : a[i] = m
  <2>1. a \in Injection(1..n, S)
    BY <1>4, <1>5 DEF Injection, IsInjective
  <2>2. IsFiniteSet(1..n) /\ Cardinality(1..n) = n
    BY <1>2, FS_Interval
  <2>3. a \in Surjection(1..n, S)
    BY <1>1, <2>1, <2>2, FS_Injection
  <2>4. QED
    BY <2>3 DEF Surjection
<1>7. Lists(S, a, n)
  BY <1>2, <1>4, <1>5, <1>6 DEF Lists
<1>8. QED
  BY <1>1, <1>3, <1>7

\* Of the client's items those in C have been closed.
AllClosed(v, w, items, C, status) ==
  /\ View(w, TRUE, items)
  /\ \A j \in 1..Len(items) : j \notin C => w.items[j] = v.items[j]
  /\ \A j \in C : w.items[j].open = FALSE /\ w.items[j].status = status

AllOpen(v, C) == \A i \in C : v.items[i].open = TRUE

\* The events that close the items of the list ts, of n items.
Closings(fs, ts, n, status) ==
  /\ fs \in Seq(Events) /\ Len(fs) = n
  /\ \A k \in 1..n : fs[k].ev = "close" /\ fs[k].i = ts[k] /\ fs[k].status = status

ClosedOff(cut, cl, es, v, items, C, status) ==
  \E w : Course(cut, cl, es, w) /\ AllClosed(v, w, items, C, status)

\* Three runs of events, one after the other.
LEMMA EventsJoin ==
  ASSUME NEW es \in Seq(Events), NEW a \in Seq(Events), NEW b \in Seq(Events)
  PROVE  (es \o a) \o b = es \o (a \o b)
BY ConcatAssociative

\* The items C, all open, are closed one by one.
LEMMA AllClosedCourse ==
  ASSUME NEW cut, NEW cl, NEW es \in Seq(Events), NEW v, NEW items \in Seq(HItems),
         Course(cut, cl, es, v), View(v, TRUE, items),
         NEW C \in SUBSET (1..Len(items)), AllOpen(v, C),
         NEW n, NEW ts, Lists(C, ts, n), NEW fs, NEW st, Closings(fs, ts, n, st)
  PROVE  ClosedOff(cut, cl, es \o fs, v, items, C, st)
<1>0. /\ n \in Nat /\ ts \in [1..n -> C]
      /\ \A i, j \in 1..n : ts[i] = ts[j] => i = j
      /\ \A m \in C : \E i \in 1..n : ts[i] = m
      /\ fs \in Seq(Events) /\ Len(fs) = n
      /\ \A k \in 1..n : fs[k].ev = "close" /\ fs[k].i = ts[k] /\ fs[k].status = st
      /\ \A i \in C : v.items[i].open = TRUE
  BY DEF Lists, Closings, AllOpen
<1> DEFINE Done(k) == {ts[m] : m \in 1..k}
           After(k, w) == /\ Course(cut, cl, es \o SubSeq(fs, 1, k), w)
                          /\ View(w, TRUE, items)
                          /\ \A j \in 1..Len(items) : j \notin Done(k) => w.items[j] = v.items[j]
                          /\ \A j \in Done(k) : w.items[j].open = FALSE /\ w.items[j].status = st
           Bad == {k \in 0..n : ~\E w : After(k, w)}
<1>1. After(0, v)
  <2>1. SubSeq(fs, 1, 0) = << >> /\ es \o << >> = es
    BY SubSeqEmpty, ConcatEmptySeq
  <2>2. Done(0) = {}
    OBVIOUS
  <2>3. QED
    BY <2>1, <2>2
<1>2. ASSUME NEW k \in 1..n, NEW w, After(k - 1, w)
      PROVE  \E x : After(k, x)
  <2>1. PICK i : i = ts[k]
    OBVIOUS
  <2>2. /\ i \in C /\ i \in 1..Len(items) /\ i \notin Done(k - 1)
        /\ Done(k) = Done(k - 1) \cup {i}
    BY <1>0, <2>1
  <2>3. PICK e : e = fs[k]
    OBVIOUS
  <2>4. e \in Events /\ e.ev = "close" /\ e.i = i /\ e.status = st
    BY <1>0, <2>1, <2>3, ElementOfSeq
  <2>5. PICK gs : gs = es \o SubSeq(fs, 1, k - 1)
    OBVIOUS
  <2>6. gs \in Seq(Events) /\ Append(gs, e) = es \o SubSeq(fs, 1, k)
    <3>1. SubSeq(fs, 1, k - 1) \in Seq(Events) /\ <<e>> \in Seq(Events)
      <4>1. \A m \in 1..(k - 1) : fs[m] \in Events
        BY <1>0, ElementOfSeq
      <4>2. QED
        BY <1>0, <2>4, <4>1, SubSeqProperties
    <3>2. gs \in Seq(Events) /\ Append(gs, e) = gs \o <<e>>
      BY <2>4, <2>5, <3>1, ConcatProperties, AppendIsConcat
    <3>3. SubSeq(fs, 1, k) = SubSeq(fs, 1, k - 1) \o <<e>>
      <4>1. 1 \in 1..Len(fs) /\ k \in 1..Len(fs)
        BY <1>0
      <4>2. QED
        BY <2>3, <4>1, SubSeqRecursiveSecond
    <3>4. (es \o SubSeq(fs, 1, k - 1)) \o <<e>> = es \o (SubSeq(fs, 1, k - 1) \o <<e>>)
      <4>1. PICK a, b : a = SubSeq(fs, 1, k - 1) /\ b = <<e>>
        OBVIOUS
      <4>2. a \in Seq(Events) /\ b \in Seq(Events)
        BY <3>1, <4>1
      <4>3. (es \o a) \o b = es \o (a \o b)
        BY <4>2, EventsJoin, Zenon
      <4>4. QED
        BY <4>1, <4>3
    <3>5. QED
      BY <2>5, <3>2, <3>3, <3>4
  <2>7. Course(cut, cl, gs, w) /\ View(w, TRUE, items) /\ w.items[i] = v.items[i]
    BY <1>2, <2>2, <2>5
  <2>8. w.items[i].open = TRUE
    BY <1>0, <2>2, <2>7
  <2> HIDE DEF Done
  <2>9. PICK x : Course(cut, cl, Append(gs, e), x) /\ ClosedAt(w, x, items, i, e.status)
    <3>1. e.i \in 1..Len(items) /\ w.items[e.i].open = TRUE
      BY <2>2, <2>4, <2>8
    <3>2. \E x : Course(cut, cl, Append(gs, e), x) /\ ClosedAt(w, x, items, e.i, e.status)
      BY <2>4, <2>6, <2>7, <3>1, ClosedCourse, ZenonT(30)
    <3>3. QED
      BY <2>4, <3>2
  <2>10. \A j \in 1..Len(items) : j \notin Done(k) => x.items[j] = v.items[j]
    BY <1>2, <2>2, <2>9 DEF ClosedAt
  <2>11. \A j \in Done(k) : x.items[j].open = FALSE /\ x.items[j].status = st
    <3> SUFFICES ASSUME NEW j \in Done(k)
                 PROVE  x.items[j].open = FALSE /\ x.items[j].status = st
      OBVIOUS
    <3>1. j \in 1..Len(items)
      <4>1. PICK m \in 1..k : j = ts[m]
        BY DEF Done
      <4>2. m \in 1..n
        BY <1>0
      <4>3. QED
        BY <1>0, <4>1, <4>2
    <3>2. CASE j = i
      BY <2>4, <2>9, <3>2 DEF ClosedAt
    <3>3. CASE j # i
      <4>1. j \in Done(k - 1) /\ x.items[j] = w.items[j]
        BY <2>2, <2>9, <3>1, <3>3 DEF ClosedAt
      <4>2. QED
        BY <1>2, <4>1
    <3>4. QED
      BY <3>2, <3>3
  <2>12. Course(cut, cl, es \o SubSeq(fs, 1, k), x) /\ View(x, TRUE, items)
    BY <2>6, <2>9 DEF ClosedAt
  <2>13. After(k, x)
    BY <2>10, <2>11, <2>12
  <2> HIDE DEF After
  <2>14. QED
    BY <2>13
<1> HIDE DEF After
<1>3. Bad = {}
  <2> SUFFICES ASSUME Bad # {} PROVE FALSE
    OBVIOUS
  <2>1. PICK k \in Bad : \A m \in Bad : k <= m
    <3>1. Bad \in SUBSET Nat
      BY <1>0
    <3> HIDE DEF Bad
    <3>2. QED
      BY <3>1, Least
  <2>2. k # 0 /\ k \in 0..n
    BY <1>1
  <2>3. k \in 1..n /\ k - 1 \in 0..n /\ ~(k <= k - 1)
    BY <1>0, <2>2
  <2>4. k - 1 \notin Bad
    BY <2>1, <2>3
  <2>5. PICK w : After(k - 1, w)
    BY <2>3, <2>4
  <2>6. QED
    BY <1>2, <2>3, <2>5
<1>4. PICK w : After(n, w)
  <2>1. n \in 0..n
    BY <1>0
  <2>2. QED
    BY <1>3, <2>1
<1>5. SubSeq(fs, 1, n) = fs /\ Done(n) = C
  <2>1. SubSeq(fs, 1, n) = fs
    BY <1>0, SubSeqFull
  <2>2. \A m \in C : m \in Done(n)
    BY <1>0
  <2>3. Done(n) \subseteq C
    BY <1>0
  <2> HIDE DEF Done
  <2>4. QED
    BY <2>1, <2>2, <2>3
<1> HIDE DEF Done
<1>6. Course(cut, cl, es \o fs, w)
  BY <1>4, <1>5 DEF After
<1>7. AllClosed(v, w, items, C, st)
  BY <1>4, <1>5 DEF After, AllClosed
<1>8. QED
  BY <1>6, <1>7 DEF ClosedOff

-----------------------------------------------------------------------------
(* claudeStreamHandler. *)

\* The message has begun.
Underway(hh) == hh.begun = TRUE

\* What the client will be, by the blocks that the handler has open.
ClaudeView(v, hh) ==
  /\ hh \in Handlers /\ hh.ended = FALSE
  /\ View(v, hh.begun, hh.items)
  /\ \A i \in 1..Len(hh.items) :
        v.items[i].open = (\/ hh.items[i].kind = "call"
                           \/ i = Len(hh.items) /\ hh.items[i].kind \in hh.open)
  /\ \A k \in hh.open : Len(hh.items) > 0 /\ hh.items[Len(hh.items)].kind = k

ClaudeGood(cut, cl, s) ==
  s \in States /\ \E v : Course(cut, cl, s.es, v) /\ ClaudeView(v, s.h)

\* The handler has returned, and the client will be told that it did and how.
Told(cut, cl, s, status) ==
  /\ s \in States /\ s.h.ended = TRUE
  /\ \E v : Course(cut, cl, s.es, v) /\ v \in Views /\ v.phase = "over" /\ v.status = status

\* What Index finds: an item of the kind and tool asked for, or none has them.
LEMMA IndexFacts ==
  ASSUME NEW hs, DOMAIN hs.items = 1..Len(hs.items), NEW kind, NEW tool,
         NEW i, i = Index(hs, kind, tool)
  PROVE  /\ i # 0 => /\ i \in 1..Len(hs.items)
                     /\ hs.items[i].kind = kind /\ hs.items[i].tool = tool
         /\ i = 0 => \A j \in 1..Len(hs.items) : ~(hs.items[j].kind = kind /\ hs.items[j].tool = tool)
<1> DEFINE at == {j \in DOMAIN hs.items : hs.items[j].kind = kind /\ hs.items[j].tool = tool}
<1>1. i = IF at = {} THEN 0 ELSE CHOOSE j \in at : TRUE
  BY DEF Index
<1>2. CASE at = {}
  BY <1>1, <1>2
<1>3. CASE at # {}
  <2>1. i \in at
    BY <1>1, <1>3
  <2>2. QED
    BY <2>1
<1>4. QED
  BY <1>2, <1>3

\* Blocks are begun, so the message has.
LEMMA ClaudeOnView ==
  ASSUME NEW v, NEW hh, ClaudeView(v, hh), Len(hh.items) > 0 \/ Underway(hh)
  PROVE  Underway(hh) /\ View(v, TRUE, hh.items)
<1>1. hh.begun \in BOOLEAN /\ hh.items \in Seq(HItems)
  BY DEF ClaudeView, Handlers
<1>2. hh.items # << >> \/ hh.begun
  BY <1>1, EmptySeq DEF Underway
<1>3. Underway(hh)
  BY <1>1, <1>2 DEF ClaudeView, View, Underway
<1>4. QED
  BY <1>3 DEF ClaudeView, Underway

\* message_start.
LEMMA ClaudeStarts ==
  ASSUME NEW cut, NEW cl, NEW s, ClaudeGood(cut, cl, s), NEW p, p = Started(s)
  PROVE  /\ ClaudeGood(cut, cl, p) /\ Underway(p.h)
         /\ p.h.open = s.h.open /\ p.h.items = s.h.items
<1>1. PICK v : Course(cut, cl, s.es, v) /\ ClaudeView(v, s.h)
  BY DEF ClaudeGood
<1>2. s \in States /\ s.h \in Handlers /\ View(v, s.h.begun, s.h.items)
  BY <1>1 DEF ClaudeGood, ClaudeView
<1>3. /\ p \in States /\ p.h = [s.h EXCEPT !.begun = TRUE]
      /\ \E w : /\ Course(cut, cl, p.es, w)
                /\ View(w, TRUE, s.h.items) /\ w.items = v.items
  <2>1. StartedAs(cut, cl, s, v)
    BY <1>1, <1>2, StartedCourse
  <2>2. QED
    BY <2>1 DEF StartedAs
<1>4. PICK w : Course(cut, cl, p.es, w) /\ View(w, TRUE, s.h.items) /\ w.items = v.items
  BY <1>3
<1>5. /\ p.h \in Handlers /\ Underway(p.h) /\ p.h.open = s.h.open /\ p.h.items = s.h.items
      /\ p.h.ended = s.h.ended
  BY <1>2, <1>3 DEF Handlers, Underway
<1>6. ClaudeView(w, p.h)
  BY <1>1, <1>4, <1>5 DEF ClaudeView, Underway
<1>7. QED
  BY <1>3, <1>4, <1>5, <1>6 DEF ClaudeGood

\* The handler s has become p, with the same blocks, of which open are still open.
ClaudeSo(cut, cl, s, p, open) ==
  /\ ClaudeGood(cut, cl, p) /\ (Underway(s.h) => Underway(p.h))
  /\ p.h.open = open /\ p.h.items = s.h.items

\* A block that the handler has open is closed, another one is left alone.
LEMMA ClaudeCloses ==
  ASSUME NEW cut, NEW cl, NEW s, ClaudeGood(cut, cl, s), NEW kind \in {"text", "thinking"}
  PROVE  ClaudeSo(cut, cl, s, ClaudeClose(s, kind), s.h.open \ {kind})
<1> USE DEF ClaudeSo
<1>0. PICK p : p = ClaudeClose(s, kind)
  OBVIOUS
<1>1. PICK v : Course(cut, cl, s.es, v) /\ ClaudeView(v, s.h)
  BY DEF ClaudeGood
<1>2. /\ s \in States /\ s.h \in Handlers /\ s.es \in Seq(Events)
      /\ s.h.items \in Seq(HItems) /\ Len(s.h.items) \in Nat
  BY HandlerType DEF ClaudeGood
<1>3. CASE kind \notin s.h.open
  <2>1. p = s
    BY <1>0, <1>3 DEF ClaudeClose
  <2>2. QED
    BY <1>0, <1>3, <2>1
<1>4. CASE kind \in s.h.open
  <2>1. PICK n : n = Len(s.h.items)
    OBVIOUS
  <2>2. n \in Nat \ {0} /\ s.h.items[n].kind = kind /\ \A k \in s.h.open : k = kind
    BY <1>1, <1>2, <1>4, <2>1 DEF ClaudeView
  <2>3. Underway(s.h) /\ View(v, TRUE, s.h.items)
    <3>1. Len(s.h.items) > 0
      BY <2>1, <2>2
    <3>2. QED
      BY <1>1, <3>1, ClaudeOnView
  <2>4. PICK e : e = Event("close", n, Item(kind, NoTool), << >>, "")
    OBVIOUS
  <2>5. e \in Events /\ e.ev = "close" /\ e.i = n
    BY <2>2, <2>4, EmptySeq DEF Event, Item, Events, EventNames, EventKinds, ItemKinds, EndNames, NoTool
  <2>6. PICK hh : hh = [s.h EXCEPT !.open = s.h.open \ {kind}]
    OBVIOUS
  <2>7. /\ hh \in Handlers /\ (Underway(s.h) => Underway(hh)) /\ hh.open = s.h.open \ {kind}
        /\ hh.items = s.h.items /\ hh.ended = s.h.ended /\ hh.open = {}
    BY <1>2, <2>2, <2>6 DEF Handlers, Underway
  <2>8. PICK r : r = [s EXCEPT !.h = hh]
    OBVIOUS
  <2>9. r \in States /\ r.h = hh /\ r.es = s.es
    BY <1>2, <2>7, <2>8, StateFacts
  <2>10. p = Put(r, e)
    BY <1>0, <1>4, <2>1, <2>4, <2>6, <2>8 DEF ClaudeClose
  <2>11. p \in States /\ p.h = hh /\ p.es = Append(s.es, e)
    BY <2>5, <2>9, <2>10, PutFacts
  <2>12. e.i \in 1..Len(s.h.items) /\ v.items[e.i].open = TRUE
    <3>1. v.items[n].open = (\/ s.h.items[n].kind = "call"
                             \/ n = Len(s.h.items) /\ s.h.items[n].kind \in s.h.open)
      <4>1. n \in 1..Len(s.h.items)
        BY <2>1, <2>2
      <4>2. QED
        BY <1>1, <4>1 DEF ClaudeView
    <3>2. QED
      BY <1>4, <2>1, <2>2, <2>5, <3>1
  <2>13. PICK w : Course(cut, cl, Append(s.es, e), w) /\ ClosedAt(v, w, s.h.items, e.i, e.status)
    BY <1>1, <1>2, <2>3, <2>5, <2>12, ClosedCourse
  <2>14. ASSUME NEW i \in 1..Len(hh.items)
         PROVE  w.items[i].open = (\/ hh.items[i].kind = "call"
                                   \/ i = Len(hh.items) /\ hh.items[i].kind \in hh.open)
    <3>1. CASE i = n
      BY <2>2, <2>5, <2>7, <2>13, <3>1 DEF ClosedAt
    <3>2. CASE i # n
      <4>1. w.items[i] = v.items[i]
        BY <2>5, <2>7, <2>13, <3>2 DEF ClosedAt
      <4>2. QED
        BY <1>1, <2>1, <2>7, <3>2, <4>1 DEF ClaudeView
    <3>3. QED
      BY <3>1, <3>2
  <2>15. View(w, hh.begun, hh.items) /\ hh.ended = FALSE
    BY <1>1, <2>3, <2>7, <2>13 DEF ClosedAt, ClaudeView, Underway
  <2>16. ClaudeView(w, hh)
    BY <2>7, <2>14, <2>15 DEF ClaudeView
  <2>17. QED
    BY <1>0, <2>7, <2>11, <2>13, <2>16 DEF ClaudeGood
<1>5. QED
  BY <1>3, <1>4

\* Then neither text nor thinking is open.
LEMMA ClaudeClosesBoth ==
  ASSUME NEW cut, NEW cl, NEW s, ClaudeGood(cut, cl, s)
  PROVE  ClaudeSo(cut, cl, s, ClaudeCloseBoth(s), {})
<1>1. PICK a : a = ClaudeClose(s, "thinking")
  OBVIOUS
<1>2. ClaudeSo(cut, cl, s, a, s.h.open \ {"thinking"})
  BY <1>1, ClaudeCloses
<1>3. PICK p : p = ClaudeClose(a, "text")
  OBVIOUS
<1>4. ClaudeSo(cut, cl, a, p, a.h.open \ {"text"})
  BY <1>2, <1>3, ClaudeCloses DEF ClaudeSo
<1>5. s.h.open \in SUBSET {"text", "thinking"}
  BY HandlerType DEF ClaudeGood, Handlers
<1>6. ClaudeSo(cut, cl, s, p, {})
  BY <1>2, <1>4, <1>5 DEF ClaudeSo
<1>7. QED
  BY <1>1, <1>3, <1>6 DEF ClaudeCloseBoth

\* The handler has a block more, the last one.
ClaudeNew(cut, cl, s, p, kind, tool, open) ==
  /\ ClaudeGood(cut, cl, p) /\ Underway(p.h) /\ p.h.open = open
  /\ Len(p.h.items) = Len(s.h.items) + 1
  /\ p.h.items[Len(p.h.items)].kind = kind /\ p.h.items[Len(p.h.items)].tool = tool

\* A block is begun when none is open but the calls'.
LEMMA ClaudeAdds ==
  ASSUME NEW cut, NEW cl, NEW s, ClaudeGood(cut, cl, s), Underway(s.h), s.h.open = {},
         NEW kind \in ItemKinds, NEW tool \in Nat,
         NEW O, O = IF kind = "call" THEN {} ELSE {kind},
         NEW r \in States, r.es = s.es, r.h.items = s.h.items, Underway(r.h),
         r.h.ended = FALSE, r.h.open = O
  PROVE  ClaudeNew(cut, cl, s, Added(r, kind, tool), kind, tool, O)
<1>0. PICK p : p = Added(r, kind, tool)
  OBVIOUS
<1>1. PICK v : Course(cut, cl, s.es, v) /\ ClaudeView(v, s.h)
  BY DEF ClaudeGood
<1>2. /\ s \in States /\ s.h \in Handlers /\ s.es \in Seq(Events)
      /\ s.h.items \in Seq(HItems) /\ Len(s.h.items) \in Nat
  BY HandlerType DEF ClaudeGood
<1>3. View(v, TRUE, s.h.items)
  BY <1>1, ClaudeOnView
<1>9. AddedAs(cut, cl, r, v, kind, tool)
  <2>1. Course(cut, cl, r.es, v) /\ View(v, TRUE, r.h.items)
    BY <1>1, <1>3
  <2>2. QED
    BY <2>1, AddedCourse
<1>10. PICK x, w :
          /\ x \in Seq(HItems)
          /\ p.h = [r.h EXCEPT !.items = x]
          /\ Len(x) = Len(r.h.items) + 1
          /\ \A j \in 1..Len(r.h.items) : x[j] = r.h.items[j]
          /\ x[Len(r.h.items) + 1].kind = kind /\ x[Len(r.h.items) + 1].tool = tool
          /\ Course(cut, cl, p.es, w)
          /\ View(w, TRUE, x)
          /\ \A j \in 1..Len(r.h.items) : w.items[j] = v.items[j]
          /\ w.items[Len(r.h.items) + 1].open = TRUE
  BY <1>0, <1>9 DEF AddedAs
<1>11. p \in States
  BY <1>0, <1>9 DEF AddedAs
<1>11a. /\ p.h \in Handlers /\ Underway(p.h) /\ p.h.open = O /\ p.h.items = x
        /\ p.h.ended = FALSE
  <2>1. r.h \in Handlers
    BY HandlerType
  <2>2. p.h \in Handlers
    BY <1>10, <2>1, HandlerFacts
  <2>3. p.h.begun = r.h.begun /\ p.h.open = r.h.open /\ p.h.items = x /\ p.h.ended = r.h.ended
    BY <1>10, <2>1 DEF Handlers
  <2>4. QED
    BY <2>2, <2>3 DEF Underway
<1>12. PICK n : n = Len(s.h.items)
  OBVIOUS
<1>13. /\ n \in Nat /\ Len(x) = n + 1 /\ x[n + 1].kind = kind /\ x[n + 1].tool = tool
       /\ \A j \in 1..n : x[j] = s.h.items[j]
  BY <1>2, <1>10, <1>12
<1>14. /\ Course(cut, cl, p.es, w)
       /\ View(w, TRUE, x)
       /\ \A j \in 1..n : w.items[j] = v.items[j]
       /\ w.items[n + 1].open = TRUE
  BY <1>10, <1>12
<1>15. ASSUME NEW i \in 1..Len(x)
       PROVE  w.items[i].open = (x[i].kind = "call" \/ (i = Len(x) /\ x[i].kind \in O))
  <2>1. CASE i = n + 1
    <3>2. w.items[i].open = TRUE
      BY <1>14, <2>1
    <3>3. x[i].kind = "call" \/ (i = Len(x) /\ x[i].kind \in O)
      BY <1>13, <2>1
    <3>4. QED
      BY <3>2, <3>3
  <2>2. CASE i # n + 1
    <3>1. i \in 1..n
      BY <1>13, <2>2
    <3>2. w.items[i] = v.items[i] /\ x[i] = s.h.items[i] /\ i # Len(x)
      BY <1>13, <1>14, <2>2, <3>1
    <3>3. v.items[i].open = (s.h.items[i].kind = "call")
      BY <1>1, <1>12, <3>1 DEF ClaudeView
    <3>4. QED
      BY <3>2, <3>3
  <2>3. QED
    BY <2>1, <2>2
<1>16. ClaudeView(w, p.h)
  <2>1. \A k \in O : Len(x) > 0 /\ x[Len(x)].kind = k
    BY <1>13
  <2>2. QED
    BY <1>11a, <1>14, <1>15, <2>1 DEF ClaudeView, Underway
<1>17. QED
  BY <1>0, <1>11, <1>11a, <1>12, <1>13, <1>14, <1>16 DEF ClaudeGood, ClaudeNew

\* A block that is open gets a delta.
LEMMA ClaudeGrows ==
  ASSUME NEW cut, NEW cl, NEW s, ClaudeGood(cut, cl, s),
         NEW i \in 1..Len(s.h.items),
         \/ s.h.items[i].kind = "call"
         \/ i = Len(s.h.items) /\ s.h.items[i].kind \in s.h.open,
         NEW data \in Seq(Nat)
  PROVE  ClaudeGood(cut, cl, Grown(s, i, data))
<1>0. PICK p : p = Grown(s, i, data)
  OBVIOUS
<1>1. PICK v : Course(cut, cl, s.es, v) /\ ClaudeView(v, s.h)
  BY DEF ClaudeGood
<1>2. /\ s \in States /\ s.h \in Handlers /\ s.es \in Seq(Events)
      /\ s.h.items \in Seq(HItems) /\ Len(s.h.items) \in Nat
  BY HandlerType DEF ClaudeGood
<1>3. Underway(s.h) /\ View(v, TRUE, s.h.items) /\ s.h.ended = FALSE
  <2>1. Len(s.h.items) > 0
    BY <1>2
  <2>2. Underway(s.h) /\ View(v, TRUE, s.h.items)
    BY <1>1, <2>1, ClaudeOnView
  <2>3. QED
    BY <1>1, <2>2 DEF ClaudeView
<1>4. v.items[i].open = TRUE
  BY <1>1 DEF ClaudeView
<1>5. GrownAs(cut, cl, s, v, i, data)
  BY <1>1, <1>2, <1>3, <1>4, GrownCourse
<1>6. PICK x, w : /\ x \in Seq(HItems) /\ p.h = [s.h EXCEPT !.items = x]
                  /\ Course(cut, cl, p.es, w)
                  /\ View(w, TRUE, x)
                  /\ Like(v, s.h.items, w, x)
  BY <1>0, <1>5 DEF GrownAs
<1>7. /\ p.h \in Handlers /\ Underway(p.h) /\ p.h.open = s.h.open /\ p.h.items = x
      /\ p.h.ended = FALSE
  BY <1>2, <1>3, <1>6 DEF Handlers, Underway
<1>8. ClaudeView(w, p.h)
  <2>1. ASSUME NEW j \in 1..Len(x)
        PROVE  w.items[j].open = (x[j].kind = "call" \/ (j = Len(x) /\ x[j].kind \in s.h.open))
    <3>1. v.items[j].open = (\/ s.h.items[j].kind = "call"
                             \/ j = Len(s.h.items) /\ s.h.items[j].kind \in s.h.open)
      BY <1>1, <1>6 DEF ClaudeView, Like
    <3>2. QED
      BY <1>6, <3>1 DEF Like
  <2>2. ASSUME NEW k \in s.h.open PROVE Len(x) > 0 /\ x[Len(x)].kind = k
    <3>1. Len(s.h.items) > 0 /\ s.h.items[Len(s.h.items)].kind = k
      BY <1>1 DEF ClaudeView
    <3>2. Len(s.h.items) \in 1..Len(s.h.items)
      BY <1>2, <3>1
    <3>3. QED
      BY <1>6, <3>1, <3>2 DEF Like
  <2>3. QED
    BY <1>6, <1>7, <2>1, <2>2 DEF ClaudeView, Underway
<1>9. QED
  BY <1>0, <1>5, <1>6, <1>7, <1>8 DEF ClaudeGood, GrownAs

\* A delta goes into the last block, of its kind and open.
LEMMA ClaudeWritesOn ==
  ASSUME NEW cut, NEW cl, NEW s, ClaudeGood(cut, cl, s), Underway(s.h),
         NEW kind \in {"text", "thinking"}, NEW other \in {"text", "thinking"}, kind # other,
         NEW data \in Seq(Nat)
  PROVE  ClaudeGood(cut, cl, ClaudeWrites(s, kind, other, data))
<1>1. PICK a : a = ClaudeClose(s, other)
  OBVIOUS
<1>2. /\ ClaudeGood(cut, cl, a) /\ Underway(a.h)
      /\ a.h.open = s.h.open \ {other} /\ a.h.items = s.h.items
  <2>1. ClaudeSo(cut, cl, s, a, s.h.open \ {other})
    BY <1>1, ClaudeCloses
  <2>2. QED
    BY <2>1 DEF ClaudeSo
<1>3. s.h.open \in SUBSET {"text", "thinking"}
  BY HandlerType DEF ClaudeGood, Handlers
<1>4. PICK b : b = ClaudeOpen(a, kind)
  OBVIOUS
<1>5. /\ ClaudeGood(cut, cl, b) /\ Underway(b.h)
      /\ Len(b.h.items) \in 1..Len(b.h.items)
      /\ b.h.items[Len(b.h.items)].kind \in b.h.open
  <2>1. CASE kind \in a.h.open
    <3>1. b = a
      BY <1>4, <2>1 DEF ClaudeOpen
    <3>2. PICK v : ClaudeView(v, a.h)
      BY <1>2 DEF ClaudeGood
    <3>3. Len(a.h.items) > 0 /\ a.h.items[Len(a.h.items)].kind = kind
      BY <2>1, <3>2 DEF ClaudeView
    <3>4. Len(a.h.items) \in Nat
      BY <1>2, HandlerType DEF ClaudeGood
    <3>5. QED
      BY <1>2, <2>1, <3>1, <3>3, <3>4
  <2>2. CASE kind \notin a.h.open
    <3>1. a.h.open = {}
      BY <1>2, <1>3, <2>2
    <3>2. PICK O : O = IF kind = "call" THEN {} ELSE {kind}
      OBVIOUS
    <3>3. O = {kind} /\ kind \in ItemKinds /\ a.h.open \cup {kind} = O
      BY <3>1, <3>2 DEF ItemKinds
    <3>4. PICK r : r = [a EXCEPT !.h.open = a.h.open \cup {kind}]
      OBVIOUS
    <3>5. PICK t \in Nat : t = NoTool
      BY DEF NoTool
    <3>5a. b = Added(r, kind, t)
      BY <1>4, <2>2, <3>4, <3>5 DEF ClaudeOpen
    <3>5b. /\ r \in States /\ r.es = a.es /\ r.h.items = a.h.items /\ Underway(r.h)
           /\ r.h.ended = FALSE /\ r.h.open = O
      <4>1. a \in States /\ a.h \in Handlers /\ a.h.ended = FALSE
        BY <1>2, HandlerType DEF ClaudeGood, ClaudeView
      <4>2. PICK hh : hh = [a.h EXCEPT !.open = O]
        OBVIOUS
      <4>3. r = [a EXCEPT !.h = hh]
        BY <3>3, <3>4, <4>2
      <4>4. /\ hh \in Handlers /\ hh.items = a.h.items /\ Underway(hh) /\ hh.ended = FALSE
            /\ hh.open = O
        BY <1>2, <3>3, <4>1, <4>2 DEF Handlers, Underway
      <4>5. r \in States /\ r.h = hh /\ r.es = a.es
        BY <4>1, <4>3, <4>4, StateFacts
      <4>6. QED
        BY <4>4, <4>5
    <3>6. /\ ClaudeGood(cut, cl, b) /\ Underway(b.h) /\ b.h.open = O
          /\ Len(b.h.items) = Len(a.h.items) + 1
          /\ b.h.items[Len(b.h.items)].kind = kind
      <4>1. ClaudeNew(cut, cl, a, b, kind, t, O)
        BY <1>2, <3>1, <3>2, <3>3, <3>5a, <3>5b, ClaudeAdds
      <4>2. QED
        BY <4>1 DEF ClaudeNew
    <3>7. Len(a.h.items) \in Nat
      BY <1>2, HandlerType DEF ClaudeGood
    <3>8. QED
      BY <3>3, <3>6, <3>7
  <2>3. QED
    BY <2>1, <2>2
<1>6. PICK n : n = Len(b.h.items)
  OBVIOUS
<1>7. PICK p : p = Grown(b, n, data)
  OBVIOUS
<1>8. ClaudeGood(cut, cl, p)
  BY <1>5, <1>6, <1>7, ClaudeGrows
<1>9. ClaudeWrites(s, kind, other, data) = p
  BY <1>1, <1>4, <1>6, <1>7 DEF ClaudeWrites
<1>10. QED
  BY <1>8, <1>9

\* A call's delta goes into the block of that call, which stays open.
LEMMA ClaudeToolOn ==
  ASSUME NEW cut, NEW cl, NEW s, ClaudeGood(cut, cl, s), Underway(s.h),
         NEW c, c.tool \in Nat, c.data \in Seq(Nat)
  PROVE  ClaudeGood(cut, cl, ClaudeTool(s, c))
<1>1. PICK a : a = ClaudeCloseBoth(s)
  OBVIOUS
<1>2. ClaudeGood(cut, cl, a) /\ Underway(a.h) /\ a.h.open = {}
  <2>1. ClaudeSo(cut, cl, s, a, {})
    BY <1>1, ClaudeClosesBoth
  <2>2. QED
    BY <2>1 DEF ClaudeSo
<1>3. PICK b : b = IF Index(a.h, "call", c.tool) # 0 THEN a ELSE Added(a, "call", c.tool)
  OBVIOUS
<1>4. PICK i : i = Index(b.h, "call", c.tool)
  OBVIOUS
<1>5. a \in States /\ DOMAIN a.h.items = 1..Len(a.h.items) /\ Len(a.h.items) \in Nat
  BY <1>2, HandlerType DEF ClaudeGood
<1>6. ClaudeGood(cut, cl, b) /\ i # 0
  <2>1. CASE Index(a.h, "call", c.tool) # 0
    BY <1>2, <1>3, <1>4, <2>1
  <2>2. CASE Index(a.h, "call", c.tool) = 0
    <3>1. PICK k \in ItemKinds : k = "call"
      BY DEF ItemKinds
    <3>2. PICK O : O = IF k = "call" THEN {} ELSE {k}
      OBVIOUS
    <3>3. PICK t \in Nat : t = c.tool
      OBVIOUS
    <3>4. b = Added(a, k, t)
      BY <1>3, <2>2, <3>1, <3>3
    <3>5. Underway(a.h) /\ a.h.ended = FALSE /\ a.h.open = O /\ a.h.open = {}
      BY <1>2, <3>1, <3>2 DEF ClaudeGood, ClaudeView
    <3>7. /\ ClaudeGood(cut, cl, b)
          /\ Len(b.h.items) = Len(a.h.items) + 1
          /\ b.h.items[Len(b.h.items)].kind = "call" /\ b.h.items[Len(b.h.items)].tool = c.tool
      <4>1. ClaudeNew(cut, cl, a, b, k, t, O)
        BY <1>2, <1>5, <3>2, <3>4, <3>5, ClaudeAdds
      <4>2. QED
        BY <3>1, <3>3, <4>1 DEF ClaudeNew
    <3>8. DOMAIN b.h.items = 1..Len(b.h.items)
      BY <3>7, HandlerType DEF ClaudeGood
    <3>9. i # 0
      <4>1. Len(b.h.items) \in 1..Len(b.h.items)
        BY <1>5, <3>7
      <4>2. QED
        BY <1>4, <3>7, <3>8, <4>1, IndexFacts
    <3>10. QED
      BY <3>7, <3>9
  <2>3. QED
    BY <2>1, <2>2
<1>7. DOMAIN b.h.items = 1..Len(b.h.items)
  BY <1>6, HandlerType DEF ClaudeGood
<1>8. i \in 1..Len(b.h.items) /\ b.h.items[i].kind = "call"
  BY <1>4, <1>6, <1>7, IndexFacts
<1>9. PICK p : p = Grown(b, i, c.data)
  OBVIOUS
<1>10. ClaudeGood(cut, cl, p)
  <2>1. PICK d \in Seq(Nat) : d = c.data
    OBVIOUS
  <2>2. p = Grown(b, i, d)
    BY <1>9, <2>1
  <2>3. QED
    BY <1>6, <1>8, <2>2, ClaudeGrows
<1>11. ClaudeTool(s, c) = p
  BY <1>1, <1>3, <1>4, <1>9 DEF ClaudeTool
<1>12. QED
  BY <1>10, <1>11

\* The terminal event, on a client whose items are closed or whose upstream was cut.
EndedAs(cut, cl, v, p, status) ==
  /\ p \in States /\ p.h.ended = TRUE
  /\ \E w : /\ Course(cut, cl, p.es, w) /\ w \in Views
            /\ w.phase = "over" /\ w.items = v.items /\ w.status = status

\* The terminal event may be sent once all items are closed, or after a cut.
LEMMA EndedCourse ==
  ASSUME NEW cut, NEW cl, NEW s \in States, NEW v \in Views, Course(cut, cl, s.es, v),
         \/ v.phase = "on" /\ \A i \in 1..Len(v.items) : v.items[i].open = FALSE
         \/ v.phase # "over" /\ cut = TRUE,
         NEW status \in EndNames, NEW output \in Seq(HItems)
  PROVE  EndedAs(cut, cl, v, Ended(s, status, output), status)
<1>1. s.h \in Handlers /\ s.es \in Seq(Events)
  BY HandlerType
<1>2. PICK e : e = [Event("end", 0, Item("", NoTool), << >>, status) EXCEPT !.output = output]
  OBVIOUS
<1>3. e \in Events /\ e.ev = "end" /\ e.status = status
  <2>1. << >> \in Seq(Nat) /\ << >> \in Seq(HItems)
    BY EmptySeq
  <2>2. QED
    BY <1>2, <2>1 DEF Event, Item, Events, EventKinds, EndNames, EventNames, NoTool
<1>4. PICK hh : hh = [s.h EXCEPT !.ended = TRUE]
  OBVIOUS
<1>5. hh \in Handlers /\ hh.ended = TRUE
  BY <1>1, <1>4 DEF Handlers
<1>6. PICK r : r = [s EXCEPT !.h = hh]
  OBVIOUS
<1>7. r \in States /\ r.h = hh /\ r.es = s.es
  BY <1>5, <1>6, StateFacts
<1>8. Ended(s, status, output) = Put(r, e)
  BY <1>2, <1>4, <1>6 DEF Ended
<1>9. PICK w : w = Takes(v, e)
  OBVIOUS
<1>10. Fine(cut, v, e)
  BY <1>3, ViewType DEF Fine
<1>11. w \in Views /\ w.phase = "over" /\ w.items = v.items /\ w.status = status
  BY <1>3, <1>9, Ending
<1>12. Put(r, e) \in States /\ Put(r, e).h = r.h /\ Course(cut, cl, Put(r, e).es, w)
  BY <1>3, <1>7, <1>9, <1>10, PutCourse
<1>13. QED
  BY <1>5, <1>7, <1>8, <1>11, <1>12 DEF EndedAs

\* Places in a list are finitely many numbers.
LEMMA FiniteNumbers ==
  ASSUME NEW n \in Nat, NEW C \in SUBSET (1..n)
  PROVE  C \in SUBSET Nat /\ IsFiniteSet(C)
<1>1. IsFiniteSet(1..n)
  BY FS_Interval
<1>2. IsFiniteSet(C)
  BY <1>1, FS_Subset
<1>3. C \in SUBSET Nat
  OBVIOUS
<1>4. QED
  BY <1>2, <1>3

\* A function on 1..n is a list.
LEMMA ListOf ==
  ASSUME NEW S, NEW n \in Nat, NEW s \in [1..n -> S]
  PROVE  s \in Seq(S) /\ Len(s) = n
  OBVIOUS

\* The calls' blocks are stopped in their order.
AllStopped(cut, cl, a, stops) ==
  /\ stops \in Seq(Events)
  /\ \E w : /\ Course(cut, cl, a.es \o stops, w) /\ w \in Views /\ w.phase = "on"
            /\ \A i \in 1..Len(w.items) : w.items[i].open = FALSE

\* The blocks of the calls are stopped, each once.
LEMMA ClaudeStopsCalls ==
  ASSUME NEW cut, NEW cl, NEW a, ClaudeGood(cut, cl, a), Underway(a.h), a.h.open = {},
         NEW tools, tools = Ascending(ToolItems(a.h)),
         NEW stops, stops = [k \in DOMAIN tools |->
                                Event("close", tools[k], Item("call", a.h.items[tools[k]].tool),
                                      << >>, "")]
  PROVE  AllStopped(cut, cl, a, stops)
<1>1. PICK v : Course(cut, cl, a.es, v) /\ ClaudeView(v, a.h)
  BY DEF ClaudeGood
<1>2. /\ a \in States /\ a.h \in Handlers /\ a.es \in Seq(Events)
      /\ a.h.items \in Seq(HItems) /\ Len(a.h.items) \in Nat
      /\ DOMAIN a.h.items = 1..Len(a.h.items)
  BY HandlerType DEF ClaudeGood
<1>3. PICK items \in Seq(HItems) : items = a.h.items
  BY <1>2
<1>4. PICK C : C = ToolItems(a.h)
  OBVIOUS
<1>5. C \in SUBSET (1..Len(items)) /\ \A i \in 1..Len(items) : i \in C <=> items[i].kind = "call"
  BY <1>2, <1>3, <1>4 DEF ToolItems
<1>6. C \in SUBSET Nat /\ IsFiniteSet(C)
  <2>1. PICK m \in Nat : m = Len(items)
    BY <1>2, <1>3
  <2>2. C \in SUBSET (1..m)
    BY <1>5, <2>1
  <2>3. QED
    BY <2>2, FiniteNumbers
<1>7. PICK n : n = Cardinality(C)
  OBVIOUS
<1>8. Lists(C, tools, n)
  BY <1>4, <1>6, <1>7, AscendingFacts
<1>8a. n \in Nat /\ tools \in [1..n -> C] /\ DOMAIN tools = 1..n
  BY <1>8 DEF Lists
<1>9. ASSUME NEW k \in 1..n
      PROVE  /\ stops[k] \in Events /\ stops[k].ev = "close" /\ stops[k].i = tools[k]
             /\ stops[k].status = ""
  <2>1. PICK m : m = tools[k]
    OBVIOUS
  <2>2. m \in 1..Len(items) /\ m \in Nat
    <3>1. m \in C
      BY <1>8a, <2>1
    <3>2. QED
      BY <1>5, <1>6, <3>1
  <2>3. PICK t : t = items[m].tool
    OBVIOUS
  <2>4. t \in Nat
    <3>1. items[m] \in HItems
      BY <2>2, ElementOfSeq
    <3>2. QED
      BY <2>3, <3>1 DEF HItems
  <2>5. PICK e : e = stops[k]
    OBVIOUS
  <2>6. PICK ev, nil, none, kind : ev = "close" /\ nil = << >> /\ none = "" /\ kind = "call"
    OBVIOUS
  <2>7. nil \in Seq(Nat) /\ none \in EndNames /\ kind \in EventKinds /\ ev \in EventNames
    BY <2>6, EmptySeq DEF EndNames, EventKinds, ItemKinds, EventNames
  <2>8. e = Event(ev, m, Item(kind, t), nil, none)
    BY <1>3, <1>8a, <2>1, <2>3, <2>5, <2>6
  <2>9. e \in Events /\ e.ev = ev /\ e.i = m /\ e.status = none
    <3>1. IsEvent(e, ev, m, kind, t, nil, none)
      BY <2>2, <2>4, <2>7, <2>8, EventIs
    <3>2. QED
      BY <3>1 DEF IsEvent
  <2>10. QED
    BY <2>1, <2>5, <2>6, <2>9
<1>10. stops \in Seq(Events) /\ Len(stops) = n
  <2>1. stops \in [1..n -> Events]
    BY <1>8a, <1>9
  <2>2. QED
    BY <1>8a, <2>1, ListOf
<1>11. Course(cut, cl, a.es, v) /\ View(v, TRUE, items)
  BY <1>1, <1>3, ClaudeOnView
<1>12. AllOpen(v, C)
  BY <1>1, <1>3, <1>5 DEF ClaudeView, AllOpen
<1>13. PICK none : none = ""
  OBVIOUS
<1>14. Closings(stops, tools, n, none)
  BY <1>9, <1>10, <1>13 DEF Closings
<1>15. PICK w : Course(cut, cl, a.es \o stops, w) /\ AllClosed(v, w, items, C, none)
  <2>1. PICK es \in Seq(Events) : es = a.es
    BY <1>2
  <2>2. Course(cut, cl, es, v)
    BY <1>11, <2>1
  <2>3. ClosedOff(cut, cl, es \o stops, v, items, C, none)
    BY <1>5, <1>8, <1>10, <1>11, <1>12, <1>14, <2>2, AllClosedCourse
  <2>4. QED
    BY <2>1, <2>3 DEF ClosedOff
<1>16. w \in Views /\ w.phase = "on" /\ Len(w.items) = Len(items)
  BY <1>15 DEF AllClosed, View
<1>17. ASSUME NEW i \in 1..Len(items) PROVE w.items[i].open = FALSE
  <2>1. CASE i \in C
    BY <1>15, <2>1 DEF AllClosed
  <2>2. CASE i \notin C
    <3>1. w.items[i] = v.items[i]
      BY <1>15, <2>2 DEF AllClosed
    <3>2. v.items[i].open = (\/ items[i].kind = "call"
                             \/ i = Len(items) /\ items[i].kind \in a.h.open)
      BY <1>1, <1>3 DEF ClaudeView
    <3>3. QED
      BY <1>5, <2>2, <3>1, <3>2
  <2>3. QED
    BY <2>1, <2>2
<1>18. QED
  BY <1>10, <1>15, <1>16, <1>17 DEF AllStopped

\* The finish reason ends the message: every block is stopped, and the client gets the reason.
LEMMA ClaudeFinishesTold ==
  ASSUME NEW cut, NEW cl, NEW s, ClaudeGood(cut, cl, s), Underway(s.h), NEW fin \in EndNames
  PROVE  Told(cut, cl, ClaudeFinishes(s, fin), fin)
<1>1. PICK a : a = ClaudeCloseBoth(s)
  OBVIOUS
<1>2. ClaudeGood(cut, cl, a) /\ Underway(a.h) /\ a.h.open = {}
  <2>1. ClaudeSo(cut, cl, s, a, {})
    BY <1>1, ClaudeClosesBoth
  <2>2. QED
    BY <2>1 DEF ClaudeSo
<1>3. PICK tools : tools = Ascending(ToolItems(a.h))
  OBVIOUS
<1>4. PICK stops : stops = [k \in DOMAIN tools |->
                               Event("close", tools[k], Item("call", a.h.items[tools[k]].tool),
                                     << >>, "")]
  OBVIOUS
<1>5. AllStopped(cut, cl, a, stops)
  BY <1>2, <1>3, <1>4, ClaudeStopsCalls
<1>6. PICK w : /\ Course(cut, cl, a.es \o stops, w) /\ w \in Views /\ w.phase = "on"
               /\ \A i \in 1..Len(w.items) : w.items[i].open = FALSE
  BY <1>5 DEF AllStopped
<1>7. PICK b : b = [a EXCEPT !.es = a.es \o stops]
  OBVIOUS
<1>8. b \in States /\ b.h = a.h /\ b.es = a.es \o stops
  <2>1. a \in States /\ a.es \in Seq(Events)
    BY <1>2, HandlerType DEF ClaudeGood
  <2>2. a.es \o stops \in Seq(Events)
    BY <1>5, <2>1, ConcatProperties DEF AllStopped
  <2>3. QED
    BY <1>7, <2>1, <2>2 DEF States
<1>9. ClaudeFinishes(s, fin) = Ended(b, fin, << >>)
  BY <1>1, <1>3, <1>4, <1>7 DEF ClaudeFinishes
<1>10. PICK nil \in Seq(HItems) : nil = << >>
  BY EmptySeq
<1>11. PICK p : p = Ended(b, fin, nil)
  OBVIOUS
<1>12. EndedAs(cut, cl, w, p, fin)
  BY <1>6, <1>8, <1>11, EndedCourse
<1>13. p = ClaudeFinishes(s, fin)
  BY <1>9, <1>10, <1>11
<1>14. QED
  BY <1>12, <1>13 DEF Told, EndedAs

\* The stream runs out only on a client whose upstream was cut.
LEMMA ClaudeRunsOutTold ==
  ASSUME NEW cut, cut = TRUE, NEW cl, NEW s, ClaudeGood(cut, cl, s)
  PROVE  Told(cut, cl, ClaudeRunsOut(s), "stop")
<1>1. PICK a : a = ClaudeCloseBoth(s)
  OBVIOUS
<1>2. ClaudeGood(cut, cl, a)
  <2>1. ClaudeSo(cut, cl, s, a, {})
    BY <1>1, ClaudeClosesBoth
  <2>2. QED
    BY <2>1 DEF ClaudeSo
<1>3. PICK v : Course(cut, cl, a.es, v) /\ ClaudeView(v, a.h)
  BY <1>2 DEF ClaudeGood
<1>4. a \in States /\ v \in Views /\ v.phase # "over"
  BY <1>2, <1>3 DEF ClaudeGood, ClaudeView, View
<1>5. PICK nil \in Seq(HItems) : nil = << >>
  BY EmptySeq
<1>6. PICK st \in EndNames : st = "stop"
  BY DEF EndNames
<1>7. PICK p : p = Ended(a, st, nil)
  OBVIOUS
<1>8. EndedAs(cut, cl, v, p, st)
  BY <1>3, <1>4, <1>7, EndedCourse
<1>9. p = ClaudeRunsOut(s)
  BY <1>1, <1>5, <1>6, <1>7 DEF ClaudeRunsOut
<1>10. QED
  BY <1>6, <1>8, <1>9 DEF Told, EndedAs

-----------------------------------------------------------------------------
(* responsesStreamHandler. *)

\* What the client will be, by the items that the handler has closed.
RespView(v, hh) ==
  /\ hh \in Handlers /\ hh.ended = FALSE
  /\ View(v, hh.begun, hh.items)
  /\ hh.done \subseteq 1..Len(hh.items)
  /\ \A i \in 1..Len(hh.items) : v.items[i].open = (i \notin hh.done)
  /\ \A i \in hh.done : v.items[i].status = hh.status
  /\ \A i, j \in 1..Len(hh.items) : hh.items[i].kind = hh.items[j].kind => hh.items[i].kind = "call" \/ i = j
  /\ \A i \in 1..Len(hh.items) : hh.items[i].kind = "call" \/ hh.items[i].tool = NoTool

RespGood(cut, cl, s) ==
  s \in States /\ \E v : Course(cut, cl, s.es, v) /\ RespView(v, s.h)

\* The handler has returned, and the client will be told that it did and how, item by item.
RespTold(cut, cl, s, status) ==
  /\ s \in States /\ s.h.ended = TRUE
  /\ \E v : /\ Course(cut, cl, s.es, v) /\ v \in Views /\ v.phase = "over" /\ v.status = status
            /\ \A i \in 1..Len(v.items) : v.items[i].status = status

\* Items are there, so the response has begun.
LEMMA RespOnView ==
  ASSUME NEW v, NEW hh, RespView(v, hh), Len(hh.items) > 0 \/ Underway(hh)
  PROVE  Underway(hh) /\ View(v, TRUE, hh.items)
<1>1. hh.begun \in BOOLEAN /\ hh.items \in Seq(HItems)
  BY DEF RespView, Handlers
<1>2. hh.items # << >> \/ hh.begun
  BY <1>1, EmptySeq DEF Underway
<1>3. Underway(hh)
  BY <1>1, <1>2 DEF RespView, View, Underway
<1>4. QED
  BY <1>3 DEF RespView, Underway

\* The handler s has become p, with the same items, of which done are closed.
RespSo(cut, cl, s, p, done) ==
  /\ RespGood(cut, cl, p) /\ (Underway(s.h) => Underway(p.h))
  /\ p.h.done = done /\ p.h.items = s.h.items /\ p.h.status = s.h.status

\* The handler s has become p, with what is open grown or one item more.
RespMore(cut, cl, s, p) ==
  /\ RespGood(cut, cl, p) /\ Underway(p.h)
  /\ p.h.done = s.h.done /\ p.h.status = s.h.status

\* response.created.
LEMMA RespStarts ==
  ASSUME NEW cut, NEW cl, NEW s, RespGood(cut, cl, s)
  PROVE  RespSo(cut, cl, s, Started(s), s.h.done) /\ Underway(Started(s).h)
<1>0. PICK p : p = Started(s)
  OBVIOUS
<1>1. PICK v : Course(cut, cl, s.es, v) /\ RespView(v, s.h)
  BY DEF RespGood
<1>2. s \in States /\ s.h \in Handlers /\ View(v, s.h.begun, s.h.items)
  BY <1>1 DEF RespGood, RespView
<1>3. StartedAs(cut, cl, s, v)
  BY <1>1, <1>2, StartedCourse
<1>4. PICK w : Course(cut, cl, p.es, w) /\ View(w, TRUE, s.h.items) /\ w.items = v.items
  BY <1>0, <1>3 DEF StartedAs
<1>5. /\ p.h \in Handlers /\ Underway(p.h) /\ p.h.done = s.h.done /\ p.h.items = s.h.items
      /\ p.h.ended = s.h.ended /\ p.h.status = s.h.status
  BY <1>0, <1>2, <1>3 DEF Handlers, StartedAs, Underway
<1>6. RespView(w, p.h)
  <2>1. s.h.ended = FALSE
    BY <1>1 DEF RespView
  <2>2. View(w, p.h.begun, p.h.items)
    BY <1>4, <1>5 DEF Underway
  <2>3. PICK items, done, st : items = s.h.items /\ done = s.h.done /\ st = s.h.status
    OBVIOUS
  <2>4. /\ done \subseteq 1..Len(items)
        /\ \A i \in 1..Len(items) : v.items[i].open = (i \notin done)
        /\ \A i \in done : v.items[i].status = st
        /\ \A i, j \in 1..Len(items) : items[i].kind = items[j].kind => items[i].kind = "call" \/ i = j
        /\ \A i \in 1..Len(items) : items[i].kind = "call" \/ items[i].tool = NoTool
    BY <1>1, <2>3 DEF RespView
  <2>5. p.h.items = items /\ p.h.done = done /\ p.h.status = st /\ p.h.ended = FALSE
    BY <1>5, <2>1, <2>3
  <2>6. QED
    BY <1>4, <1>5, <2>2, <2>4, <2>5 DEF RespView
<1>7. p \in States
  BY <1>0, <1>3 DEF StartedAs
<1>8. QED
  BY <1>0, <1>4, <1>5, <1>6, <1>7 DEF RespGood, RespSo

\* The last item of p is new.
NewItem(s, p, kind, tool) ==
  /\ Len(p.h.items) = Len(s.h.items) + 1
  /\ p.h.items[Len(p.h.items)].kind = kind /\ p.h.items[Len(p.h.items)].tool = tool

\* A new item: of a call, or the first of its kind.
LEMMA RespAdds ==
  ASSUME NEW cut, NEW cl, NEW s, RespGood(cut, cl, s), Underway(s.h),
         NEW kind \in ItemKinds, NEW tool \in Nat,
         \/ kind = "call"
         \/ tool = NoTool /\ \A i \in 1..Len(s.h.items) : s.h.items[i].kind # kind
  PROVE  RespMore(cut, cl, s, Added(s, kind, tool)) /\ NewItem(s, Added(s, kind, tool), kind, tool)
<1>0. PICK p : p = Added(s, kind, tool)
  OBVIOUS
<1>1. PICK v : Course(cut, cl, s.es, v) /\ RespView(v, s.h)
  BY DEF RespGood
<1>2. /\ s \in States /\ s.h \in Handlers /\ s.es \in Seq(Events)
      /\ s.h.items \in Seq(HItems) /\ Len(s.h.items) \in Nat
  BY HandlerType DEF RespGood
<1>3. View(v, TRUE, s.h.items)
  BY <1>1, RespOnView
<1>4. AddedAs(cut, cl, s, v, kind, tool)
  BY <1>1, <1>2, <1>3, AddedCourse
<1>5. PICK x, w :
         /\ x \in Seq(HItems)
         /\ p.h = [s.h EXCEPT !.items = x]
         /\ Len(x) = Len(s.h.items) + 1
         /\ \A j \in 1..Len(s.h.items) : x[j] = s.h.items[j]
         /\ x[Len(s.h.items) + 1].kind = kind /\ x[Len(s.h.items) + 1].tool = tool
         /\ Course(cut, cl, p.es, w)
         /\ View(w, TRUE, x)
         /\ \A j \in 1..Len(s.h.items) : w.items[j] = v.items[j]
         /\ w.items[Len(s.h.items) + 1].open = TRUE
  BY <1>0, <1>4 DEF AddedAs
<1>6. p \in States
  BY <1>0, <1>4 DEF AddedAs
<1>7. /\ p.h \in Handlers /\ Underway(p.h) /\ p.h.items = x
      /\ p.h.ended = FALSE /\ p.h.done = s.h.done /\ p.h.status = s.h.status
  <2>1. s.h.ended = FALSE
    BY <1>1 DEF RespView
  <2>2. s.h \in Handlers /\ x \in Seq(HItems) /\ p.h = [s.h EXCEPT !.items = x]
    BY <1>2, <1>5
  <2>3. p.h \in Handlers
    BY <2>2, HandlerFacts
  <2>4. QED
    BY <2>1, <2>2, <2>3 DEF Handlers, Underway
<1>8. PICK n : n = Len(s.h.items)
  OBVIOUS
<1>9. /\ n \in Nat /\ Len(x) = n + 1 /\ x[n + 1].kind = kind /\ x[n + 1].tool = tool
      /\ \A j \in 1..n : x[j] = s.h.items[j] /\ w.items[j] = v.items[j]
      /\ w.items[n + 1].open = TRUE
      /\ s.h.done \subseteq 1..n /\ n + 1 \notin s.h.done
  <2>1. s.h.done \subseteq 1..n
    BY <1>1, <1>8 DEF RespView
  <2>2. n \in Nat
    BY <1>2, <1>8
  <2>3. QED
    BY <1>5, <1>8, <2>1, <2>2
<1>10. \A i \in 1..Len(x) : w.items[i].open = (i \notin s.h.done)
  <2> SUFFICES ASSUME NEW i \in 1..Len(x) PROVE w.items[i].open = (i \notin s.h.done)
    OBVIOUS
  <2>1. CASE i = n + 1
    BY <1>9, <2>1
  <2>2. CASE i # n + 1
    <3>1. i \in 1..n
      BY <1>9, <2>2
    <3>2. v.items[i].open = (i \notin s.h.done)
      BY <1>1, <1>8, <3>1 DEF RespView
    <3>3. QED
      BY <1>9, <3>1, <3>2
  <2>3. QED
    BY <2>1, <2>2
<1>11. \A i \in s.h.done : w.items[i].status = s.h.status
  BY <1>1, <1>9 DEF RespView
<1>12. \A i, j \in 1..Len(x) : x[i].kind = x[j].kind => x[i].kind = "call" \/ i = j
  <2> SUFFICES ASSUME NEW i \in 1..Len(x), NEW j \in 1..Len(x), x[i].kind = x[j].kind
               PROVE  x[i].kind = "call" \/ i = j
    OBVIOUS
  <2>1. CASE i = n + 1 \/ j = n + 1
    <3>1. CASE kind = "call"
      BY <1>9, <2>1, <3>1
    <3>2. CASE \A k \in 1..Len(s.h.items) : s.h.items[k].kind # kind
      <4>1. \A k \in 1..n : x[k].kind # kind
        BY <1>8, <1>9, <3>2
      <4>2. i \in 1..n \/ i = n + 1
        BY <1>9
      <4>3. j \in 1..n \/ j = n + 1
        BY <1>9
      <4>4. QED
        BY <1>9, <2>1, <4>1, <4>2, <4>3
    <3>3. QED
      BY <3>1, <3>2
  <2>2. CASE i # n + 1 /\ j # n + 1
    <3>1. i \in 1..n /\ j \in 1..n
      BY <1>9, <2>2
    <3>2. x[i] = s.h.items[i] /\ x[j] = s.h.items[j]
      BY <1>9, <3>1
    <3>3. QED
      BY <1>1, <1>8, <3>1, <3>2 DEF RespView
  <2>3. QED
    BY <2>1, <2>2
<1>13. \A i \in 1..Len(x) : x[i].kind = "call" \/ x[i].tool = NoTool
  <2> SUFFICES ASSUME NEW i \in 1..Len(x) PROVE x[i].kind = "call" \/ x[i].tool = NoTool
    OBVIOUS
  <2>1. CASE i = n + 1
    BY <1>9, <2>1
  <2>2. CASE i # n + 1
    <3>1. i \in 1..n
      BY <1>9, <2>2
    <3>2. QED
      BY <1>1, <1>8, <1>9, <3>1 DEF RespView
  <2>3. QED
    BY <2>1, <2>2
<1>14. s.h.done \subseteq 1..Len(x)
  BY <1>9
<1>15. RespView(w, p.h)
  <2>1. View(w, p.h.begun, p.h.items)
    BY <1>5, <1>7 DEF Underway
  <2>2. QED
    BY <1>7, <1>10, <1>11, <1>12, <1>13, <1>14, <2>1 DEF RespView
<1>16. QED
  <2>1. RespMore(cut, cl, s, p)
    BY <1>5, <1>6, <1>7, <1>15 DEF RespGood, RespMore
  <2>2. NewItem(s, p, kind, tool)
    BY <1>7, <1>8, <1>9 DEF NewItem
  <2>3. QED
    BY <1>0, <2>1, <2>2

\* An item that is not done gets a delta.
LEMMA RespGrows ==
  ASSUME NEW cut, NEW cl, NEW s, RespGood(cut, cl, s),
         NEW i \in 1..Len(s.h.items), i \notin s.h.done,
         NEW data \in Seq(Nat)
  PROVE  RespMore(cut, cl, s, Grown(s, i, data))
<1>0. PICK p : p = Grown(s, i, data)
  OBVIOUS
<1>1. PICK v : Course(cut, cl, s.es, v) /\ RespView(v, s.h)
  BY DEF RespGood
<1>2. /\ s \in States /\ s.h \in Handlers /\ s.es \in Seq(Events)
      /\ s.h.items \in Seq(HItems) /\ Len(s.h.items) \in Nat
  BY HandlerType DEF RespGood
<1>3. Underway(s.h) /\ View(v, TRUE, s.h.items) /\ s.h.ended = FALSE
  <2>1. Len(s.h.items) > 0
    BY <1>2
  <2>2. Underway(s.h) /\ View(v, TRUE, s.h.items)
    BY <1>1, <2>1, RespOnView
  <2>3. QED
    BY <1>1, <2>2 DEF RespView
<1>4. v.items[i].open = TRUE
  BY <1>1 DEF RespView
<1>5. GrownAs(cut, cl, s, v, i, data)
  BY <1>1, <1>2, <1>3, <1>4, GrownCourse
<1>6. PICK x, w : /\ x \in Seq(HItems) /\ p.h = [s.h EXCEPT !.items = x]
                  /\ Course(cut, cl, p.es, w)
                  /\ View(w, TRUE, x)
                  /\ Like(v, s.h.items, w, x)
  BY <1>0, <1>5 DEF GrownAs
<1>7. /\ p.h \in Handlers /\ Underway(p.h) /\ p.h.items = x
      /\ p.h.ended = FALSE /\ p.h.done = s.h.done /\ p.h.status = s.h.status
  BY <1>2, <1>3, <1>6 DEF Handlers, Underway
<1>8. PICK items : items = s.h.items
  OBVIOUS
<1>9. /\ Len(x) = Len(items)
      /\ \A j \in 1..Len(items) :
            /\ x[j].kind = items[j].kind /\ x[j].tool = items[j].tool
            /\ w.items[j].open = v.items[j].open /\ w.items[j].status = v.items[j].status
  BY <1>6, <1>8 DEF Like
<1>10. /\ s.h.done \subseteq 1..Len(items)
       /\ \A j \in 1..Len(items) : v.items[j].open = (j \notin s.h.done)
       /\ \A j \in s.h.done : v.items[j].status = s.h.status
       /\ \A j, k \in 1..Len(items) : items[j].kind = items[k].kind => items[j].kind = "call" \/ j = k
       /\ \A j \in 1..Len(items) : items[j].kind = "call" \/ items[j].tool = NoTool
  BY <1>1, <1>8 DEF RespView
<1>11. RespView(w, p.h)
  <2>1. \A j \in 1..Len(x) : w.items[j].open = (j \notin s.h.done)
    BY <1>9, <1>10
  <2>2. ASSUME NEW j \in s.h.done PROVE w.items[j].status = s.h.status
    <3>1. j \in 1..Len(items)
      BY <1>10
    <3>2. QED
      BY <1>9, <1>10, <3>1
  <2>3. \A j, k \in 1..Len(x) : x[j].kind = x[k].kind => x[j].kind = "call" \/ j = k
    BY <1>9, <1>10
  <2>4. \A j \in 1..Len(x) : x[j].kind = "call" \/ x[j].tool = NoTool
    BY <1>9, <1>10
  <2>5. s.h.done \subseteq 1..Len(x)
    BY <1>9, <1>10
  <2>6. View(w, p.h.begun, p.h.items)
    BY <1>6, <1>7 DEF Underway
  <2>7. QED
    BY <1>7, <2>1, <2>2, <2>3, <2>4, <2>5, <2>6 DEF RespView
<1>12. QED
  BY <1>0, <1>5, <1>6, <1>7, <1>11 DEF RespGood, GrownAs, RespMore

\* What Index finds.
Found(hs, kind, tool, i) ==
  /\ i # 0 => i \in 1..Len(hs.items) /\ hs.items[i].kind = kind /\ hs.items[i].tool = tool
  /\ i = 0 => \A j \in 1..Len(hs.items) : ~(hs.items[j].kind = kind /\ hs.items[j].tool = tool)

\* What Index finds among the items of a response.
LEMMA RespIndex ==
  ASSUME NEW cut, NEW cl, NEW s, RespGood(cut, cl, s), NEW kind, NEW tool
  PROVE  Found(s.h, kind, tool, Index(s.h, kind, tool))
<1>1. PICK hs, i : hs = s.h /\ i = Index(s.h, kind, tool)
  OBVIOUS
<1>2. DOMAIN hs.items = 1..Len(hs.items) /\ i = Index(hs, kind, tool)
  BY <1>1, HandlerType DEF RespGood
<1>3. Found(hs, kind, tool, i)
  BY <1>2, IndexFacts DEF Found
<1>4. QED
  BY <1>1, <1>3

\* The item that a delta goes into is there.
LEMMA RespItemOn ==
  ASSUME NEW cut, NEW cl, NEW s, RespGood(cut, cl, s), Underway(s.h),
         NEW kind \in ItemKinds, NEW tool \in Nat, kind = "call" \/ tool = NoTool
  PROVE  /\ RespMore(cut, cl, s, RespItem(s, kind, tool))
         /\ Index(RespItem(s, kind, tool).h, kind, tool) # 0
<1>0. PICK p, n : p = RespItem(s, kind, tool) /\ n = Index(s.h, kind, tool)
  OBVIOUS
<1>1. CASE n # 0
  <2>1. p = s
    BY <1>0, <1>1 DEF RespItem
  <2>2. QED
    BY <1>0, <1>1, <2>1 DEF RespMore
<1>2. CASE n = 0
  <2>1. p = Added(s, kind, tool)
    BY <1>0, <1>2 DEF RespItem
  <2>2. PICK v : RespView(v, s.h)
    BY DEF RespGood
  <2>3. \/ kind = "call"
        \/ tool = NoTool /\ \A i \in 1..Len(s.h.items) : s.h.items[i].kind # kind
    <3>1. SUFFICES ASSUME kind # "call", NEW i \in 1..Len(s.h.items)
                   PROVE  s.h.items[i].kind # kind
      OBVIOUS
    <3>2. Found(s.h, kind, tool, n)
      BY <1>0, RespIndex
    <3>3. ~(s.h.items[i].kind = kind /\ s.h.items[i].tool = tool)
      BY <1>2, <3>2 DEF Found
    <3>4. s.h.items[i].kind = "call" \/ s.h.items[i].tool = NoTool
      BY <2>2 DEF RespView
    <3>5. QED
      BY <3>1, <3>3, <3>4
  <2>4. RespMore(cut, cl, s, p) /\ NewItem(s, p, kind, tool)
    BY <2>1, <2>3, RespAdds
  <2>5. Len(p.h.items) \in 1..Len(p.h.items)
    <3>1. Len(s.h.items) \in Nat
      BY HandlerType DEF RespGood
    <3>2. QED
      BY <2>4, <3>1 DEF NewItem
  <2>6. PICK i : i = Index(p.h, kind, tool)
    OBVIOUS
  <2>7. Found(p.h, kind, tool, i)
    <3>1. RespGood(cut, cl, p)
      BY <2>4 DEF RespMore
    <3>2. QED
      BY <2>6, <3>1, RespIndex
  <2>8. i # 0
    BY <2>4, <2>5, <2>7 DEF Found, NewItem
  <2>9. QED
    BY <1>0, <2>4, <2>6, <2>8
<1>3. QED
  BY <1>1, <1>2

\* A chunk with content goes on with the response.
LEMMA RespWritesOn ==
  ASSUME NEW cut, NEW cl, NEW s, RespGood(cut, cl, s), Underway(s.h), s.h.done = {},
         NEW c, c.kind \in {"text", "thinking", "call", "args"}, c.tool \in Nat,
         c.data \in Seq(Nat), c.kind \in {"call", "args"} \/ c.tool = NoTool
  PROVE  RespMore(cut, cl, s, RespWrites(s, c))
<1>1. PICK kind : kind = IF c.kind = "args" THEN "call" ELSE c.kind
  OBVIOUS
<1>2. PICK tool \in Nat : tool = c.tool
  OBVIOUS
<1>3. kind \in ItemKinds /\ (kind = "call" \/ tool = NoTool)
  BY <1>1, <1>2 DEF ItemKinds
<1>4. PICK a, i : a = RespItem(s, kind, tool) /\ i = Index(a.h, kind, tool)
  OBVIOUS
<1>5. RespMore(cut, cl, s, a) /\ i # 0
  BY <1>3, <1>4, RespItemOn
<1>6. RespGood(cut, cl, a) /\ a.h.done = {} /\ a.h.status = s.h.status
  BY <1>5 DEF RespMore
<1>7. i \in 1..Len(a.h.items)
  <2>1. Found(a.h, kind, tool, i)
    BY <1>4, <1>6, RespIndex
  <2>2. QED
    BY <1>5, <2>1 DEF Found
<1>8. PICK d \in Seq(Nat) : d = c.data
  OBVIOUS
<1>9. RespWrites(s, c) = Grown(a, i, d)
  BY <1>1, <1>2, <1>4, <1>8 DEF RespWrites
<1>10. i \notin a.h.done
  BY <1>6
<1>11. RespMore(cut, cl, a, Grown(a, i, d))
  BY <1>6, <1>7, <1>10, RespGrows
<1>12. PICK p : p = Grown(a, i, d)
  OBVIOUS
<1>13. RespMore(cut, cl, s, p)
  BY <1>6, <1>11, <1>12 DEF RespMore
<1>14. QED
  BY <1>9, <1>12, <1>13

\* An item is closed once, with the status that the handler knows.
LEMMA RespCloses ==
  ASSUME NEW cut, NEW cl, NEW s, RespGood(cut, cl, s), NEW i \in 0..Len(s.h.items)
  PROVE  RespSo(cut, cl, s, RespClose(s, i), s.h.done \cup ({i} \ {0}))
<1>0. PICK p : p = RespClose(s, i)
  OBVIOUS
<1>1. PICK v : Course(cut, cl, s.es, v) /\ RespView(v, s.h)
  BY DEF RespGood
<1>2. /\ s \in States /\ s.h \in Handlers /\ s.es \in Seq(Events)
      /\ s.h.items \in Seq(HItems) /\ Len(s.h.items) \in Nat /\ s.h.status \in EndNames
  BY HandlerType DEF RespGood
<1>3. CASE i \in s.h.done \cup {0}
  <2>1. p = s
    BY <1>0, <1>3 DEF RespClose
  <2>2. s.h.done = s.h.done \cup ({i} \ {0})
    BY <1>3
  <2>3. QED
    BY <1>0, <2>1, <2>2 DEF RespSo
<1>4. CASE i \notin s.h.done \cup {0}
  <2>1. i \in 1..Len(s.h.items) /\ Len(s.h.items) > 0 /\ i \in Nat
    BY <1>2, <1>4
  <2>2. Underway(s.h) /\ View(v, TRUE, s.h.items)
    BY <1>1, <2>1, RespOnView
  <2>3. PICK it : it = s.h.items[i]
    OBVIOUS
  <2>4. it.kind \in ItemKinds /\ it.tool \in Nat /\ it.data \in Seq(Nat)
    <3>1. it \in HItems
      BY <1>2, <2>1, <2>3, ElementOfSeq
    <3>2. QED
      BY <3>1 DEF HItems
  <2>5. PICK e : e = RespDone(s, i)
    OBVIOUS
  <2>6. e \in Events /\ e.ev = "close" /\ e.i = i /\ e.status = s.h.status
    <3>1. e = Event("close", i, Item(it.kind, it.tool), it.data, s.h.status)
      BY <2>3, <2>5 DEF RespDone
    <3>2. << >> \in Seq(HItems)
      BY EmptySeq
    <3>3. QED
      BY <1>2, <2>1, <2>4, <3>1, <3>2 DEF Event, Item, Events, EventNames, EventKinds
  <2>7. PICK hh : hh = [s.h EXCEPT !.done = s.h.done \cup {i}]
    OBVIOUS
  <2>8. /\ hh \in Handlers /\ (Underway(s.h) => Underway(hh)) /\ hh.done = s.h.done \cup {i}
        /\ hh.items = s.h.items /\ hh.ended = s.h.ended /\ hh.status = s.h.status
    BY <1>2, <2>1, <2>7 DEF Handlers, Underway
  <2>9. PICK r : r = [s EXCEPT !.h = hh]
    OBVIOUS
  <2>10. r \in States /\ r.h = hh /\ r.es = s.es
    BY <1>2, <2>8, <2>9, StateFacts
  <2>11. p = Put(r, e)
    BY <1>0, <1>4, <2>5, <2>7, <2>9 DEF RespClose
  <2>12. p \in States /\ p.h = hh /\ p.es = Append(s.es, e)
    BY <2>6, <2>10, <2>11, PutFacts
  <2>13. e.i \in 1..Len(s.h.items) /\ v.items[e.i].open = TRUE
    BY <1>1, <1>4, <2>1, <2>6 DEF RespView
  <2>14. PICK w : Course(cut, cl, Append(s.es, e), w) /\ ClosedAt(v, w, s.h.items, e.i, e.status)
    BY <1>1, <1>2, <2>2, <2>6, <2>13, ClosedCourse
  <2>15. /\ View(w, TRUE, s.h.items)
         /\ \A j \in 1..Len(s.h.items) : j # i => w.items[j] = v.items[j]
         /\ w.items[i].open = FALSE /\ w.items[i].status = s.h.status
    BY <2>6, <2>14 DEF ClosedAt
  <2>16. ASSUME NEW j \in 1..Len(s.h.items)
         PROVE  w.items[j].open = (j \notin hh.done)
    <3>1. CASE j = i
      BY <2>8, <2>15, <3>1
    <3>2. CASE j # i
      <4>1. v.items[j].open = (j \notin s.h.done)
        BY <1>1 DEF RespView
      <4>2. QED
        BY <2>8, <2>15, <3>2, <4>1
    <3>3. QED
      BY <3>1, <3>2
  <2>17. ASSUME NEW j \in hh.done
         PROVE  w.items[j].status = hh.status
    <3>1. CASE j = i
      BY <2>8, <2>15, <3>1
    <3>2. CASE j # i
      <4>1. j \in s.h.done /\ j \in 1..Len(s.h.items)
        BY <1>1, <2>8, <3>2 DEF RespView
      <4>2. QED
        BY <1>1, <2>8, <2>15, <3>2, <4>1 DEF RespView
    <3>3. QED
      BY <3>1, <3>2
  <2>18. RespView(w, hh)
    <3>1. View(w, hh.begun, hh.items) /\ hh.ended = FALSE
      BY <1>1, <2>2, <2>8, <2>15 DEF RespView, Underway
    <3>2. hh.done \subseteq 1..Len(hh.items)
      BY <1>1, <2>1, <2>8 DEF RespView
    <3>3. \A j \in 1..Len(hh.items) : w.items[j].open = (j \notin hh.done)
      BY <2>8, <2>16
    <3>4. /\ \A j, k \in 1..Len(hh.items) :
                hh.items[j].kind = hh.items[k].kind => hh.items[j].kind = "call" \/ j = k
          /\ \A j \in 1..Len(hh.items) : hh.items[j].kind = "call" \/ hh.items[j].tool = NoTool
      BY <1>1, <2>8 DEF RespView
    <3>5. QED
      BY <2>8, <2>17, <3>1, <3>2, <3>3, <3>4 DEF RespView
  <2>19. {i} \ {0} = {i}
    BY <1>4
  <2>20. QED
    BY <1>0, <2>8, <2>12, <2>14, <2>18, <2>19 DEF RespGood, RespSo
<1>5. QED
  BY <1>3, <1>4

\* The calls are closed, each once.
LEMMA RespClosesTools ==
  ASSUME NEW cut, NEW cl, NEW s, RespGood(cut, cl, s)
  PROVE  RespSo(cut, cl, s, RespCloseTools(s), s.h.done \cup ToolItems(s.h))
<1>0. PICK p : p = RespCloseTools(s)
  OBVIOUS
<1>1. PICK v : Course(cut, cl, s.es, v) /\ RespView(v, s.h)
  BY DEF RespGood
<1>2. /\ s \in States /\ s.h \in Handlers /\ s.es \in Seq(Events)
      /\ s.h.items \in Seq(HItems) /\ Len(s.h.items) \in Nat /\ s.h.status \in EndNames
      /\ DOMAIN s.h.items = 1..Len(s.h.items)
  BY HandlerType DEF RespGood
<1>3. PICK items \in Seq(HItems) : items = s.h.items
  BY <1>2
<1>4. PICK D : D = s.h.done \cup ToolItems(s.h)
  OBVIOUS
<1>5. PICK C : C = ToolItems(s.h) \ s.h.done
  OBVIOUS
<1>6. ToolItems(s.h) \subseteq 1..Len(items) /\ s.h.done \subseteq 1..Len(items)
  BY <1>1, <1>2, <1>3 DEF ToolItems, RespView
<1>7. C \in SUBSET (1..Len(items)) /\ C \in SUBSET Nat /\ IsFiniteSet(C)
      /\ D = s.h.done \cup C /\ D \in SUBSET (1..Len(items)) /\ D \in SUBSET Nat
  <2>1. PICK m \in Nat : m = Len(items)
    BY <1>2, <1>3
  <2>2. C \in SUBSET (1..m) /\ D = s.h.done \cup C /\ D \in SUBSET (1..m)
    BY <1>4, <1>5, <1>6, <2>1
  <2>3. C \in SUBSET Nat /\ IsFiniteSet(C) /\ D \in SUBSET Nat
    <3>1. C \in SUBSET Nat /\ IsFiniteSet(C)
      BY <2>2, FiniteNumbers
    <3>2. D \in SUBSET Nat
      BY <2>2, FiniteNumbers
    <3>3. QED
      BY <3>1, <3>2
  <2>4. QED
    BY <2>1, <2>2, <2>3
<1>8. PICK tools : tools = Ascending(C)
  OBVIOUS
<1>9. PICK n : n = Cardinality(C)
  OBVIOUS
<1>10. Lists(C, tools, n)
  BY <1>7, <1>8, <1>9, AscendingFacts
<1>10a. n \in Nat /\ tools \in [1..n -> C] /\ DOMAIN tools = 1..n
  BY <1>10 DEF Lists
<1>11. PICK stops : stops = [k \in DOMAIN tools |-> RespDone(s, tools[k])]
  OBVIOUS
<1>12. ASSUME NEW k \in 1..n
       PROVE  /\ stops[k] \in Events /\ stops[k].ev = "close" /\ stops[k].i = tools[k]
              /\ stops[k].status = s.h.status
  <2>1. PICK m : m = tools[k]
    OBVIOUS
  <2>2. m \in 1..Len(items) /\ m \in Nat
    <3>1. m \in C
      BY <1>10a, <2>1
    <3>2. QED
      BY <1>7, <3>1
  <2>3. PICK it : it = items[m]
    OBVIOUS
  <2>4. it.kind \in ItemKinds /\ it.tool \in Nat /\ it.data \in Seq(Nat)
    <3>1. it \in HItems
      BY <2>2, <2>3, ElementOfSeq
    <3>2. QED
      BY <3>1 DEF HItems
  <2>5. PICK e, ev, st : e = stops[k] /\ ev = "close" /\ st = s.h.status
    OBVIOUS
  <2>6. e = Event(ev, m, Item(it.kind, it.tool), it.data, st)
    BY <1>3, <1>10a, <1>11, <2>1, <2>3, <2>5 DEF RespDone
  <2>7. ev \in EventNames /\ it.kind \in EventKinds /\ st \in EndNames
    BY <1>2, <2>4, <2>5 DEF EventNames, EventKinds
  <2>8. IsEvent(e, ev, m, it.kind, it.tool, it.data, st)
    BY <2>2, <2>4, <2>6, <2>7, EventIs
  <2>9. QED
    BY <2>1, <2>5, <2>8 DEF IsEvent
<1>13. stops \in Seq(Events) /\ Len(stops) = n
  <2>1. stops \in [1..n -> Events]
    BY <1>10a, <1>11, <1>12
  <2>2. QED
    BY <1>10a, <2>1, ListOf
<1>14. PICK hh : hh = [s.h EXCEPT !.done = D]
  OBVIOUS
<1>15. /\ hh \in Handlers /\ (Underway(s.h) => Underway(hh)) /\ hh.done = D
       /\ hh.items = items /\ hh.ended = s.h.ended /\ hh.status = s.h.status
  BY <1>2, <1>3, <1>7, <1>14 DEF Handlers, Underway
<1>16. p \in States /\ p.h = hh /\ p.es = s.es \o stops
  <2>1. s.es \o stops \in Seq(Events)
    BY <1>2, <1>13, ConcatProperties
  <2>2. p = [s EXCEPT !.h = hh, !.es = s.es \o stops]
    BY <1>0, <1>4, <1>5, <1>8, <1>11, <1>14 DEF RespCloseTools
  <2>3. QED
    BY <1>2, <1>15, <2>1, <2>2 DEF States
<1>17. \E w : Course(cut, cl, s.es \o stops, w) /\ RespView(w, hh)
  <2>1. CASE C = {}
    <3>1. n = 0
      BY <1>9, <2>1, FS_EmptySet
    <3>2. stops = << >>
      BY <1>13, <3>1, EmptySeq
    <3>3. s.es \o stops = s.es
      BY <1>2, <3>2, ConcatEmptySeq
    <3>4. D = s.h.done
      BY <1>7, <2>1
    <3>5. hh = s.h
      BY <1>2, <1>14, <3>4 DEF Handlers
    <3>6. QED
      BY <1>1, <3>3, <3>5
  <2>2. CASE C # {}
    <3>1. Len(s.h.items) > 0
      BY <1>2, <1>3, <1>7, <2>2
    <3>2. Underway(s.h) /\ View(v, TRUE, items)
      BY <1>1, <1>3, <3>1, RespOnView
    <3>3. AllOpen(v, C)
      BY <1>1, <1>3, <1>5, <1>7 DEF RespView, AllOpen
    <3>4. PICK st : st = s.h.status
      OBVIOUS
    <3>5. Closings(stops, tools, n, st)
      BY <1>12, <1>13, <3>4 DEF Closings
    <3>6. PICK w : Course(cut, cl, s.es \o stops, w) /\ AllClosed(v, w, items, C, st)
      <4>1. PICK es \in Seq(Events) : es = s.es
        BY <1>2
      <4>2. Course(cut, cl, es, v)
        BY <1>1, <4>1
      <4>3. ClosedOff(cut, cl, es \o stops, v, items, C, st)
        BY <1>7, <1>10, <3>2, <3>3, <3>5, <4>2, AllClosedCourse
      <4>4. QED
        BY <4>1, <4>3 DEF ClosedOff
    <3>7. /\ View(w, TRUE, items)
          /\ \A j \in 1..Len(items) : j \notin C => w.items[j] = v.items[j]
          /\ \A j \in C : w.items[j].open = FALSE /\ w.items[j].status = st
      BY <3>6 DEF AllClosed
    <3>8. ASSUME NEW j \in 1..Len(items) PROVE w.items[j].open = (j \notin D)
      <4>1. v.items[j].open = (j \notin s.h.done)
        BY <1>1, <1>3 DEF RespView
      <4>2. CASE j \in C
        BY <1>7, <3>7, <4>2
      <4>3. CASE j \notin C
        BY <1>7, <3>7, <4>1, <4>3
      <4>4. QED
        BY <4>2, <4>3
    <3>9. ASSUME NEW j \in D PROVE w.items[j].status = s.h.status
      <4>1. CASE j \in C
        BY <3>4, <3>7, <4>1
      <4>2. CASE j \notin C
        <5>1. j \in s.h.done /\ j \in 1..Len(items)
          BY <1>7, <4>2
        <5>2. v.items[j].status = s.h.status
          BY <1>1, <5>1 DEF RespView
        <5>3. QED
          BY <3>7, <4>2, <5>1, <5>2
      <4>3. QED
        BY <4>1, <4>2
    <3>10. RespView(w, hh)
      <4>1. View(w, hh.begun, hh.items) /\ hh.ended = FALSE
        BY <1>1, <1>15, <3>2, <3>7 DEF RespView, Underway
      <4>2. hh.done \subseteq 1..Len(hh.items)
        BY <1>7, <1>15
      <4>3. \A j \in 1..Len(hh.items) : w.items[j].open = (j \notin hh.done)
        BY <1>15, <3>8
      <4>4. \A j \in hh.done : w.items[j].status = hh.status
        BY <1>15, <3>9
      <4>5. /\ \A j, k \in 1..Len(hh.items) :
                  hh.items[j].kind = hh.items[k].kind => hh.items[j].kind = "call" \/ j = k
            /\ \A j \in 1..Len(hh.items) : hh.items[j].kind = "call" \/ hh.items[j].tool = NoTool
        BY <1>1, <1>3, <1>15 DEF RespView
      <4>6. QED
        BY <1>15, <4>1, <4>2, <4>3, <4>4, <4>5 DEF RespView
    <3>11. QED
      BY <3>6, <3>10
  <2>3. QED
    BY <2>1, <2>2
<1>18. QED
  BY <1>0, <1>3, <1>4, <1>15, <1>16, <1>17 DEF RespGood, RespSo

\* Every item is closed, the calls' last.
LEMMA RespClosesAll ==
  ASSUME NEW cut, NEW cl, NEW s, RespGood(cut, cl, s)
  PROVE  RespSo(cut, cl, s, RespCloseAll(s), 1..Len(s.h.items))
<1>1. /\ s \in States /\ s.h.items \in Seq(HItems) /\ DOMAIN s.h.items = 1..Len(s.h.items)
      /\ Len(s.h.items) \in Nat
  BY HandlerType DEF RespGood
<1>2. PICK items \in Seq(HItems) : items = s.h.items
  BY <1>1
<1>3. PICK v : RespView(v, s.h)
  BY DEF RespGood
<1>4. PICK i : i = Index(s.h, "thinking", NoTool)
  OBVIOUS
<1>5. PICK a : a = RespClose(s, i)
  OBVIOUS
<1>f. Found(s.h, "thinking", NoTool, i)
  BY <1>4, RespIndex
<1>6. i \in 0..Len(s.h.items)
  BY <1>1, <1>f DEF Found
<1>7. RespSo(cut, cl, s, a, s.h.done \cup ({i} \ {0}))
  BY <1>5, <1>6, RespCloses
<1>7a. /\ RespGood(cut, cl, a) /\ (Underway(s.h) => Underway(a.h))
       /\ a.h.done = s.h.done \cup ({i} \ {0})
       /\ a.h.items = items /\ a.h.status = s.h.status
  BY <1>2, <1>7 DEF RespSo
<1>8. PICK j : j = Index(a.h, "text", NoTool)
  OBVIOUS
<1>9. PICK b : b = RespClose(a, j)
  OBVIOUS
<1>g. Found(a.h, "text", NoTool, j)
  BY <1>7a, <1>8, RespIndex
<1>10. j \in 0..Len(a.h.items)
  BY <1>1, <1>2, <1>7a, <1>g DEF Found
<1>11. RespSo(cut, cl, a, b, a.h.done \cup ({j} \ {0}))
  BY <1>7a, <1>9, <1>10, RespCloses
<1>11a. /\ RespGood(cut, cl, b) /\ (Underway(s.h) => Underway(b.h))
        /\ b.h.done = a.h.done \cup ({j} \ {0})
        /\ b.h.items = items /\ b.h.status = s.h.status
  BY <1>7a, <1>11 DEF RespSo
<1>12. PICK p : p = RespCloseTools(b)
  OBVIOUS
<1>12a. p = RespCloseAll(s)
  BY <1>4, <1>5, <1>8, <1>9, <1>12 DEF RespCloseAll
<1>13. RespSo(cut, cl, b, p, b.h.done \cup ToolItems(b.h))
  BY <1>11a, <1>12, RespClosesTools
<1>13a. /\ RespGood(cut, cl, p) /\ (Underway(s.h) => Underway(p.h))
        /\ p.h.done = b.h.done \cup ToolItems(b.h)
        /\ p.h.items = items /\ p.h.status = s.h.status
  BY <1>11a, <1>13 DEF RespSo
<1>14. p.h.done \subseteq 1..Len(items)
  <2>1. PICK w : RespView(w, p.h)
    BY <1>13a DEF RespGood
  <2>2. QED
    BY <1>13a, <2>1 DEF RespView
<1>15. ASSUME NEW k \in 1..Len(items) PROVE k \in p.h.done
  <2>1. items[k].kind \in ItemKinds
    <3>1. items[k] \in HItems
      BY <1>2, ElementOfSeq
    <3>2. QED
      BY <3>1 DEF HItems
  <2>2. items[k].kind = "call" \/ items[k].tool = NoTool
    BY <1>2, <1>3 DEF RespView
  <2>3. CASE items[k].kind = "call"
    <3>1. k \in ToolItems(b.h)
      BY <1>1, <1>2, <1>11a, <2>3 DEF ToolItems
    <3>2. QED
      BY <1>13a, <3>1
  <2>4. CASE items[k].kind = "thinking"
    <3>1. items[k].tool = NoTool
      BY <2>2, <2>4
    <3>2. i # 0
      BY <1>2, <1>f, <2>4, <3>1 DEF Found
    <3>3. i \in 1..Len(items) /\ items[i].kind = "thinking"
      BY <1>2, <1>f, <3>2 DEF Found
    <3>4. i = k
      BY <1>2, <1>3, <2>4, <3>3 DEF RespView
    <3>5. QED
      BY <1>7a, <1>11a, <1>13a, <3>2, <3>4
  <2>5. CASE items[k].kind = "text"
    <3>1. items[k].tool = NoTool
      BY <2>2, <2>5
    <3>2. j # 0
      BY <1>7a, <1>g, <2>5, <3>1 DEF Found
    <3>3. j \in 1..Len(items) /\ items[j].kind = "text"
      BY <1>7a, <1>g, <3>2 DEF Found
    <3>4. j = k
      BY <1>2, <1>3, <2>5, <3>3 DEF RespView
    <3>5. QED
      BY <1>11a, <1>13a, <3>2, <3>4
  <2>6. QED
    BY <2>1, <2>3, <2>4, <2>5 DEF ItemKinds
<1>16. p.h.done = 1..Len(s.h.items)
  BY <1>2, <1>14, <1>15
<1>17. RespSo(cut, cl, s, p, 1..Len(s.h.items))
  BY <1>2, <1>13a, <1>16 DEF RespSo
<1>18. QED
  BY <1>12a, <1>17

\* The finish reason: the status is known before the first item is closed.
FinishedAs(cut, cl, p, st) == RespGood(cut, cl, p) /\ Underway(p.h) /\ p.h.status = st

\* The finish reason closes the calls; only length changes the status.
LEMMA RespFinishesOn ==
  ASSUME NEW cut, NEW cl, NEW s, RespGood(cut, cl, s), Underway(s.h), s.h.done = {},
         NEW fin \in EndNames
  PROVE  FinishedAs(cut, cl, RespFinishes(s, fin), IF fin = "length" THEN fin ELSE s.h.status)
<1>0. PICK p, st : p = RespFinishes(s, fin) /\ st = IF fin = "length" THEN fin ELSE s.h.status
  OBVIOUS
<1>1. CASE fin = "tool_calls"
  <2>1. p = s /\ st = s.h.status
    BY <1>0, <1>1 DEF RespFinishes
  <2>2. FinishedAs(cut, cl, p, st)
    BY <2>1 DEF FinishedAs
  <2>3. QED
    BY <1>0, <2>2
<1>2. CASE fin # "tool_calls"
  <2>2. PICK v : Course(cut, cl, s.es, v) /\ RespView(v, s.h)
    BY DEF RespGood
  <2>3. s \in States /\ s.h \in Handlers /\ s.h.status \in EndNames
    BY HandlerType DEF RespGood
  <2>4. PICK hh : hh = [s.h EXCEPT !.status = st]
    OBVIOUS
  <2>5. /\ hh \in Handlers /\ Underway(hh) /\ hh.items = s.h.items /\ hh.done = {}
        /\ hh.ended = s.h.ended /\ hh.begun = s.h.begun /\ hh.status = st
    BY <1>0, <2>3, <2>4 DEF Handlers, Underway
  <2>6. PICK r : r = [s EXCEPT !.h = hh]
    OBVIOUS
  <2>7. r \in States /\ r.h = hh /\ r.es = s.es
    BY <2>3, <2>5, <2>6, StateFacts
  <2>8. RespGood(cut, cl, r) /\ Underway(r.h) /\ r.h.status = st
    <3>1. RespView(v, hh)
      <4>1. View(v, hh.begun, hh.items) /\ hh.ended = FALSE
        BY <2>2, <2>5 DEF RespView
      <4>2. \A i \in 1..Len(hh.items) : v.items[i].open = (i \notin hh.done)
        BY <2>2, <2>5 DEF RespView
      <4>3. /\ \A j, k \in 1..Len(hh.items) :
                  hh.items[j].kind = hh.items[k].kind => hh.items[j].kind = "call" \/ j = k
            /\ \A j \in 1..Len(hh.items) : hh.items[j].kind = "call" \/ hh.items[j].tool = NoTool
        BY <2>2, <2>5 DEF RespView
      <4>4. QED
        BY <2>5, <4>1, <4>2, <4>3 DEF RespView
    <3>2. QED
      BY <2>2, <2>5, <2>7, <3>1 DEF RespGood
  <2>9. PICK i : i = Index(s.h, "thinking", NoTool)
    OBVIOUS
  <2>10. i \in 0..Len(r.h.items)
    <3>1. Found(s.h, "thinking", NoTool, i)
      BY <2>9, RespIndex
    <3>2. Len(s.h.items) \in Nat
      BY <2>3, HandlerType
    <3>3. QED
      BY <2>5, <2>7, <3>1, <3>2 DEF Found
  <2>11. PICK a : a = RespClose(r, i)
    OBVIOUS
  <2>12. RespSo(cut, cl, r, a, r.h.done \cup ({i} \ {0}))
    BY <2>8, <2>10, <2>11, RespCloses
  <2>12a. RespGood(cut, cl, a) /\ Underway(a.h) /\ a.h.status = st
    BY <2>8, <2>12 DEF RespSo
  <2>13. PICK b : b = IF ToolItems(a.h) = {} THEN RespItem(a, "text", NoTool) ELSE a
    OBVIOUS
  <2>14. RespGood(cut, cl, b) /\ Underway(b.h) /\ b.h.status = st
    <3>1. CASE ToolItems(a.h) = {}
      <4>1. PICK kind, tool : kind = "text" /\ tool = NoTool
        OBVIOUS
      <4>2. kind \in ItemKinds /\ tool \in Nat /\ tool = NoTool /\ b = RespItem(a, kind, tool)
        BY <2>13, <3>1, <4>1 DEF ItemKinds, NoTool
      <4>3. RespMore(cut, cl, a, b)
        BY <2>12a, <4>2, RespItemOn
      <4>4. QED
        BY <2>12a, <4>3 DEF RespMore
    <3>2. CASE ToolItems(a.h) # {}
      BY <2>12a, <2>13, <3>2
    <3>3. QED
      BY <3>1, <3>2
  <2>15. p = RespCloseAll(b)
    <3>1. r = [s EXCEPT !.h.status = IF fin = "length" THEN fin ELSE @]
      BY <1>0, <2>3, <2>4, <2>6
    <3>2. QED
      BY <1>0, <1>2, <2>9, <2>11, <2>13, <3>1 DEF RespFinishes
  <2>16. RespSo(cut, cl, b, p, 1..Len(b.h.items))
    BY <2>14, <2>15, RespClosesAll
  <2>17. FinishedAs(cut, cl, p, st)
    BY <2>14, <2>16 DEF RespSo, FinishedAs
  <2>18. QED
    BY <1>0, <2>17
<1>3. QED
  BY <1>1, <1>2

\* The terminal event, once every item is closed.
LEMMA RespRunsOutTold ==
  ASSUME NEW cut, NEW cl, NEW s, RespGood(cut, cl, s), Underway(s.h) \/ cut = TRUE
  PROVE  RespTold(cut, cl, RespRunsOut(s), s.h.status)
<1>1. PICK a : a = RespCloseAll(s)
  OBVIOUS
<1>2. RespSo(cut, cl, s, a, 1..Len(s.h.items))
  BY <1>1, RespClosesAll
<1>2a. /\ RespGood(cut, cl, a) /\ (Underway(s.h) => Underway(a.h))
       /\ a.h.done = 1..Len(s.h.items)
       /\ a.h.items = s.h.items /\ a.h.status = s.h.status
  BY <1>2 DEF RespSo
<1>3. PICK v : Course(cut, cl, a.es, v) /\ RespView(v, a.h)
  BY <1>2a DEF RespGood
<1>4. a \in States /\ a.h \in Handlers /\ a.h.items \in Seq(HItems) /\ a.h.status \in EndNames
  BY <1>2a, HandlerType DEF RespGood
<1>5. View(v, a.h.begun, a.h.items)
  BY <1>3 DEF RespView
<1>6. v \in Views /\ v.phase # "over" /\ Len(v.items) = Len(s.h.items)
      /\ (Underway(s.h) => v.phase = "on")
  BY <1>2a, <1>4, <1>5 DEF View, Underway, Handlers
<1>7. ASSUME NEW i \in 1..Len(v.items) PROVE v.items[i].open = FALSE /\ v.items[i].status = a.h.status
  BY <1>2a, <1>3, <1>6 DEF RespView
<1>8. PICK st \in EndNames : st = a.h.status
  BY <1>4
<1>9. PICK items \in Seq(HItems) : items = a.h.items
  BY <1>4
<1>10. PICK p : p = Ended(a, st, items)
  OBVIOUS
<1>11. \/ v.phase = "on" /\ \A i \in 1..Len(v.items) : v.items[i].open = FALSE
       \/ v.phase # "over" /\ cut = TRUE
  BY <1>6, <1>7
<1>12. EndedAs(cut, cl, v, p, st)
  BY <1>3, <1>4, <1>6, <1>10, <1>11, EndedCourse
<1>13. p = RespRunsOut(s)
  BY <1>1, <1>8, <1>9, <1>10 DEF RespRunsOut
<1>14. st = s.h.status
  BY <1>2a, <1>8
<1>15. RespTold(cut, cl, p, st)
  BY <1>7, <1>8, <1>12 DEF RespTold, EndedAs
<1>16. QED
  BY <1>13, <1>14, <1>15

-----------------------------------------------------------------------------
(* The chunks between the vendor and the handler.                           *)

Pieces == {"text", "thinking", "call", "args"}
Halts == {"done", "eof", "error"}
Rest == Halts \cup {"usage"}
Chunks == [kind : Pieces \cup Rest \cup {"finish"}, tool : Nat, data : Seq(Nat), fin : EndNames,
           counted : BOOLEAN]
Reqs == [api : {"claude", "responses", "chat"},
         proto : {"openai", "anthropic", "gemini", "responses"}, want : BOOLEAN, counts : BOOLEAN]
Ups == [open : BOOLEAN, fin : EndNames, cut : BOOLEAN]

\* A reply is reported as cut short exactly when its vendor said so in words that
\* its adapter knows.
Fits(rq, u, st) ==
  st = "length" <=> u.fin = IF rq.proto = "responses" THEN "incomplete" ELSE "length"

\* The vendor has said how the reply ends, or a converter has put it out.
Final(rq, u) == IF rq.proto = "openai" THEN u.fin # "" ELSE u.open = FALSE
HasFinish(q) == \E k \in 1..Len(q) : q[k].kind = "finish"
Seen(rq, u, q) == Final(rq, u) /\ ~HasFinish(q)

UpOk(rq, u) ==
  /\ u \in Ups
  /\ u.cut = TRUE => rq.proto = "openai" /\ u.fin = "" /\ u.open = FALSE
  /\ u.open = FALSE /\ rq.proto = "openai" /\ u.fin = "" => u.cut = TRUE

ChunkOk(c) == c \in Chunks /\ (c.kind \in {"text", "thinking"} => c.tool = NoTool)

\* Only the counts and the end come after the finish reason, and nothing after the end.
OutOk(rq, u, q) ==
  /\ q \in Seq(Chunks)
  /\ \A k \in 1..Len(q) : ChunkOk(q[k])
  /\ \A k \in 1..Len(q) : q[k].kind = "finish" =>
        /\ Final(rq, u) /\ Fits(rq, u, q[k].fin)
        /\ \A j \in (k + 1)..Len(q) : q[j].kind \in Rest
  /\ \A k \in 1..Len(q) : q[k].kind \in Halts => k = Len(q) /\ u.open = FALSE
  /\ Seen(rq, u, q) => \A k \in 1..Len(q) : q[k].kind \in Rest

\* A list of no chunks.
LEMMA OutEmpty ==
  ASSUME NEW rq, NEW u, NEW q, q = << >>
  PROVE  OutOk(rq, u, q) /\ ~HasFinish(q)
<1>1. q \in Seq(Chunks) /\ Len(q) = 0 /\ 1..0 = {}
  BY EmptySeq
<1>2. QED
  BY <1>1 DEF OutOk, HasFinish

\* A list of one chunk: content before the end, the finish reason, or a halt after it.
LEMMA OneChunk ==
  ASSUME NEW rq, NEW u, NEW c, ChunkOk(c),
         \/ c.kind \in Pieces /\ ~Final(rq, u)
         \/ c.kind = "finish" /\ Final(rq, u) /\ Fits(rq, u, c.fin)
         \/ c.kind \in Halts /\ u.open = FALSE
  PROVE  OutOk(rq, u, <<c>>) /\ (HasFinish(<<c>>) <=> c.kind = "finish")
<1>1. PICK q : q = <<c>>
  OBVIOUS
<1>2. q \in Seq(Chunks) /\ Len(q) = 1 /\ q[1] = c /\ 1..1 = {1}
  BY <1>1 DEF ChunkOk
<1>3. HasFinish(q) <=> c.kind = "finish"
  BY <1>2 DEF HasFinish
<1>4. \A k \in 1..Len(q) : ChunkOk(q[k])
  BY <1>2
<1>5. \A k \in 1..Len(q) : q[k].kind = "finish" =>
        /\ Final(rq, u) /\ Fits(rq, u, q[k].fin)
        /\ \A j \in (k + 1)..Len(q) : q[j].kind \in Rest
  <2>1. (1 + 1)..1 = {}
    OBVIOUS
  <2>2. c.kind = "finish" => Final(rq, u) /\ Fits(rq, u, c.fin)
    BY DEF Pieces, Halts
  <2>3. QED
    BY <1>2, <2>1, <2>2
<1>6. \A k \in 1..Len(q) : q[k].kind \in Halts => k = Len(q) /\ u.open = FALSE
  BY <1>2 DEF Pieces, Halts
<1>7. Seen(rq, u, q) => \A k \in 1..Len(q) : q[k].kind \in Rest
  BY <1>2, <1>3 DEF Seen, Rest
<1>8. QED
  BY <1>1, <1>2, <1>3, <1>4, <1>5, <1>6, <1>7 DEF OutOk

\* The stream goes on in order when its first chunk has been handled.
LEMMA OutTail ==
  ASSUME NEW rq, NEW u, NEW q, q # << >>, OutOk(rq, u, q)
  PROVE  /\ ChunkOk(Head(q)) /\ OutOk(rq, u, Tail(q))
         /\ Seen(rq, u, Tail(q)) <=> (Seen(rq, u, q) \/ Head(q).kind = "finish")
         /\ Head(q).kind = "finish" => Fits(rq, u, Head(q).fin) /\ ~Seen(rq, u, q)
         /\ Head(q).kind \in Pieces => ~Seen(rq, u, q)
         /\ Head(q).kind \in Halts => u.open = FALSE /\ ~HasFinish(q)
<1>1. PICK n : n = Len(q)
  OBVIOUS
<1>2. PICK t, c : t = Tail(q) /\ c = Head(q)
  OBVIOUS
<1>3. q \in Seq(Chunks)
  BY DEF OutOk
<1>4. n \in Nat \ {0} /\ c = q[1] /\ t \in Seq(Chunks) /\ Len(t) = n - 1
      /\ \A k \in 1..(n - 1) : t[k] = q[k + 1]
  BY <1>1, <1>2, <1>3, EmptySeq, HeadTailProperties
<1>5. 1 \in 1..n /\ \A k \in 1..(n - 1) : k + 1 \in 1..n
  BY <1>4
<1>6. ChunkOk(c)
  BY <1>1, <1>4, <1>5 DEF OutOk
<1>7. HasFinish(q) <=> c.kind = "finish" \/ HasFinish(t)
  <2>1. HasFinish(q) => c.kind = "finish" \/ HasFinish(t)
    <3> SUFFICES ASSUME NEW k \in 1..n, q[k].kind = "finish" PROVE c.kind = "finish" \/ HasFinish(t)
      BY <1>1 DEF HasFinish
    <3>1. CASE k = 1
      BY <1>4, <3>1
    <3>2. CASE k # 1
      <4>1. k - 1 \in 1..(n - 1) /\ (k - 1) + 1 = k
        BY <1>4, <3>2
      <4>2. t[k - 1] = q[k]
        BY <1>4, <4>1
      <4>3. QED
        BY <1>4, <4>1, <4>2 DEF HasFinish
    <3>3. QED
      BY <3>1, <3>2
  <2>2. c.kind = "finish" => HasFinish(q)
    BY <1>1, <1>4, <1>5 DEF HasFinish
  <2>3. HasFinish(t) => HasFinish(q)
    <3> SUFFICES ASSUME NEW k \in 1..(n - 1), t[k].kind = "finish" PROVE HasFinish(q)
      BY <1>4 DEF HasFinish
    <3>1. k + 1 \in 1..n /\ q[k + 1].kind = "finish"
      BY <1>4, <1>5
    <3>2. QED
      BY <1>1, <3>1 DEF HasFinish
  <2>4. QED
    BY <2>1, <2>2, <2>3
<1>8. c.kind = "finish" => /\ Final(rq, u) /\ Fits(rq, u, c.fin)
                           /\ \A j \in 2..n : q[j].kind \in Rest
  BY <1>1, <1>4, <1>5 DEF OutOk
<1>9. c.kind = "finish" => \A k \in 1..(n - 1) : t[k].kind \in Rest
  <2> SUFFICES ASSUME c.kind = "finish", NEW k \in 1..(n - 1) PROVE t[k].kind \in Rest
    OBVIOUS
  <2>1. k + 1 \in 2..n
    BY <1>4
  <2>2. QED
    BY <1>4, <1>8, <2>1
<1>10. c.kind = "finish" => ~HasFinish(t)
  BY <1>4, <1>9 DEF HasFinish, Rest, Halts
<1>11. Seen(rq, u, t) <=> (Seen(rq, u, q) \/ c.kind = "finish")
  BY <1>7, <1>8, <1>10 DEF Seen
<1>12. OutOk(rq, u, t)
  <2>1. \A k \in 1..Len(t) : ChunkOk(t[k])
    BY <1>1, <1>4, <1>5 DEF OutOk
  <2>2. ASSUME NEW k \in 1..Len(t), t[k].kind = "finish"
        PROVE  /\ Final(rq, u) /\ Fits(rq, u, t[k].fin)
               /\ \A j \in (k + 1)..Len(t) : t[j].kind \in Rest
    <3>1. k + 1 \in 1..n /\ t[k] = q[k + 1]
      BY <1>4, <1>5
    <3>2. Final(rq, u) /\ Fits(rq, u, q[k + 1].fin) /\ \A j \in ((k + 1) + 1)..n : q[j].kind \in Rest
      BY <1>1, <2>2, <3>1 DEF OutOk
    <3>3. ASSUME NEW j \in (k + 1)..Len(t) PROVE t[j].kind \in Rest
      <4>1. j \in 1..(n - 1) /\ j + 1 \in ((k + 1) + 1)..n
        BY <1>4
      <4>2. QED
        BY <1>4, <3>2, <4>1
    <3>4. QED
      BY <3>1, <3>2, <3>3
  <2>3. ASSUME NEW k \in 1..Len(t), t[k].kind \in Halts PROVE k = Len(t) /\ u.open = FALSE
    <3>1. k + 1 \in 1..n /\ t[k] = q[k + 1]
      BY <1>4, <1>5
    <3>2. k + 1 = n /\ u.open = FALSE
      BY <1>1, <2>3, <3>1 DEF OutOk
    <3>3. QED
      BY <1>4, <3>2
  <2>4. ASSUME Seen(rq, u, t), NEW k \in 1..Len(t) PROVE t[k].kind \in Rest
    <3>1. CASE c.kind = "finish"
      BY <1>4, <1>9, <3>1
    <3>2. CASE Seen(rq, u, q)
      BY <1>1, <1>4, <1>5, <3>2 DEF OutOk
    <3>3. QED
      BY <1>11, <2>4, <3>1, <3>2
  <2>5. QED
    BY <1>4, <2>1, <2>2, <2>3, <2>4 DEF OutOk
<1>13. c.kind \in Pieces => ~Seen(rq, u, q)
  BY <1>1, <1>4, <1>5 DEF OutOk, Pieces, Rest, Halts
<1>14. c.kind = "finish" => ~Seen(rq, u, q)
  BY <1>7 DEF Seen
<1>15. c.kind \in Halts => u.open = FALSE /\ ~HasFinish(q)
  <2> SUFFICES ASSUME c.kind \in Halts PROVE u.open = FALSE /\ ~HasFinish(q)
    OBVIOUS
  <2>1. 1 = n /\ u.open = FALSE
    BY <1>1, <1>4, <1>5 DEF OutOk
  <2>2. c.kind # "finish"
    BY DEF Halts
  <2>3. \A k \in 1..n : k = 1
    BY <2>1
  <2>4. ~HasFinish(q)
    BY <1>1, <1>4, <2>2, <2>3 DEF HasFinish
  <2>5. QED
    BY <2>1, <2>4
<1>16. QED
  BY <1>2, <1>6, <1>8, <1>11, <1>12, <1>13, <1>14, <1>15

\* The chunks with content come first, then the three that the converter ends with.
LEMMA OutOfTail ==
  ASSUME NEW rq, NEW u, u.open = FALSE, rq.proto # "openai",
         NEW p \in Seq(Chunks), \A k \in 1..Len(p) : ChunkOk(p[k]) /\ p[k].kind \in Pieces,
         NEW fr, ChunkOk(fr), fr.kind = "finish", Fits(rq, u, fr.fin),
         NEW g, ChunkOk(g), g.kind = "usage",
         NEW d, ChunkOk(d), d.kind = "done"
  PROVE  OutOk(rq, u, p \o <<fr, g, d>>) /\ HasFinish(p \o <<fr, g, d>>)
<1>1. PICK q, z, n : q = p \o <<fr, g, d>> /\ z = <<fr, g, d>> /\ n = Len(p)
  OBVIOUS
<1>2. z \in Seq(Chunks) /\ Len(z) = 3 /\ z[1] = fr /\ z[2] = g /\ z[3] = d
  BY <1>1 DEF ChunkOk
<1>3. n \in Nat
  BY <1>1, LenProperties
<1>4. /\ q \in Seq(Chunks) /\ Len(q) = n + 3
      /\ \A k \in 1..(n + 3) : q[k] = IF k <= n THEN p[k] ELSE z[k - n]
  BY <1>1, <1>2, ConcatProperties
<1>5. q[n + 1] = fr /\ q[n + 2] = g /\ q[n + 3] = d
  <2>1. n + 1 \in 1..(n + 3) /\ n + 2 \in 1..(n + 3) /\ n + 3 \in 1..(n + 3)
        /\ ~(n + 1 <= n) /\ ~(n + 2 <= n) /\ ~(n + 3 <= n)
        /\ (n + 1) - n = 1 /\ (n + 2) - n = 2 /\ (n + 3) - n = 3
    BY <1>3
  <2>2. QED
    BY <1>2, <1>4, <2>1
<1>6. \A k \in 1..n : q[k] = p[k]
  BY <1>3, <1>4
<1>7. ASSUME NEW k \in 1..(n + 3) PROVE k \in 1..n \/ k = n + 1 \/ k = n + 2 \/ k = n + 3
  BY <1>3
<1>8. ASSUME NEW k \in 1..n PROVE ChunkOk(q[k]) /\ q[k].kind \in Pieces
  BY <1>1, <1>6
<1>9. \A k \in 1..(n + 3) : ChunkOk(q[k])
  BY <1>5, <1>7, <1>8
<1>10. \A k \in 1..(n + 3) : q[k].kind = "finish" => k = n + 1
  BY <1>5, <1>7, <1>8 DEF Pieces
<1>11. \A k \in 1..(n + 3) : q[k].kind \in Halts => k = n + 3
  BY <1>5, <1>7, <1>8 DEF Pieces, Halts
<1>12. Final(rq, u)
  BY DEF Final
<1>13. \A j \in ((n + 1) + 1)..(n + 3) : q[j].kind \in Rest
  <2> SUFFICES ASSUME NEW j \in ((n + 1) + 1)..(n + 3) PROVE q[j].kind \in Rest
    OBVIOUS
  <2>1. j = n + 2 \/ j = n + 3
    BY <1>3
  <2>2. QED
    BY <1>5, <2>1 DEF Rest, Halts
<1>14. HasFinish(q)
  <2>1. n + 1 \in 1..(n + 3)
    BY <1>3
  <2>2. QED
    BY <1>4, <1>5, <2>1 DEF HasFinish
<1>15. OutOk(rq, u, q)
  <2>1. \A k \in 1..Len(q) : q[k].kind = "finish" =>
          /\ Final(rq, u) /\ Fits(rq, u, q[k].fin)
          /\ \A j \in (k + 1)..Len(q) : q[j].kind \in Rest
    BY <1>4, <1>5, <1>10, <1>12, <1>13
  <2>2. QED
    BY <1>4, <1>9, <1>11, <1>14, <2>1 DEF OutOk, Seen
<1>16. QED
  BY <1>1, <1>14, <1>15

SaidItems == [kind : Pieces, tool : Nat]

\* Only of a reply without calls the status of response.completed tells.
StatusHeard == up.fin = "incomplete" => Calls = 0

StreamOk ==
  /\ req \in Reqs /\ said \in Seq(SaidItems) /\ conv \in Seq(Seq(Nat))
  /\ UpOk(req, up) /\ OutOk(req, up, out) /\ StatusHeard

\* What the vendor has said and the reason of its end stay.
LEMMA SameStatus ==
  ASSUME StatusHeard, said' = said, up'.fin = up.fin
  PROVE  StatusHeard'
<1>1. Calls' = Calls
  BY DEF Calls
<1>2. QED
  BY <1>1 DEF StatusHeard

\* The types of what the vendor has said.
LEMMA CallsCounted ==
  ASSUME said \in Seq(SaidItems)
  PROVE  Calls \in Nat /\ This \in Nat /\ DOMAIN said = 1..Len(said) /\ Len(said) \in Nat
<1>1. Len(said) \in Nat /\ DOMAIN said = 1..Len(said)
  BY LenProperties
<1>2. PICK m \in Nat : m = Len(said)
  BY <1>1
<1>3. PICK C : C = {n \in DOMAIN said : said[n].kind = "call"}
  OBVIOUS
<1>4. C \in SUBSET (1..m)
  BY <1>1, <1>2, <1>3
<1>5. IsFiniteSet(C)
  BY <1>4, FiniteNumbers
<1>6. Cardinality(C) \in Nat
  BY <1>5, FS_CardinalityType
<1>7. QED
  BY <1>1, <1>3, <1>6 DEF Calls, This

\* A chunk with content.
LEMMA DeltaOk ==
  ASSUME NEW kind \in Pieces, NEW tool \in Nat, NEW data \in Seq(Nat),
         kind \in {"call", "args"} \/ tool = NoTool
  PROVE  ChunkOk(Delta(kind, tool, data)) /\ Delta(kind, tool, data).kind = kind
<1>1. Delta(kind, tool, data) \in Chunks
  BY DEF Delta, Chunks, EndNames
<1>2. QED
  BY <1>1 DEF Delta, ChunkOk

\* A chunk without content.
LEMMA ClosingOk ==
  ASSUME NEW kind \in Rest \cup {"finish"}, NEW fin \in EndNames, NEW counted \in BOOLEAN
  PROVE  ChunkOk(Closing(kind, fin, counted)) /\ Closing(kind, fin, counted).kind = kind
         /\ Closing(kind, fin, counted).fin = fin
<1>1. << >> \in Seq(Nat)
  BY EmptySeq
<1>2. Closing(kind, fin, counted) \in Chunks
  BY <1>1 DEF Closing, Chunks, NoTool
<1>3. QED
  BY <1>2 DEF Closing, ChunkOk, Rest, Halts

\* The calls that a converter keeps back become chunks with content.
LEMMA KeptOk ==
  ASSUME conv \in Seq(Seq(Nat))
  PROVE  Kept \in Seq(Chunks) /\ \A k \in 1..Len(Kept) : ChunkOk(Kept[k]) /\ Kept[k].kind \in Pieces
<1>1. PICK m \in Nat : m = Len(conv) /\ DOMAIN conv = 1..m
  BY LenProperties
<1>2. PICK C : C = {t \in DOMAIN conv : conv[t] # << >>}
  OBVIOUS
<1>3. C \in SUBSET (1..m)
  BY <1>1, <1>2
<1>4. C \in SUBSET Nat /\ IsFiniteSet(C)
  BY <1>3, FiniteNumbers
<1>5. PICK ts, n : ts = Ascending(C) /\ n = Cardinality(C)
  OBVIOUS
<1>6. Lists(C, ts, n)
  BY <1>4, <1>5, AscendingFacts
<1>7. n \in Nat /\ ts \in [1..n -> C] /\ DOMAIN ts = 1..n
  BY <1>6 DEF Lists
<1>8. PICK q : q = [k \in DOMAIN ts |-> Delta("args", ts[k], conv[ts[k]])]
  OBVIOUS
<1>9. ASSUME NEW k \in 1..n PROVE ChunkOk(q[k]) /\ q[k].kind \in Pieces
  <2>1. PICK t, kind : t = ts[k] /\ kind = "args"
    OBVIOUS
  <2>2. t \in 1..m /\ t \in Nat
    BY <1>3, <1>7, <2>1
  <2>3. conv[t] \in Seq(Nat)
    BY <1>1, <2>2, ElementOfSeq
  <2>4. kind \in Pieces /\ kind \in {"call", "args"}
    BY <2>1 DEF Pieces
  <2>5. ChunkOk(Delta(kind, t, conv[t])) /\ Delta(kind, t, conv[t]).kind = kind
    BY <2>2, <2>3, <2>4, DeltaOk
  <2>6. q[k] = Delta(kind, t, conv[t])
    BY <1>7, <1>8, <2>1
  <2>7. QED
    BY <2>4, <2>5, <2>6
<1>10. q \in [1..n -> Chunks]
  BY <1>7, <1>8, <1>9 DEF ChunkOk
<1>11. q \in Seq(Chunks) /\ Len(q) = n
  BY <1>7, <1>10, ListOf
<1>12. Kept = q
  BY <1>2, <1>5, <1>8 DEF Kept
<1>13. QED
  BY <1>9, <1>11, <1>12

\* What an adapter ends with, once the vendor's stream has ended.
LEMMA TailOk ==
  ASSUME StreamOk, ~Passes, NEW u, u.open = FALSE, u.fin = up.fin
  PROVE  OutOk(req, u, ConverterTail) /\ HasFinish(ConverterTail)
<1>1. req \in Reqs /\ said \in Seq(SaidItems) /\ conv \in Seq(Seq(Nat)) /\ up \in Ups
  BY DEF StreamOk, UpOk
<1>2. PICK a : a = IF up.fin = "failed" THEN <<Delta("text", NoTool, <<Failure>>)>> ELSE << >>
  OBVIOUS
<1>3. a \in Seq(Chunks) /\ \A k \in 1..Len(a) : ChunkOk(a[k]) /\ a[k].kind \in Pieces
  <2>1. CASE up.fin = "failed"
    <3>1. PICK kind, tool, data : kind = "text" /\ tool = NoTool /\ data = <<Failure>>
      OBVIOUS
    <3>2. kind \in Pieces /\ tool \in Nat /\ data \in Seq(Nat)
      BY <3>1 DEF Pieces, NoTool, Failure
    <3>3. PICK c : c = Delta(kind, tool, data)
      OBVIOUS
    <3>4. ChunkOk(c) /\ c.kind = kind
      BY <3>1, <3>2, <3>3, DeltaOk
    <3>5. a = <<c>>
      BY <1>2, <2>1, <3>1, <3>3
    <3>6. Len(a) = 1 /\ a[1] = c /\ \A k \in 1..1 : k = 1
      BY <3>5
    <3>7. a \in Seq(Chunks)
      BY <3>4, <3>5 DEF ChunkOk
    <3>8. QED
      BY <3>2, <3>4, <3>6, <3>7
  <2>2. CASE up.fin # "failed"
    <3>1. a = << >> /\ a \in Seq(Chunks) /\ Len(a) = 0 /\ 1..0 = {}
      BY <1>2, <2>2, EmptySeq
    <3>2. QED
      BY <3>1
  <2>3. QED
    BY <2>1, <2>2
<1>4. PICK b \in Seq(Chunks) : b = Kept /\ \A k \in 1..Len(b) : ChunkOk(b[k]) /\ b[k].kind \in Pieces
  BY <1>1, KeptOk
<1>5. PICK p : p = a \o b
  OBVIOUS
<1>6. p \in Seq(Chunks) /\ \A k \in 1..Len(p) : ChunkOk(p[k]) /\ p[k].kind \in Pieces
  <2>1. PICK n, m : n = Len(a) /\ m = Len(b)
    OBVIOUS
  <2>2. n \in Nat /\ m \in Nat
    BY <1>3, <1>4, <2>1, LenProperties
  <2>3. /\ p \in Seq(Chunks) /\ Len(p) = n + m
        /\ \A k \in 1..(n + m) : p[k] = IF k <= n THEN a[k] ELSE b[k - n]
    BY <1>3, <1>4, <1>5, <2>1, ConcatProperties
  <2>4. ASSUME NEW k \in 1..(n + m) PROVE ChunkOk(p[k]) /\ p[k].kind \in Pieces
    <3>1. CASE k <= n
      <4>1. k \in 1..n
        BY <2>2, <3>1
      <4>2. QED
        BY <1>3, <2>1, <2>3, <3>1, <4>1
    <3>2. CASE ~(k <= n)
      <4>1. k - n \in 1..m
        BY <2>2, <3>2
      <4>2. QED
        BY <1>4, <2>1, <2>3, <3>2, <4>1
    <3>3. QED
      BY <3>1, <3>2
  <2>5. QED
    BY <2>3, <2>4
<1>7. PICK fin : fin = FinishReason
  OBVIOUS
<1>8. fin \in EndNames /\ Fits(req, u, fin)
  <2>1. req.proto \in {"anthropic", "gemini", "responses"} /\ up.fin \in EndNames
    BY <1>1 DEF Passes, Reqs, Ups
  <2>2. CASE req.proto = "anthropic"
    BY <1>7, <2>1, <2>2 DEF FinishReason, anthropicFinishReason, EndNames, Fits
  <2>3. CASE req.proto = "gemini"
    BY <1>7, <2>1, <2>3 DEF FinishReason, geminiFinishReason, EndNames, Fits
  <2>4. CASE req.proto = "responses"
    <3>1. Calls \in Nat /\ (u.fin = "incomplete" => Calls = 0)
      BY <1>1, CallsCounted DEF StreamOk, StatusHeard
    <3>2. CASE Calls = 0
      <4>1. fin = responsesFinishReason(u.fin) /\ ~(Calls > 0)
        BY <1>7, <2>4, <3>2 DEF FinishReason
      <4>2. fin = IF u.fin = "incomplete" THEN "length" ELSE "stop"
        BY <3>2, <4>1 DEF responsesFinishReason
      <4>3. QED
        BY <2>4, <4>2 DEF EndNames, Fits
    <3>3. CASE Calls > 0
      <4>1. fin = responsesFinishReason(u.fin) /\ Calls # 0
        BY <1>7, <2>4, <3>1, <3>3 DEF FinishReason
      <4>2. fin = "tool_calls"
        BY <3>3, <4>1 DEF responsesFinishReason
      <4>3. QED
        BY <2>4, <3>1, <4>1, <4>2 DEF EndNames, Fits
    <3>4. QED
      BY <3>1, <3>2, <3>3
  <2>5. QED
    BY <2>1, <2>2, <2>3, <2>4
<1>9. PICK none, no, yes : none = "" /\ no = FALSE /\ yes = UsageSeen
  OBVIOUS
<1>10. none \in EndNames /\ no \in BOOLEAN /\ yes \in BOOLEAN
  <2>1. UsageSeen \in BOOLEAN
    BY <1>1 DEF UsageSeen, Reqs
  <2>2. QED
    BY <1>9, <2>1 DEF EndNames
<1>11. PICK kf, ku, kd : kf = "finish" /\ ku = "usage" /\ kd = "done"
  OBVIOUS
<1>12. kf \in Rest \cup {"finish"} /\ ku \in Rest \cup {"finish"} /\ kd \in Rest \cup {"finish"}
  BY <1>11 DEF Rest, Halts
<1>13. PICK fr, g, d : /\ fr = Closing(kf, fin, no) /\ g = Closing(ku, none, yes)
                      /\ d = Closing(kd, none, no)
  OBVIOUS
<1>14. ChunkOk(fr) /\ fr.kind = "finish" /\ fr.fin = fin
  BY <1>8, <1>10, <1>11, <1>12, <1>13, ClosingOk
<1>15. ChunkOk(g) /\ g.kind = "usage" /\ ChunkOk(d) /\ d.kind = "done"
  BY <1>10, <1>11, <1>12, <1>13, ClosingOk
<1>16. ConverterTail = p \o <<fr, g, d>>
  <2>1. PICK z : z = <<fr, g, d>>
    OBVIOUS
  <2>2. z \in Seq(Chunks)
    BY <1>14, <1>15, <2>1 DEF ChunkOk
  <2>3. ConverterTail = a \o b \o z
    BY <1>2, <1>4, <1>7, <1>9, <1>11, <1>13, <2>1 DEF ConverterTail
  <2>4. QED
    BY <1>5, <2>1, <2>3
<1>17. OutOk(req, u, p \o <<fr, g, d>>) /\ HasFinish(p \o <<fr, g, d>>)
  <2>1. req.proto # "openai"
    BY DEF Passes
  <2>2. Fits(req, u, fr.fin)
    BY <1>8, <1>14
  <2>3. QED
    BY <1>6, <1>14, <1>15, <2>1, <2>2, OutOfTail
<1>18. QED
  BY <1>16, <1>17

VendorSteps == \/ VendorText \/ VendorThinks \/ VendorCalls \/ VendorArgs
               \/ VendorFinishes \/ VendorEnds

\* What the vendor and the converter leave alone, and what a handler knows of them.
Onward ==
  /\ StreamOk'
  /\ UNCHANGED <<req, h, emit, client, record>> /\ emit = << >> /\ ~h.ended
  /\ (Seen(req, up, out)' <=> Seen(req, up, out))
  /\ Seen(req, up, out) => up'.fin = up.fin
  /\ up'.cut = up.cut \/ up'.cut = TRUE

\* The vendor says something before its finish reason: at most one chunk, with content.
LEMMA SpeaksOnward ==
  ASSUME StreamOk, Speaks, UNCHANGED <<req, up, h, emit, client, record>>,
         said' \in Seq(SaidItems), conv' \in Seq(Seq(Nat)),
         \/ out' = out
         \/ \E c : out' = <<c>> /\ ChunkOk(c) /\ c.kind \in Pieces
  PROVE  Onward
<1>1. /\ req \in Reqs /\ UpOk(req, up) /\ up \in Ups /\ up.open = TRUE /\ up.fin = ""
      /\ emit = << >> /\ ~h.ended /\ out = << >>
  BY DEF StreamOk, Speaks, Pumps, UpOk, Ups
<1>2. ~Final(req, up)
  BY <1>1 DEF Final
<1>3. OutOk(req, up, out')
  <2>1. CASE out' = out
    BY <2>1 DEF StreamOk
  <2>2. CASE \E c : out' = <<c>> /\ ChunkOk(c) /\ c.kind \in Pieces
    <3>1. PICK c : out' = <<c>> /\ ChunkOk(c) /\ c.kind \in Pieces
      BY <2>2
    <3>2. OutOk(req, up, <<c>>)
      BY <1>2, <3>1, OneChunk
    <3>3. QED
      BY <3>1, <3>2
  <2>3. QED
    BY <2>1, <2>2
<1>4. StreamOk'
  <2>1. up' = up /\ req' = req /\ up'.fin = ""
    BY <1>1
  <2>2. StatusHeard'
    BY <2>1 DEF StatusHeard
  <2>3. QED
    BY <1>1, <1>3, <2>1, <2>2 DEF StreamOk
<1>5. ~Seen(req, up, out) /\ ~Seen(req, up, out)'
  BY <1>2 DEF Seen
<1>6. QED
  BY <1>1, <1>4, <1>5 DEF Onward

\* What it said is noted.
LEMMA SaidMore ==
  ASSUME StreamOk, NEW kind \in Pieces, NEW tool \in Nat, Says(kind, tool)
  PROVE  said' \in Seq(SaidItems)
<1>1. said \in Seq(SaidItems)
  BY DEF StreamOk
<1>2. Item(kind, tool) \in SaidItems
  BY DEF Item, SaidItems
<1>3. QED
  BY <1>1, <1>2, AppendProperties DEF Says

\* Each of the vendor's steps keeps the stream in order and the handler as it was.
LEMMA VendorTextOnward == ASSUME StreamOk, VendorText PROVE Onward
<1>1. PICK kind, tool, data : kind = "text" /\ tool = NoTool /\ data = <<This>>
  OBVIOUS
<1>2. kind \in Pieces /\ tool \in Nat /\ data \in Seq(Nat)
  <2>1. This \in Nat
    BY CallsCounted DEF StreamOk
  <2>2. QED
    BY <1>1, <2>1 DEF Pieces, NoTool
<1>3. said' \in Seq(SaidItems)
  BY <1>1, <1>2, SaidMore DEF VendorText
<1>4. ChunkOk(Delta(kind, tool, data)) /\ Delta(kind, tool, data).kind = kind
  BY <1>1, <1>2, DeltaOk
<1>5. PICK c : c = Delta(kind, tool, data)
  OBVIOUS
<1>6. out' = <<c>> /\ ChunkOk(c) /\ c.kind \in Pieces
  BY <1>1, <1>2, <1>4, <1>5 DEF VendorText
<1>7. Speaks /\ UNCHANGED <<req, up, h, emit, client, record>> /\ conv' \in Seq(Seq(Nat))
  BY DEF VendorText, StreamOk
<1>8. QED
  BY <1>3, <1>6, <1>7, SpeaksOnward

LEMMA VendorThinksOnward == ASSUME StreamOk, VendorThinks PROVE Onward
<1>1. PICK kind, tool, data : kind = "thinking" /\ tool = NoTool /\ data = <<This>>
  OBVIOUS
<1>2. kind \in Pieces /\ tool \in Nat /\ data \in Seq(Nat)
  <2>1. This \in Nat
    BY CallsCounted DEF StreamOk
  <2>2. QED
    BY <1>1, <2>1 DEF Pieces, NoTool
<1>3. said' \in Seq(SaidItems)
  BY <1>1, <1>2, SaidMore DEF VendorThinks
<1>4. ChunkOk(Delta(kind, tool, data)) /\ Delta(kind, tool, data).kind = kind
  BY <1>1, <1>2, DeltaOk
<1>5. PICK c : c = Delta(kind, tool, data)
  OBVIOUS
<1>6. out' = <<c>> /\ ChunkOk(c) /\ c.kind \in Pieces
  BY <1>1, <1>2, <1>4, <1>5 DEF VendorThinks
<1>7. Speaks /\ UNCHANGED <<req, up, h, emit, client, record>> /\ conv' \in Seq(Seq(Nat))
  BY DEF VendorThinks, StreamOk
<1>8. QED
  BY <1>3, <1>6, <1>7, SpeaksOnward

LEMMA VendorCallsOnward == ASSUME StreamOk, VendorCalls PROVE Onward
<1>1. PICK kind, tool, data : /\ kind = "call" /\ tool = Calls + 1
                              /\ data = IF req.proto = "gemini" THEN <<This>> ELSE << >>
  OBVIOUS
<1>2. kind \in Pieces /\ kind \in {"call", "args"} /\ tool \in Nat /\ data \in Seq(Nat)
  <2>1. This \in Nat /\ Calls \in Nat
    BY CallsCounted DEF StreamOk
  <2>2. QED
    BY <1>1, <2>1 DEF Pieces
<1>3. said' \in Seq(SaidItems)
  BY <1>1, <1>2, SaidMore DEF VendorCalls
<1>4. ChunkOk(Delta(kind, tool, data)) /\ Delta(kind, tool, data).kind = kind
  BY <1>1, <1>2, DeltaOk
<1>5. PICK c : c = Delta(kind, tool, data)
  OBVIOUS
<1>6. out' = <<c>> /\ ChunkOk(c) /\ c.kind \in Pieces
  BY <1>1, <1>2, <1>4, <1>5 DEF VendorCalls
<1>7. Speaks /\ UNCHANGED <<req, up, h, emit, client, record>>
  BY DEF VendorCalls
<1>8. conv' \in Seq(Seq(Nat))
  <2>1. conv \in Seq(Seq(Nat)) /\ << >> \in Seq(Nat) /\ conv' = Append(conv, << >>)
    BY EmptySeq DEF StreamOk, VendorCalls
  <2>2. PICK e \in Seq(Nat) : e = << >>
    BY <2>1
  <2>3. QED
    BY <2>1, <2>2, AppendProperties
<1>9. QED
  BY <1>3, <1>6, <1>7, <1>8, SpeaksOnward

LEMMA VendorArgsOnward == ASSUME StreamOk, VendorArgs PROVE Onward
<1>0. This \in Nat /\ Calls \in Nat
  BY CallsCounted DEF StreamOk
<1>1. PICK t \in 1..Calls :
           /\ Says("args", t)
           /\ IF Passes
              THEN out' = <<Delta("args", t, <<This>>)>> /\ UNCHANGED conv
              ELSE conv' = [conv EXCEPT ![t] = Append(@, This)] /\ UNCHANGED out
  BY DEF VendorArgs
<1>2. PICK kind, data : kind = "args" /\ data = <<This>>
  OBVIOUS
<1>3. kind \in Pieces /\ kind \in {"call", "args"} /\ t \in Nat /\ data \in Seq(Nat)
  BY <1>0, <1>2 DEF Pieces
<1>4. said' \in Seq(SaidItems)
  BY <1>1, <1>2, <1>3, SaidMore
<1>5. Speaks /\ UNCHANGED <<req, up, h, emit, client, record>>
  BY DEF VendorArgs
<1>6. conv \in Seq(Seq(Nat))
  BY DEF StreamOk
<1>7. CASE Passes
  <2>1. ChunkOk(Delta(kind, t, data)) /\ Delta(kind, t, data).kind = kind
    BY <1>3, DeltaOk
  <2>2. PICK c : c = Delta(kind, t, data)
    OBVIOUS
  <2>3. out' = <<c>> /\ ChunkOk(c) /\ c.kind \in Pieces /\ conv' = conv
    BY <1>1, <1>2, <1>3, <1>7, <2>1, <2>2
  <2>4. QED
    BY <1>4, <1>5, <1>6, <2>3, SpeaksOnward
<1>8. CASE ~Passes
  <2>1. out' = out /\ conv' = [conv EXCEPT ![t] = Append(conv[t], This)]
    BY <1>1, <1>8
  <2>2. DOMAIN conv = 1..Len(conv) /\ Len(conv) \in Nat /\ \A k \in 1..Len(conv) : conv[k] \in Seq(Nat)
    BY <1>6, LenProperties, ElementOfSeq
  <2>3. PICK n \in Nat : n = Len(conv)
    BY <2>2
  <2>4. ASSUME NEW k \in 1..n PROVE conv'[k] \in Seq(Nat)
    <3>1. conv[k] \in Seq(Nat)
      BY <2>2, <2>3
    <3>2. Append(conv[k], This) \in Seq(Nat)
      BY <1>0, <3>1, AppendProperties
    <3>3. QED
      BY <2>1, <2>2, <2>3, <3>1, <3>2
  <2>5. conv' \in [1..n -> Seq(Nat)]
    BY <2>1, <2>2, <2>3, <2>4
  <2>6. conv' \in Seq(Seq(Nat))
    BY <2>5, ListOf
  <2>7. QED
    BY <1>4, <1>5, <2>1, <2>6, SpeaksOnward
<1>9. QED
  BY <1>7, <1>8

LEMMA VendorFinishesOnward == ASSUME StreamOk, VendorFinishes PROVE Onward
<1>1. PICK fin \in VendorReasons :
           /\ up' = [up EXCEPT !.fin = fin]
           /\ out' = IF Passes THEN <<Closing("finish", fin, FALSE)>> ELSE << >>
  BY DEF VendorFinishes
<1>2. fin \in EndNames /\ fin # ""
  BY DEF VendorReasons, EndNames
<1>3. /\ req \in Reqs /\ UpOk(req, up) /\ up \in Ups /\ up.open = TRUE /\ up.fin = ""
      /\ emit = << >> /\ ~h.ended /\ out = << >>
  BY DEF StreamOk, VendorFinishes, Pumps, UpOk, Ups
<1>4. up' \in Ups /\ up'.open = TRUE /\ up'.fin = fin /\ up'.cut = up.cut
  BY <1>1, <1>2, <1>3 DEF Ups
<1>5. UNCHANGED <<req, said, conv, h, emit, client, record>>
  BY DEF VendorFinishes
<1>6. UpOk(req, up')
  BY <1>3, <1>4 DEF UpOk
<1>7. ~Final(req, up)
  BY <1>3 DEF Final
<1>8. OutOk(req, up', out') /\ ~Seen(req, up', out')
  <2>1. CASE Passes
    <3>1. PICK kind, no : kind = "finish" /\ no = FALSE
      OBVIOUS
    <3>2. PICK c : c = Closing(kind, fin, no)
      OBVIOUS
    <3>3. ChunkOk(c) /\ c.kind = "finish" /\ c.fin = fin
      BY <1>2, <3>1, <3>2, ClosingOk
    <3>4. Final(req, up') /\ Fits(req, up', fin)
      BY <1>2, <1>4, <2>1 DEF Final, Fits, Passes
    <3>5. OutOk(req, up', <<c>>) /\ HasFinish(<<c>>)
      BY <3>3, <3>4, OneChunk
    <3>6. out' = <<c>>
      BY <1>1, <2>1, <3>1, <3>2
    <3>7. QED
      BY <3>5, <3>6 DEF Seen
  <2>2. CASE ~Passes
    <3>1. out' = << >>
      BY <1>1, <2>2
    <3>2. OutOk(req, up', out')
      BY <3>1, OutEmpty
    <3>3. ~Final(req, up')
      BY <1>4, <2>2 DEF Final, Passes
    <3>4. QED
      BY <3>2, <3>3 DEF Seen
  <2>3. QED
    BY <2>1, <2>2
<1>9. StreamOk'
  <2>1. fin = "incomplete" => Calls = 0
    BY DEF VendorReasons
  <2>2. Calls' = Calls
    BY <1>5 DEF Calls
  <2>3. StatusHeard'
    BY <1>4, <2>1, <2>2 DEF StatusHeard
  <2>4. QED
    BY <1>3, <1>5, <1>6, <1>8, <2>3 DEF StreamOk
<1>10. ~Seen(req, up, out) /\ ~Seen(req, up, out)'
  BY <1>5, <1>7, <1>8 DEF Seen
<1>11. QED
  BY <1>3, <1>4, <1>5, <1>9, <1>10 DEF Onward

LEMMA VendorEndsOnward == ASSUME StreamOk, VendorEnds PROVE Onward
<1>1. up' = [up EXCEPT !.open = FALSE, !.cut = Passes /\ up.fin = ""]
  BY DEF VendorEnds
<1>2. /\ req \in Reqs /\ UpOk(req, up) /\ up \in Ups /\ up.open = TRUE
      /\ emit = << >> /\ ~h.ended /\ out = << >>
  BY DEF StreamOk, VendorEnds, Pumps, UpOk, Ups
<1>3. UNCHANGED <<req, said, conv, h, emit, client, record>>
  BY DEF VendorEnds
<1>4. up' \in Ups /\ up'.open = FALSE /\ up'.fin = up.fin /\ up'.cut = (Passes /\ up.fin = "")
  <2>1. (Passes /\ up.fin = "") \in BOOLEAN
    BY DEF Passes
  <2>2. QED
    BY <1>1, <1>2, <2>1 DEF Ups
<1>5. UpOk(req, up')
  BY <1>4 DEF UpOk, Passes
<1>6. ~HasFinish(out)
  BY <1>2, OutEmpty
<1>7. OutOk(req, up', out') /\ (Seen(req, up', out') <=> Seen(req, up, out))
  <2>1. CASE ~Passes
    <3>1. out' = ConverterTail
      BY <2>1 DEF VendorEnds
    <3>2. PICK u : u = up'
      OBVIOUS
    <3>3. OutOk(req, u, ConverterTail) /\ HasFinish(ConverterTail)
      BY <1>4, <2>1, <3>2, TailOk
    <3>4. ~Final(req, up)
      BY <1>2, <2>1 DEF Final, Passes
    <3>5. QED
      BY <3>1, <3>2, <3>3, <3>4 DEF Seen
  <2>2. CASE Passes
    <3>1. PICK how \in {"done", "eof", "error"} :
             out' = (IF req.counts /\ up.fin # "" /\ how = "done"
                     THEN <<Closing("usage", "", TRUE)>> ELSE << >>)
                    \o <<Closing(how, "", FALSE)>>
      BY <2>2 DEF VendorEnds
    <3>2. PICK none, no, yes, ku : none = "" /\ no = FALSE /\ yes = TRUE /\ ku = "usage"
      OBVIOUS
    <3>3. none \in EndNames /\ how \in Rest \cup {"finish"} /\ ku \in Rest \cup {"finish"}
      BY <3>2 DEF EndNames, Rest, Halts
    <3>4. PICK d, g : d = Closing(how, none, no) /\ g = Closing(ku, none, yes)
      OBVIOUS
    <3>5. ChunkOk(d) /\ d.kind = how /\ ChunkOk(g) /\ g.kind = "usage"
      BY <3>2, <3>3, <3>4, ClosingOk
    <3>6. d.kind \in Halts /\ d.kind # "finish"
      BY <3>5 DEF Halts
    <3>7. Final(req, up') = Final(req, up) /\ (up.fin # "" => Final(req, up'))
      BY <1>4, <2>2 DEF Final, Passes
    <3>8. CASE req.counts /\ up.fin # "" /\ how = "done"
      <4>1. out' = <<g>> \o <<d>>
        BY <3>1, <3>2, <3>4, <3>8
      <4>2. PICK x, y, q : x = <<g>> /\ y = <<d>> /\ q = x \o y
        OBVIOUS
      <4>3. out' = q
        BY <4>1, <4>2
      <4>4. q \in Seq(Chunks) /\ Len(q) = 2 /\ q[1] = g /\ q[2] = d /\ \A k \in 1..2 : k = 1 \/ k = 2
        <5>1. x \in Seq(Chunks) /\ Len(x) = 1 /\ x[1] = g
              /\ y \in Seq(Chunks) /\ Len(y) = 1 /\ y[1] = d
          BY <3>5, <4>2 DEF ChunkOk
        <5>2. /\ q \in Seq(Chunks) /\ Len(q) = Len(x) + Len(y)
              /\ \A k \in 1..(Len(x) + Len(y)) :
                    q[k] = IF k <= Len(x) THEN x[k] ELSE y[k - Len(x)]
          BY <4>2, <5>1, ConcatProperties
        <5>3. 1 \in 1..2 /\ 2 \in 1..2 /\ 1 + 1 = 2 /\ 1 <= 1 /\ ~(2 <= 1) /\ 2 - 1 = 1
          OBVIOUS
        <5>4. QED
          BY <5>1, <5>2, <5>3
      <4>5. \A k \in 1..2 : q[k].kind \in Rest /\ q[k].kind # "finish" /\ ChunkOk(q[k])
        BY <3>5, <3>6, <4>4 DEF Rest
      <4>6. ~HasFinish(q)
        BY <4>4, <4>5 DEF HasFinish
      <4>7. \A k \in 1..2 : q[k].kind \in Halts => k = 2
        BY <3>5, <4>4 DEF Halts
      <4>8. OutOk(req, up', q)
        BY <1>4, <4>4, <4>5, <4>7 DEF OutOk
      <4>9. QED
        BY <1>6, <3>7, <4>3, <4>6, <4>8 DEF Seen
    <3>9. CASE ~(req.counts /\ up.fin # "" /\ how = "done")
      <4>1. out' = << >> \o <<d>>
        BY <3>1, <3>2, <3>4, <3>9
      <4>2. out' = <<d>>
        <5>1. <<d>> \in Seq(Chunks)
          BY <3>5 DEF ChunkOk
        <5>2. QED
          BY <4>1, <5>1, ConcatEmptySeq
      <4>3. PICK u : u = up'
        OBVIOUS
      <4>4. OutOk(req, u, <<d>>) /\ ~HasFinish(<<d>>)
        BY <1>4, <3>5, <3>6, <4>3, OneChunk
      <4>5. QED
        BY <1>6, <3>7, <4>2, <4>3, <4>4 DEF Seen
    <3>10. QED
      BY <3>8, <3>9
  <2>3. QED
    BY <2>1, <2>2
<1>8. StreamOk'
  <2>1. StatusHeard'
    BY <1>3, <1>4, SameStatus DEF StreamOk
  <2>2. QED
    BY <1>2, <1>3, <1>5, <1>7, <2>1 DEF StreamOk
<1>9. (Seen(req, up, out)' <=> Seen(req, up, out))
  BY <1>3, <1>7 DEF Seen
<1>10. up'.cut = up.cut \/ up'.cut = TRUE
  BY <1>2, <1>4 DEF UpOk, Ups
<1>11. QED
  BY <1>2, <1>3, <1>4, <1>8, <1>9, <1>10 DEF Onward

\* And so all of them do.
LEMMA VendorOnward == ASSUME StreamOk, VendorSteps PROVE Onward
BY VendorTextOnward, VendorThinksOnward, VendorCallsOnward, VendorArgsOnward,
   VendorFinishesOnward, VendorEndsOnward DEF VendorSteps

-----------------------------------------------------------------------------
(* One chunk, handled.                                                      *)

\* Setting counted changes nothing else.
LEMMA CountedFacts ==
  ASSUME NEW s \in States, NEW b \in BOOLEAN, NEW hh, hh = [s.h EXCEPT !.counted = b],
         NEW p, p = [s EXCEPT !.h = hh]
  PROVE  /\ p \in States /\ p.h = hh /\ p.es = s.es /\ hh \in Handlers
         /\ hh.begun = s.h.begun /\ hh.items = s.h.items /\ hh.open = s.h.open
         /\ hh.done = s.h.done /\ hh.status = s.h.status /\ hh.ended = s.h.ended
<1>1. s.h \in Handlers
  BY HandlerType
<1>2. /\ hh \in Handlers /\ hh.begun = s.h.begun /\ hh.items = s.h.items /\ hh.open = s.h.open
      /\ hh.done = s.h.done /\ hh.status = s.h.status /\ hh.ended = s.h.ended
  BY <1>1 DEF Handlers
<1>3. QED
  BY <1>2, StateFacts

\* Not for the Claude handler, 
LEMMA ClaudeCounts ==
  ASSUME NEW cut, NEW cl, NEW s, ClaudeGood(cut, cl, s), NEW b \in BOOLEAN
  PROVE  ClaudeGood(cut, cl, [s EXCEPT !.h.counted = b])
<1>1. PICK v : Course(cut, cl, s.es, v) /\ ClaudeView(v, s.h)
  BY DEF ClaudeGood
<1>2. s \in States
  BY DEF ClaudeGood
<1>3. PICK hh : hh = [s.h EXCEPT !.counted = b]
  OBVIOUS
<1>4. PICK p : p = [s EXCEPT !.h = hh]
  OBVIOUS
<1>5. /\ p \in States /\ p.h = hh /\ p.es = s.es /\ hh \in Handlers
      /\ hh.begun = s.h.begun /\ hh.items = s.h.items /\ hh.open = s.h.open
      /\ hh.ended = s.h.ended
  BY <1>2, <1>3, <1>4, CountedFacts
<1>6. ClaudeView(v, hh)
  <2>1. View(v, hh.begun, hh.items) /\ hh.ended = FALSE
    BY <1>1, <1>5 DEF ClaudeView
  <2>2. \A i \in 1..Len(hh.items) :
           v.items[i].open = (\/ hh.items[i].kind = "call"
                              \/ i = Len(hh.items) /\ hh.items[i].kind \in hh.open)
    BY <1>1, <1>5 DEF ClaudeView
  <2>3. \A k \in hh.open : Len(hh.items) > 0 /\ hh.items[Len(hh.items)].kind = k
    BY <1>1, <1>5 DEF ClaudeView
  <2>4. QED
    BY <1>5, <2>1, <2>2, <2>3 DEF ClaudeView
<1>7. ClaudeGood(cut, cl, p)
  BY <1>1, <1>5, <1>6 DEF ClaudeGood
<1>8. p = [s EXCEPT !.h.counted = b]
  BY <1>2, <1>3, <1>4 DEF States
<1>9. QED
  BY <1>7, <1>8

\* and not for the Responses handler.
LEMMA RespCounts ==
  ASSUME NEW cut, NEW cl, NEW s, RespGood(cut, cl, s), NEW b \in BOOLEAN
  PROVE  RespSo(cut, cl, s, [s EXCEPT !.h.counted = b], s.h.done)
<1>1. PICK v : Course(cut, cl, s.es, v) /\ RespView(v, s.h)
  BY DEF RespGood
<1>2. s \in States
  BY DEF RespGood
<1>3. PICK hh : hh = [s.h EXCEPT !.counted = b]
  OBVIOUS
<1>4. PICK p : p = [s EXCEPT !.h = hh]
  OBVIOUS
<1>5. /\ p \in States /\ p.h = hh /\ p.es = s.es /\ hh \in Handlers
      /\ hh.begun = s.h.begun /\ hh.items = s.h.items /\ hh.done = s.h.done
      /\ hh.status = s.h.status /\ hh.ended = s.h.ended
  BY <1>2, <1>3, <1>4, CountedFacts
<1>6. RespView(v, hh)
  <2>1. View(v, hh.begun, hh.items) /\ hh.ended = FALSE
    BY <1>1, <1>5 DEF RespView
  <2>2. hh.done \subseteq 1..Len(hh.items)
    BY <1>1, <1>5 DEF RespView
  <2>3. \A j \in 1..Len(hh.items) : v.items[j].open = (j \notin hh.done)
    BY <1>1, <1>5 DEF RespView
  <2>4. \A j \in hh.done : v.items[j].status = hh.status
    BY <1>1, <1>5 DEF RespView
  <2>5. /\ \A j, k \in 1..Len(hh.items) :
              hh.items[j].kind = hh.items[k].kind => hh.items[j].kind = "call" \/ j = k
        /\ \A j \in 1..Len(hh.items) : hh.items[j].kind = "call" \/ hh.items[j].tool = NoTool
    BY <1>1, <1>5 DEF RespView
  <2>6. QED
    BY <1>5, <2>1, <2>2, <2>3, <2>4, <2>5 DEF RespView
<1>7. RespGood(cut, cl, p) /\ (Underway(s.h) => Underway(hh))
  BY <1>1, <1>5, <1>6 DEF RespGood, Underway
<1>8. RespSo(cut, cl, s, p, s.h.done)
  BY <1>5, <1>7 DEF RespSo
<1>9. p = [s EXCEPT !.h.counted = b]
  BY <1>2, <1>3, <1>4 DEF States
<1>10. QED
  BY <1>8, <1>9

\* What claudeStreamHandler makes of a chunk before it returns.
LEMMA ClaudeGoesOn ==
  ASSUME NEW cut, NEW cl, NEW s, ClaudeGood(cut, cl, s), NEW c, ChunkOk(c),
         c.kind \in Pieces \cup {"usage"}
  PROVE  ClaudeGood(cut, cl, ClaudeHandles(s, c))
<1>0. c \in Chunks /\ c.tool \in Nat /\ c.data \in Seq(Nat) /\ c.counted \in BOOLEAN
  BY DEF ChunkOk, Chunks
<1>1. PICK p : p = ClaudeHandles(s, c)
  OBVIOUS
<1>2. PICK a : a = Started(s)
  OBVIOUS
<1>3. ClaudeGood(cut, cl, a) /\ Underway(a.h)
  BY <1>2, ClaudeStarts
<1>4. PICK text, thinking, d : text = "text" /\ thinking = "thinking" /\ d = c.data
  OBVIOUS
<1>5. /\ text \in {"text", "thinking"} /\ thinking \in {"text", "thinking"} /\ text # thinking
      /\ d \in Seq(Nat)
  BY <1>0, <1>4
<1>6. CASE c.kind = "usage"
  <2>1. PICK b \in BOOLEAN : b = c.counted
    BY <1>0
  <2>2. p = [s EXCEPT !.h.counted = b]
    BY <1>1, <1>6, <2>1 DEF ClaudeHandles
  <2>3. ClaudeGood(cut, cl, [s EXCEPT !.h.counted = b])
    BY <2>1, ClaudeCounts
  <2>4. QED
    BY <1>1, <2>2, <2>3
<1>7. CASE c.kind = "text"
  <2>1. p = ClaudeWrites(a, text, thinking, d)
    BY <1>1, <1>2, <1>4, <1>7 DEF ClaudeHandles
  <2>2. ClaudeGood(cut, cl, ClaudeWrites(a, text, thinking, d))
    BY <1>3, <1>5, ClaudeWritesOn
  <2>3. QED
    BY <1>1, <2>1, <2>2
<1>8. CASE c.kind = "thinking"
  <2>1. CASE req.want
    <3>1. p = ClaudeWrites(a, thinking, text, d)
      BY <1>1, <1>2, <1>4, <1>8, <2>1 DEF ClaudeHandles
    <3>2. ClaudeGood(cut, cl, ClaudeWrites(a, thinking, text, d))
      BY <1>3, <1>5, ClaudeWritesOn
    <3>3. QED
      BY <1>1, <3>1, <3>2
  <2>2. CASE ~req.want
    <3>1. p = a
      BY <1>1, <1>2, <1>8, <2>2 DEF ClaudeHandles
    <3>2. QED
      BY <1>1, <1>3, <3>1
  <2>3. QED
    BY <2>1, <2>2
<1>9. CASE c.kind \in {"call", "args"}
  <2>1. p = ClaudeTool(a, c)
    BY <1>1, <1>2, <1>9 DEF ClaudeHandles
  <2>2. ClaudeGood(cut, cl, ClaudeTool(a, c))
    BY <1>0, <1>3, ClaudeToolOn
  <2>3. QED
    BY <1>1, <2>1, <2>2
<1>10. QED
  BY <1>6, <1>7, <1>8, <1>9 DEF Pieces

\* What it makes of the one with which it returns.
LEMMA ClaudeReturns ==
  ASSUME NEW cut, NEW cl, NEW s, ClaudeGood(cut, cl, s), NEW c, ChunkOk(c)
  PROVE  /\ c.kind = "finish" => Told(cut, cl, ClaudeHandles(s, c), c.fin)
         /\ c.kind \in Halts /\ cut = TRUE => Told(cut, cl, ClaudeHandles(s, c), "stop")
<1>1. CASE c.kind = "finish"
  <2>1. PICK a : a = Started(s)
    OBVIOUS
  <2>2. ClaudeGood(cut, cl, a) /\ Underway(a.h)
    BY <2>1, ClaudeStarts
  <2>3. PICK fin \in EndNames : fin = c.fin
    BY DEF ChunkOk, Chunks
  <2>4. Told(cut, cl, ClaudeFinishes(a, fin), fin)
    BY <2>2, ClaudeFinishesTold
  <2>5. ClaudeHandles(s, c) = ClaudeFinishes(a, fin)
    BY <1>1, <2>1, <2>3 DEF ClaudeHandles
  <2>6. c.kind \notin Halts
    BY <1>1 DEF Halts
  <2>7. QED
    BY <2>3, <2>4, <2>5, <2>6
<1>2. CASE c.kind \in Halts /\ cut = TRUE
  <2>1. ClaudeHandles(s, c) = ClaudeRunsOut(s) /\ c.kind # "finish"
    BY <1>2 DEF ClaudeHandles, Halts
  <2>2. Told(cut, cl, ClaudeRunsOut(s), "stop")
    BY <1>2, ClaudeRunsOutTold
  <2>3. QED
    BY <2>1, <2>2
<1>3. QED
  BY <1>1, <1>2

\* What responsesStreamHandler makes of the chunks before the finish reason.
LEMMA RespGoesOn ==
  ASSUME NEW cut, NEW cl, NEW s, RespGood(cut, cl, s), s.h.done = {}, NEW c, ChunkOk(c),
         c.kind \in Pieces
  PROVE  RespMore(cut, cl, s, RespHandles(s, c))
<1>0. c \in Chunks /\ c.tool \in Nat /\ c.data \in Seq(Nat)
      /\ (c.kind \in {"call", "args"} \/ c.tool = NoTool)
  BY DEF ChunkOk, Chunks, Pieces
<1>1. PICK p : p = RespHandles(s, c)
  OBVIOUS
<1>2. PICK a : a = Started(s)
  OBVIOUS
<1>3. RespSo(cut, cl, s, a, s.h.done) /\ Underway(a.h)
  BY <1>2, RespStarts
<1>4. RespGood(cut, cl, a) /\ a.h.done = {} /\ a.h.status = s.h.status
  BY <1>3 DEF RespSo
<1>5. CASE p = RespWrites(a, c)
  <2>1. RespMore(cut, cl, a, RespWrites(a, c))
    BY <1>0, <1>3, <1>4, RespWritesOn DEF Pieces
  <2>2. RespMore(cut, cl, a, p)
    BY <1>5, <2>1
  <2>3. RespMore(cut, cl, s, p)
    BY <1>4, <2>2 DEF RespMore
  <2>4. QED
    BY <1>1, <2>3
<1>6. CASE p = a
  <2>1. RespMore(cut, cl, s, a)
    BY <1>3, <1>4 DEF RespMore
  <2>2. QED
    BY <1>1, <1>6, <2>1
<1>7. p = RespWrites(a, c) \/ p = a
  BY <1>1, <1>2 DEF RespHandles, Pieces
<1>8. QED
  BY <1>5, <1>6, <1>7

\* A usage chunk.
LEMMA RespUsage ==
  ASSUME NEW cut, NEW cl, NEW s, RespGood(cut, cl, s), NEW c, ChunkOk(c), c.kind = "usage"
  PROVE  RespMore(cut, cl, s, RespHandles(s, c))
<1>1. PICK a, b : a = Started(s) /\ b = c.counted
  OBVIOUS
<1>2. b \in BOOLEAN
  BY <1>1 DEF ChunkOk, Chunks
<1>3. RespSo(cut, cl, s, a, s.h.done) /\ Underway(a.h)
  BY <1>1, RespStarts
<1>4. RespGood(cut, cl, a) /\ a.h.done = s.h.done /\ a.h.status = s.h.status
  BY <1>3 DEF RespSo
<1>5. PICK p : p = [a EXCEPT !.h.counted = b]
  OBVIOUS
<1>6. RespSo(cut, cl, a, [a EXCEPT !.h.counted = b], a.h.done)
  BY <1>2, <1>4, RespCounts
<1>7. RespSo(cut, cl, a, p, a.h.done)
  BY <1>5, <1>6
<1>8. RespMore(cut, cl, s, p)
  BY <1>3, <1>4, <1>7 DEF RespSo, RespMore
<1>9. RespHandles(s, c) = p
  BY <1>1, <1>5 DEF RespHandles
<1>10. QED
  BY <1>8, <1>9

\* The chunk with the finish reason.
LEMMA RespFinal ==
  ASSUME NEW cut, NEW cl, NEW s, RespGood(cut, cl, s), s.h.done = {}, NEW c, ChunkOk(c),
         c.kind = "finish"
  PROVE  FinishedAs(cut, cl, RespHandles(s, c), IF c.fin = "length" THEN c.fin ELSE s.h.status)
<1>1. PICK a : a = Started(s)
  OBVIOUS
<1>2. RespSo(cut, cl, s, a, s.h.done) /\ Underway(a.h)
  BY <1>1, RespStarts
<1>3. RespGood(cut, cl, a) /\ a.h.done = {} /\ a.h.status = s.h.status
  BY <1>2 DEF RespSo
<1>4. PICK fin \in EndNames : fin = c.fin
  BY DEF ChunkOk, Chunks
<1>5. FinishedAs(cut, cl, RespFinishes(a, fin), IF fin = "length" THEN fin ELSE a.h.status)
  BY <1>2, <1>3, RespFinishesOn
<1>6. RespHandles(s, c) = RespFinishes(a, fin)
  BY <1>1, <1>4 DEF RespHandles
<1>7. QED
  BY <1>3, <1>4, <1>5, <1>6

\* A read error: the handler returns, and says nothing more.
Dropped(cut, cl, s) ==
  /\ s \in States /\ s.h.ended = TRUE
  /\ \E v : Course(cut, cl, s.es, v) /\ v.phase # "over"

\* A read error, after which the Responses handler ends without a terminal event of its own.
LEMMA RespDrops ==
  ASSUME NEW cut, NEW cl, NEW s, RespGood(cut, cl, s), NEW c, c.kind = "error"
  PROVE  Dropped(cut, cl, RespHandles(s, c))
<1>1. PICK v : Course(cut, cl, s.es, v) /\ RespView(v, s.h)
  BY DEF RespGood
<1>2. s \in States /\ s.h \in Handlers
  BY HandlerType DEF RespGood
<1>3. v.phase # "over"
  BY <1>1, <1>2 DEF RespView, View
<1>4. PICK hh : hh = [s.h EXCEPT !.ended = TRUE, !.counted = FALSE]
  OBVIOUS
<1>5. hh \in Handlers /\ hh.ended = TRUE
  BY <1>2, <1>4 DEF Handlers
<1>6. PICK p : p = [s EXCEPT !.h = hh]
  OBVIOUS
<1>7. p \in States /\ p.h = hh /\ p.es = s.es
  BY <1>2, <1>5, <1>6, StateFacts
<1>8. p = [s EXCEPT !.h.ended = TRUE, !.h.counted = FALSE]
  BY <1>2, <1>4, <1>6 DEF States, Handlers
<1>9. RespHandles(s, c) = p
  BY <1>8 DEF RespHandles
<1>10. Dropped(cut, cl, p)
  BY <1>1, <1>3, <1>5, <1>7 DEF Dropped
<1>11. QED
  BY <1>9, <1>10

\* The end of the stream.
LEMMA RespReturns ==
  ASSUME NEW cut, NEW cl, NEW s, RespGood(cut, cl, s), NEW c
  PROVE  c.kind \in {"done", "eof"} /\ (Underway(s.h) \/ cut = TRUE)
            => RespTold(cut, cl, RespHandles(s, c), s.h.status)
<1> SUFFICES ASSUME c.kind \in {"done", "eof"}, Underway(s.h) \/ cut = TRUE
             PROVE  RespTold(cut, cl, RespHandles(s, c), s.h.status)
  OBVIOUS
<1>1. RespHandles(s, c) = RespRunsOut(s)
  BY DEF RespHandles
<1>2. QED
  BY <1>1, RespRunsOutTold

-----------------------------------------------------------------------------
(* The inductive invariant: what the handler knows of the stream, and what  *)
(* the client will have been told.                                          *)

Now == [h |-> h, es |-> emit]

ClaudeOk ==
  \/ ~Seen(req, up, out) /\ ClaudeGood(up.cut, client, Now)
  \/ \E st : Fits(req, up, st) /\ Told(up.cut, client, Now, st)

RespOpen(rq, u, q, cl, s) ==
  /\ RespGood(u.cut, cl, s)
  /\ ~Seen(rq, u, q) => s.h.done = {} /\ s.h.status = "stop"
  /\ Seen(rq, u, q) => Underway(s.h) /\ Fits(rq, u, s.h.status)

RespOk ==
  \/ RespOpen(req, up, out, client, Now)
  \/ \E st : Fits(req, up, st) /\ RespTold(up.cut, client, Now, st)
  \/ Dropped(up.cut, client, Now)

IsClient(cl) ==
  \E a, b, st, o : cl = [phase |-> a, items |-> b, status |-> st, output |-> o]

ChatOk ==
  /\ h \in Handlers /\ IsClient(client)
  /\ \/ emit = << >>
     \/ \E e : /\ emit = <<e>> /\ e.ev \in {"frame", "end"}
               /\ e.ev = "end" => h.ended = TRUE /\ e.status = h.status
  /\ client.phase = "over" => h.ended = TRUE /\ client.status = h.status
  /\ h.ended = TRUE => Fits(req, up, h.status)
  /\ h.ended = FALSE => IF Seen(req, up, out) THEN Fits(req, up, h.status) ELSE h.status = "stop"

\* When the vendor's stream ends and no finish reason has come, it has broken off.
LEMMA HaltFacts ==
  ASSUME StreamOk, ~Seen(req, up, out), up.open = FALSE, ~HasFinish(out)
  PROVE  up.cut = TRUE /\ up.fin = "" /\ Fits(req, up, "stop")
<1>1. ~Final(req, up)
  BY DEF Seen
<1>2. req.proto = "openai" /\ up.fin = ""
  BY <1>1 DEF Final
<1>3. QED
  BY <1>2 DEF StreamOk, UpOk, Fits

\* A chunk for the Claude handler, before and after the finish reason.
LEMMA ClaudeHandle ==
  ASSUME StreamOk, ClaudeOk, Handle, req.api = "claude"
  PROVE  ClaudeOk' /\ StreamOk'
<1>1. /\ out # << >> /\ emit = << >> /\ ~h.ended /\ out' = Tail(out)
      /\ UNCHANGED <<req, said, up, conv, client, record>>
  BY DEF Handle
<1>2. PICK c, s : c = Head(out) /\ s = Now
  OBVIOUS
<1>3. s.h = h /\ s.es = emit
  BY <1>2 DEF Now
<1>4. ~Seen(req, up, out) /\ ClaudeGood(up.cut, client, s)
  BY <1>1, <1>2, <1>3 DEF ClaudeOk, Told
<1>5. PICK p : p = ClaudeHandles(s, c)
  OBVIOUS
<1>6. h' = p.h /\ emit' = p.es
  BY <1>1, <1>2, <1>5 DEF Handle, Handles, Now
<1>7. OutOk(req, up, out)
  BY DEF StreamOk
<1>8. /\ ChunkOk(c) /\ OutOk(req, up, out')
      /\ Seen(req, up, out') <=> (Seen(req, up, out) \/ c.kind = "finish")
      /\ c.kind = "finish" => Fits(req, up, c.fin)
      /\ c.kind \in Halts => up.open = FALSE /\ ~HasFinish(out)
  BY <1>1, <1>2, <1>7, OutTail
<1>9. StreamOk'
  <2>1. StatusHeard'
    BY <1>1, SameStatus DEF StreamOk
  <2>2. QED
    BY <1>1, <1>8, <2>1 DEF StreamOk
<1>10. p \in States => Now' = p
  BY <1>6 DEF Now, States
<1>11. CASE c.kind \in Pieces \cup {"usage"}
  <2>1. ClaudeGood(up.cut, client, p)
    BY <1>4, <1>5, <1>8, <1>11, ClaudeGoesOn
  <2>2. p \in States
    BY <2>1 DEF ClaudeGood
  <2>3. c.kind # "finish"
    BY <1>11 DEF Pieces
  <2>4. ~Seen(req, up, out)' /\ ClaudeGood(up.cut, client, Now)'
    BY <1>1, <1>4, <1>8, <1>10, <2>1, <2>2, <2>3
  <2>5. QED
    BY <1>9, <2>4 DEF ClaudeOk
<1>12. CASE c.kind = "finish"
  <2>1. Told(up.cut, client, p, c.fin)
    BY <1>4, <1>5, <1>8, <1>12, ClaudeReturns
  <2>2. p \in States
    BY <2>1 DEF Told
  <2>3. Fits(req, up, c.fin)
    BY <1>8, <1>12
  <2>4. PICK st : Fits(req, up, st) /\ Told(up.cut, client, p, st)
    BY <2>1, <2>3
  <2>5. Fits(req', up', st) /\ Told(up'.cut, client', Now', st)
    BY <1>1, <1>10, <2>2, <2>4
  <2>6. QED
    BY <1>9, <2>5 DEF ClaudeOk
<1>13. CASE c.kind \in Halts
  <2>1. up.cut = TRUE /\ Fits(req, up, "stop")
    BY <1>4, <1>8, <1>13, HaltFacts
  <2>2. Told(up.cut, client, p, "stop")
    BY <1>4, <1>5, <1>8, <1>13, <2>1, ClaudeReturns
  <2>3. p \in States
    BY <2>2 DEF Told
  <2>4. PICK st : Fits(req, up, st) /\ Told(up.cut, client, p, st)
    BY <2>1, <2>2
  <2>5. Fits(req', up', st) /\ Told(up'.cut, client', Now', st)
    BY <1>1, <1>10, <2>3, <2>4
  <2>6. QED
    BY <1>9, <2>5 DEF ClaudeOk
<1>14. c.kind \in Pieces \cup Rest \cup {"finish"}
  BY <1>8 DEF ChunkOk, Chunks
<1>15. QED
  BY <1>11, <1>12, <1>13, <1>14 DEF Rest

\* A chunk for the Responses handler.
LEMMA RespHandle ==
  ASSUME StreamOk, RespOk, Handle, req.api = "responses"
  PROVE  RespOk' /\ StreamOk'
<1>1. /\ out # << >> /\ emit = << >> /\ ~h.ended /\ out' = Tail(out)
      /\ UNCHANGED <<req, said, up, conv, client, record>>
  BY DEF Handle
<1>2. PICK c, s : c = Head(out) /\ s = Now
  OBVIOUS
<1>3. s.h = h /\ s.es = emit
  BY <1>2 DEF Now
<1>4. RespOpen(req, up, out, client, s)
  BY <1>1, <1>2, <1>3 DEF RespOk, RespTold, Dropped
<1>4a. /\ RespGood(up.cut, client, s)
       /\ ~Seen(req, up, out) => s.h.done = {} /\ s.h.status = "stop"
       /\ Seen(req, up, out) => Underway(s.h) /\ Fits(req, up, s.h.status)
  BY <1>4 DEF RespOpen
<1>5. PICK p : p = RespHandles(s, c)
  OBVIOUS
<1>6. h' = p.h /\ emit' = p.es
  BY <1>1, <1>2, <1>5 DEF Handle, Handles, Now
<1>7. OutOk(req, up, out)
  BY DEF StreamOk
<1>8. /\ ChunkOk(c) /\ OutOk(req, up, out')
      /\ Seen(req, up, out') <=> (Seen(req, up, out) \/ c.kind = "finish")
      /\ c.kind = "finish" => Fits(req, up, c.fin) /\ ~Seen(req, up, out)
      /\ c.kind \in Pieces => ~Seen(req, up, out)
      /\ c.kind \in Halts => up.open = FALSE /\ ~HasFinish(out)
  BY <1>1, <1>2, <1>7, OutTail
<1>9. StreamOk'
  <2>1. StatusHeard'
    BY <1>1, SameStatus DEF StreamOk
  <2>2. QED
    BY <1>1, <1>8, <2>1 DEF StreamOk
<1>10. p \in States => Now' = p
  BY <1>6 DEF Now, States
<1>11. CASE c.kind \in Pieces \cup {"usage"}
  <2>1. RespMore(up.cut, client, s, p)
    <3>1. CASE c.kind \in Pieces
      BY <1>4a, <1>5, <1>8, <3>1, RespGoesOn
    <3>2. CASE c.kind = "usage"
      BY <1>4a, <1>5, <1>8, <3>2, RespUsage
    <3>3. QED
      BY <1>11, <3>1, <3>2
  <2>2. /\ RespGood(up.cut, client, p) /\ Underway(p.h)
        /\ p.h.done = s.h.done /\ p.h.status = s.h.status
    BY <2>1 DEF RespMore
  <2>3. p \in States
    BY <2>2 DEF RespGood
  <2>4. c.kind # "finish"
    BY <1>11 DEF Pieces
  <2>5. Seen(req, up, out') <=> Seen(req, up, out)
    BY <1>8, <2>4
  <2>6. RespOpen(req, up, out', client, p)
    BY <1>4a, <2>2, <2>5 DEF RespOpen
  <2>7. RespOpen(req', up', out', client', Now')
    BY <1>1, <1>10, <2>3, <2>6
  <2>8. QED
    BY <1>9, <2>7 DEF RespOk
<1>12. CASE c.kind = "finish"
  <2>1. ~Seen(req, up, out) /\ s.h.done = {} /\ s.h.status = "stop" /\ Fits(req, up, c.fin)
    BY <1>4a, <1>8, <1>12
  <2>2. PICK st : st = IF c.fin = "length" THEN c.fin ELSE s.h.status
    OBVIOUS
  <2>3. FinishedAs(up.cut, client, p, st)
    BY <1>4a, <1>5, <1>8, <1>12, <2>1, <2>2, RespFinal
  <2>4. RespGood(up.cut, client, p) /\ Underway(p.h) /\ p.h.status = st
    BY <2>3 DEF FinishedAs
  <2>5. Fits(req, up, st)
    BY <2>1, <2>2 DEF Fits
  <2>6. p \in States
    BY <2>4 DEF RespGood
  <2>7. Seen(req, up, out')
    BY <1>8, <1>12
  <2>8. RespOpen(req, up, out', client, p)
    BY <2>4, <2>5, <2>7 DEF RespOpen
  <2>9. RespOpen(req', up', out', client', Now')
    BY <1>1, <1>10, <2>6, <2>8
  <2>10. QED
    BY <1>9, <2>9 DEF RespOk
<1>13. CASE c.kind = "error"
  <2>1. Dropped(up.cut, client, p)
    BY <1>4a, <1>5, <1>13, RespDrops
  <2>2. p \in States
    BY <2>1 DEF Dropped
  <2>3. Dropped(up'.cut, client', Now')
    BY <1>1, <1>10, <2>1, <2>2
  <2>4. QED
    BY <1>9, <2>3 DEF RespOk
<1>14. CASE c.kind \in {"done", "eof"}
  <2>1. PICK st : st = s.h.status
    OBVIOUS
  <2>2. Fits(req, up, st) /\ (Underway(s.h) \/ up.cut = TRUE)
    <3>1. CASE Seen(req, up, out)
      BY <1>4a, <2>1, <3>1
    <3>2. CASE ~Seen(req, up, out)
      <4>1. c.kind \in Halts
        BY <1>14 DEF Halts
      <4>2. up.cut = TRUE /\ Fits(req, up, "stop")
        BY <1>8, <3>2, <4>1, HaltFacts
      <4>3. QED
        BY <1>4a, <2>1, <3>2, <4>2
    <3>3. QED
      BY <3>1, <3>2
  <2>3. RespTold(up.cut, client, p, st)
    <3>1. PICK cut : cut = up.cut
      OBVIOUS
    <3>2. RespGood(cut, client, s) /\ (Underway(s.h) \/ cut = TRUE)
      BY <1>4a, <2>2, <3>1
    <3>3. RespTold(cut, client, RespHandles(s, c), s.h.status)
      BY <1>14, <3>2, RespReturns
    <3>4. QED
      BY <1>5, <2>1, <3>1, <3>3
  <2>4. p \in States
    BY <2>3 DEF RespTold
  <2>5. Fits(req', up', st) /\ RespTold(up'.cut, client', Now', st)
    BY <1>1, <1>10, <2>2, <2>3, <2>4
  <2>6. QED
    BY <1>9, <2>5 DEF RespOk
<1>15. c.kind \in Pieces \cup Rest \cup {"finish"}
  BY <1>8 DEF ChunkOk, Chunks
<1>16. QED
  BY <1>11, <1>12, <1>13, <1>14, <1>15 DEF Rest, Halts

\* What the chat endpoint makes of a chunk: the handler's variables, and at most one event.
ChatMade(hh, p, c) ==
  /\ p.h \in Handlers
  /\ p.h.ended = IF c.kind \in Halts THEN TRUE ELSE FALSE
  /\ p.h.status = IF c.kind = "finish" THEN c.fin ELSE hh.status
  /\ \/ p.es = << >>
     \/ \E e : /\ p.es = <<e>> /\ e.ev \in {"frame", "end"}
               /\ e.ev = "end" => p.h.ended = TRUE /\ e.status = p.h.status

\* What the chat endpoint makes of a chunk.
LEMMA ChatHandled ==
  ASSUME NEW hh \in Handlers, hh.ended = FALSE, NEW c, ChunkOk(c), NEW s, s = [h |-> hh, es |-> << >>]
  PROVE  ChatMade(hh, ChatHandles(s, c), c)
<1>0. /\ c \in Chunks /\ c.tool \in Nat /\ c.counted \in BOOLEAN /\ c.fin \in EndNames
      /\ c.kind \in Pieces \cup Rest \cup {"finish"}
  BY DEF ChunkOk, Chunks
<1>1. PICK p : p = ChatHandles(s, c)
  OBVIOUS
<1>2. s.h = hh /\ s.es = << >>
  OBVIOUS
<1>3. CASE c.kind = "usage"
  <2>1. p = [s EXCEPT !.h.counted = c.counted]
    BY <1>1, <1>3 DEF ChatHandles
  <2>2. p.h = [hh EXCEPT !.counted = c.counted] /\ p.es = << >>
    BY <2>1
  <2>3. p.h \in Handlers /\ p.h.ended = FALSE /\ p.h.status = hh.status
    BY <1>0, <2>2 DEF Handlers
  <2>4. c.kind \notin Halts
    BY <1>3 DEF Halts
  <2>5. QED
    BY <1>1, <1>3, <2>2, <2>3, <2>4 DEF ChatMade
<1>4. CASE c.kind \in Halts
  <2>1. p = Ended(s, hh.status, << >>)
    BY <1>1, <1>2, <1>4 DEF ChatHandles, Halts
  <2>2. PICK e : e = [Event("end", 0, Item("", NoTool), << >>, hh.status) EXCEPT !.output = << >>]
    OBVIOUS
  <2>3. e.status = hh.status /\ e.ev = "end"
    BY <2>2 DEF Event
  <2>4. p = Put([s EXCEPT !.h.ended = TRUE], e)
    BY <2>1, <2>2 DEF Ended
  <2>5. p.h = [hh EXCEPT !.ended = TRUE] /\ p.es = <<e>>
    BY <2>4 DEF Put
  <2>6. p.h \in Handlers /\ p.h.ended = TRUE /\ p.h.status = hh.status
    BY <2>5 DEF Handlers
  <2>7. c.kind # "finish"
    BY <1>4 DEF Halts
  <2>8. ChatMade(hh, p, c)
    BY <1>4, <2>3, <2>5, <2>6, <2>7 DEF ChatMade
  <2>9. QED
    BY <1>1, <2>8
<1>5. CASE c.kind = "finish"
  <2>1. p = [s EXCEPT !.h.status = c.fin]
    BY <1>1, <1>5 DEF ChatHandles
  <2>2. p.h = [hh EXCEPT !.status = c.fin] /\ p.es = << >>
    BY <2>1
  <2>3. p.h \in Handlers /\ p.h.ended = FALSE /\ p.h.status = c.fin
    BY <1>0, <2>2 DEF Handlers
  <2>4. c.kind \notin Halts
    BY <1>5 DEF Halts
  <2>5. QED
    BY <1>1, <1>5, <2>2, <2>3, <2>4 DEF ChatMade
<1>6. CASE c.kind \in Pieces
  <2>1. c.kind \notin Halts /\ c.kind # "finish"
    BY <1>6 DEF Pieces, Halts
  <2>2. \E a, e : /\ a.h \in Handlers /\ a.h.ended = FALSE /\ a.h.status = hh.status
                  /\ a.es = << >> /\ e.ev = "frame" /\ (p = a \/ p = Put(a, e))
                  /\ a = [h |-> a.h, es |-> << >>]
    <3>1. CASE c.kind \in {"text", "thinking"}
      <4>1. PICK e : e = Frame(c, TRUE)
        OBVIOUS
      <4>2. e.ev = "frame"
        BY <4>1 DEF Frame, Event
      <4>3. p = s \/ p = Put(s, e)
        BY <1>1, <3>1, <4>1 DEF ChatHandles
      <4>4. QED
        BY <1>2, <4>2, <4>3
    <3>2. CASE c.kind \in {"call", "args"}
      <4>1. PICK a : a = IF c.kind = "call"
                         THEN [s EXCEPT !.h.items = Append(@, Content("call", c.tool, << >>))]
                         ELSE s
        OBVIOUS
      <4>2. PICK e : e = Frame([c EXCEPT !.kind = "call"], Index(a.h, "call", c.tool) # 0)
        OBVIOUS
      <4>3. e.ev = "frame"
        BY <4>2 DEF Frame, Event
      <4>4. p = Put(a, e)
        BY <1>1, <3>2, <4>1, <4>2 DEF ChatHandles, ChatCall
      <4>5. /\ a.h \in Handlers /\ a.h.ended = FALSE /\ a.h.status = hh.status /\ a.es = << >>
            /\ a = [h |-> a.h, es |-> << >>]
        <5>1. CASE c.kind = "call"
          <6>1. PICK x : x = Append(hh.items, Content("call", c.tool, << >>))
            OBVIOUS
          <6>2. a = [s EXCEPT !.h.items = x]
            BY <1>2, <4>1, <5>1, <6>1
          <6>3. a.h = [hh EXCEPT !.items = x] /\ a.es = << >> /\ a = [h |-> a.h, es |-> << >>]
            BY <6>2
          <6>4. x \in Seq(HItems)
            <7>1. hh.items \in Seq(HItems) /\ << >> \in Seq(Nat)
              BY EmptySeq DEF Handlers
            <7>2. Content("call", c.tool, << >>) \in HItems
              BY <1>0, <7>1 DEF Content, HItems, ItemKinds
            <7>3. QED
              BY <6>1, <7>1, <7>2, AppendProperties
          <6>5. QED
            BY <6>3, <6>4 DEF Handlers
        <5>2. CASE c.kind # "call"
          BY <1>2, <4>1, <5>2
        <5>3. QED
          BY <5>1, <5>2
      <4>6. QED
        BY <4>3, <4>4, <4>5
    <3>3. QED
      BY <1>6, <3>1, <3>2 DEF Pieces
  <2>3. PICK a, e : /\ a.h \in Handlers /\ a.h.ended = FALSE /\ a.h.status = hh.status
                    /\ a.es = << >> /\ e.ev = "frame" /\ (p = a \/ p = Put(a, e))
                    /\ a = [h |-> a.h, es |-> << >>]
    BY <2>2
  <2>4. p.h = a.h /\ (p.es = << >> \/ p.es = <<e>>)
    BY <2>3 DEF Put
  <2>5. ChatMade(hh, p, c)
    BY <2>1, <2>3, <2>4 DEF ChatMade
  <2>6. QED
    BY <1>1, <2>5
<1>7. QED
  BY <1>0, <1>3, <1>4, <1>5, <1>6 DEF Rest

\* A chunk for the chat endpoint, which passes it on as one frame.
LEMMA ChatHandle ==
  ASSUME StreamOk, ChatOk, Handle, req.api = "chat"
  PROVE  ChatOk' /\ StreamOk'
<1>1. /\ out # << >> /\ emit = << >> /\ ~h.ended /\ out' = Tail(out)
      /\ UNCHANGED <<req, said, up, conv, client, record>>
  BY DEF Handle
<1>2. PICK c, s : c = Head(out) /\ s = [h |-> h, es |-> << >>]
  OBVIOUS
<1>3. h \in Handlers /\ h.ended = FALSE
  <2>1. h \in Handlers
    BY DEF ChatOk
  <2>2. QED
    BY <1>1, <2>1 DEF Handlers
<1>4. IF Seen(req, up, out) THEN Fits(req, up, h.status) ELSE h.status = "stop"
  BY <1>3 DEF ChatOk
<1>5. PICK p : p = ChatHandles(s, c)
  OBVIOUS
<1>6. h' = p.h /\ emit' = p.es
  BY <1>2, <1>5 DEF Handle, Handles
<1>7. OutOk(req, up, out)
  BY DEF StreamOk
<1>8. /\ ChunkOk(c) /\ OutOk(req, up, out')
      /\ Seen(req, up, out') <=> (Seen(req, up, out) \/ c.kind = "finish")
      /\ c.kind = "finish" => Fits(req, up, c.fin)
      /\ c.kind \in Halts => up.open = FALSE /\ ~HasFinish(out)
  BY <1>1, <1>2, <1>7, OutTail
<1>9. StreamOk'
  <2>1. StatusHeard'
    BY <1>1, SameStatus DEF StreamOk
  <2>2. QED
    BY <1>1, <1>8, <2>1 DEF StreamOk
<1>10. ChatMade(h, p, c)
  <2>1. PICK hh \in Handlers : hh = h /\ hh.ended = FALSE
    BY <1>3
  <2>2. s = [h |-> hh, es |-> << >>]
    BY <1>2, <2>1
  <2>3. ChatMade(hh, ChatHandles(s, c), c)
    BY <1>8, <2>1, <2>2, ChatHandled
  <2>4. QED
    BY <1>5, <2>1, <2>3
<1>11. /\ h' \in Handlers /\ h'.ended = IF c.kind \in Halts THEN TRUE ELSE FALSE
       /\ h'.status = IF c.kind = "finish" THEN c.fin ELSE h.status
       /\ \/ emit' = << >>
          \/ \E e : /\ emit' = <<e>> /\ e.ev \in {"frame", "end"}
                    /\ e.ev = "end" => h'.ended = TRUE /\ e.status = h'.status
  BY <1>6, <1>10 DEF ChatMade
<1>12. client.phase # "over" /\ IsClient(client)
  BY <1>3 DEF ChatOk
<1>13. h'.ended = TRUE => Fits(req, up, h'.status)
  <2> SUFFICES ASSUME c.kind \in Halts PROVE Fits(req, up, h'.status)
    BY <1>11
  <2>1. h'.status = h.status
    BY <1>11 DEF Halts
  <2>2. CASE Seen(req, up, out)
    BY <1>4, <2>1, <2>2
  <2>3. CASE ~Seen(req, up, out)
    <3>1. Fits(req, up, "stop")
      BY <1>8, <2>3, HaltFacts
    <3>2. QED
      BY <1>4, <2>1, <2>3, <3>1
  <2>4. QED
    BY <2>2, <2>3
<1>14. IF Seen(req, up, out') THEN Fits(req, up, h'.status) ELSE h'.status = "stop"
       \/ h'.ended = TRUE
  <2>1. CASE c.kind = "finish"
    BY <1>8, <1>11, <2>1
  <2>2. CASE c.kind # "finish"
    BY <1>4, <1>8, <1>11, <2>2
  <2>3. QED
    BY <2>1, <2>2
<1>15. ChatOk'
  BY <1>1, <1>11, <1>12, <1>13, <1>14 DEF ChatOk
<1>16. QED
  BY <1>9, <1>15

\* A frame reaches the client of the chat endpoint.
LEMMA ChatDeliver ==
  ASSUME ChatOk, Deliver, req.api = "chat"
  PROVE  ChatOk'
<1>1. /\ emit # << >> /\ client' = TakesFrame(client, Head(emit)) /\ emit' = Tail(emit)
      /\ UNCHANGED <<req, said, up, conv, out, h, record>>
  BY DEF Deliver
<1>2. PICK e : /\ emit = <<e>> /\ e.ev \in {"frame", "end"}
               /\ e.ev = "end" => h.ended = TRUE /\ e.status = h.status
  BY <1>1 DEF ChatOk
<1>3. client' = TakesFrame(client, e) /\ emit' = << >>
  BY <1>1, <1>2
<1>4. PICK a, b, st, o : client = [phase |-> a, items |-> b, status |-> st, output |-> o]
  BY DEF ChatOk, IsClient
<1>5. IsClient(client') /\ (client'.phase = "over" => h.ended = TRUE /\ client'.status = h.status)
  <2>1. client.phase = "over" => h.ended = TRUE /\ client.status = h.status
    BY DEF ChatOk
  <2>2. CASE e.ev = "end"
    <3>1. client' = [client EXCEPT !.phase = "over", !.status = e.status]
      BY <1>3, <2>2 DEF TakesFrame
    <3>2. client' = [phase |-> "over", items |-> b, status |-> e.status, output |-> o]
      BY <1>4, <3>1
    <3>3. IsClient(client')
      BY <3>2 DEF IsClient
    <3>4. QED
      BY <1>2, <2>2, <3>2, <3>3
  <2>3. CASE e.ev = "frame"
    <3>1. \/ client' = [client EXCEPT !.phase = "confused"]
          \/ \E x : client' = [client EXCEPT !.items = x]
      <4>1. CASE ~e.named
        <5>1. client' = Confused(client)
          BY <1>3, <2>3, <4>1 DEF TakesFrame
        <5>2. QED
          BY <5>1 DEF Confused
      <4>2. CASE e.named /\ Index(client, e.kind, e.tool) # 0
        <5>1. PICK i : i = Index(client, e.kind, e.tool)
          OBVIOUS
        <5>2. client' = [client EXCEPT !.items[i].data = @ \o e.data]
          BY <1>3, <2>3, <4>2, <5>1 DEF TakesFrame
        <5>3. PICK x : x = [client.items EXCEPT ![i].data = @ \o e.data]
          OBVIOUS
        <5>4. client' = [client EXCEPT !.items = x]
          BY <5>2, <5>3
        <5>5. QED
          BY <5>4
      <4>3. CASE e.named /\ Index(client, e.kind, e.tool) = 0
        <5>1. client' = [client EXCEPT !.items = Append(@, Content(e.kind, e.tool, e.data))]
          BY <1>3, <2>3, <4>3 DEF TakesFrame
        <5>2. PICK x : x = Append(client.items, Content(e.kind, e.tool, e.data))
          OBVIOUS
        <5>3. client' = [client EXCEPT !.items = x]
          BY <5>1, <5>2
        <5>4. QED
          BY <5>3
      <4>4. QED
        BY <4>1, <4>2, <4>3
    <3>2. CASE client' = [client EXCEPT !.phase = "confused"]
      <4>1. client' = [phase |-> "confused", items |-> b, status |-> st, output |-> o]
        BY <1>4, <3>2
      <4>2. IsClient(client')
        BY <4>1 DEF IsClient
      <4>3. client'.phase # "over"
        BY <4>1
      <4>4. QED
        BY <4>2, <4>3
    <3>3. ASSUME NEW x, client' = [client EXCEPT !.items = x]
          PROVE  IsClient(client') /\ (client'.phase = "over" => h.ended = TRUE /\ client'.status = h.status)
      <4>1. client' = [phase |-> a, items |-> x, status |-> st, output |-> o]
        BY <1>4, <3>3
      <4>2. IsClient(client')
        BY <4>1 DEF IsClient
      <4>3. client'.phase = client.phase /\ client'.status = client.status
        BY <1>4, <4>1
      <4>4. QED
        BY <2>1, <4>2, <4>3
    <3>4. QED
      BY <3>1, <3>2, <3>3
  <2>4. QED
    BY <1>2, <2>2, <2>3
<1>6. QED
  BY <1>1, <1>3, <1>5 DEF ChatOk

-----------------------------------------------------------------------------
(* The client's steps are the promised ones.                                *)

PlainItems == [kind : ItemKinds, data : Seq(Nat), open : BOOLEAN]
Plain(cl) == [i \in DOMAIN cl.items |-> [kind |-> cl.items[i].kind, data |-> cl.items[i].data,
                                         open |-> cl.items[i].open]]

\* Items that agree in all that the promise looks at.
LEMMA PlainEqual ==
  ASSUME NEW a \in PlainItems, NEW b \in PlainItems, a.kind = b.kind, a.data = b.data,
         a.open = b.open
  PROVE  a = b
<1>1. a = [kind |-> a.kind, data |-> a.data, open |-> a.open]
  BY DEF PlainItems
<1>2. b = [kind |-> b.kind, data |-> b.data, open |-> b.open]
  BY DEF PlainItems
<1>3. QED
  BY <1>1, <1>2

\* The items of a client, so far as the promise looks at them.
LEMMA PlainFacts ==
  ASSUME NEW v \in Views
  PROVE  /\ DOMAIN Plain(v) = 1..Len(v.items) /\ Len(v.items) \in Nat
         /\ Plain(v) \in Seq(PlainItems) /\ Len(Plain(v)) = Len(v.items)
         /\ \A i \in 1..Len(v.items) :
               /\ Plain(v)[i].kind = v.items[i].kind /\ Plain(v)[i].data = v.items[i].data
               /\ Plain(v)[i].open = v.items[i].open
               /\ Plain(v)[i] \in PlainItems
               /\ v.items[i] \in VItems
<1>1. v.items \in Seq(VItems) /\ Len(v.items) \in Nat /\ DOMAIN v.items = 1..Len(v.items)
  BY ViewType
<1>2. PICK n \in Nat : n = Len(v.items)
  BY <1>1
<1>3. PICK x : x = Plain(v)
  OBVIOUS
<1>4. DOMAIN x = 1..n
  BY <1>1, <1>2, <1>3 DEF Plain
<1>5. ASSUME NEW i \in 1..n
      PROVE  /\ x[i].kind = v.items[i].kind /\ x[i].data = v.items[i].data
             /\ x[i].open = v.items[i].open /\ x[i] \in PlainItems /\ v.items[i] \in VItems
  <2>1. v.items[i] \in VItems
    BY <1>1, <1>2, ElementOfSeq
  <2>2. x[i] = [kind |-> v.items[i].kind, data |-> v.items[i].data, open |-> v.items[i].open]
    BY <1>1, <1>2, <1>3 DEF Plain
  <2>3. x[i] \in PlainItems
    BY <2>1, <2>2 DEF VItems, PlainItems
  <2>4. QED
    BY <2>1, <2>2, <2>3
<1>6. x = [i \in 1..n |-> x[i]]
  BY <1>1, <1>2, <1>3 DEF Plain
<1>7. x \in [1..n -> PlainItems]
  BY <1>4, <1>5, <1>6
<1>8. x \in Seq(PlainItems) /\ Len(x) = n
  BY <1>7, ListOf
<1>9. QED
  BY <1>2, <1>3, <1>4, <1>5, <1>8

\* Two clients with the same items, so far as the promise looks at them.
LEMMA SamePlain ==
  ASSUME NEW v \in Views, NEW w \in Views, w.items = v.items
  PROVE  Plain(w) = Plain(v)
BY DEF Plain

\* A promised step, from a client that is as v to one as w.
AddStep(v, w) ==
  /\ v.phase = "on" /\ w.phase = "on"
  /\ \E k \in ItemKinds : Plain(w) = Append(Plain(v), [kind |-> k, data |-> << >>, open |-> TRUE])

\* An opened item is the promise's Add.
LEMMA OpenedIsAdd ==
  ASSUME NEW v \in Views, v.phase = "on", NEW w, NEW e, Opened(v, w, e), e.i = Len(v.items) + 1,
         e.kind \in ItemKinds
  PROVE  AddStep(v, w)
<1>1. /\ w \in Views /\ w.phase = "on" /\ Len(w.items) = Len(v.items) + 1
      /\ \A j \in 1..Len(v.items) : w.items[j] = v.items[j]
      /\ w.items[e.i].kind = e.kind /\ w.items[e.i].data = << >> /\ w.items[e.i].open = TRUE
  BY DEF Opened
<1>2. PICK x, y, k : x = Plain(v) /\ y = Plain(w) /\ k = e.kind
  OBVIOUS
<1>3. PICK n : n = Len(v.items)
  OBVIOUS
<1>4. /\ n \in Nat /\ x \in Seq(PlainItems) /\ Len(x) = n
      /\ \A i \in 1..n : /\ x[i].kind = v.items[i].kind /\ x[i].data = v.items[i].data
                         /\ x[i].open = v.items[i].open /\ x[i] \in PlainItems
  BY <1>2, <1>3, PlainFacts
<1>5. /\ y \in Seq(PlainItems) /\ Len(y) = n + 1
      /\ \A i \in 1..(n + 1) : /\ y[i].kind = w.items[i].kind /\ y[i].data = w.items[i].data
                               /\ y[i].open = w.items[i].open /\ y[i] \in PlainItems
  BY <1>1, <1>2, <1>3, PlainFacts
<1>6. PICK new : new = [kind |-> k, data |-> << >>, open |-> TRUE]
  OBVIOUS
<1>7. new \in PlainItems
  <2>1. << >> \in Seq(Nat)
    BY EmptySeq
  <2>2. QED
    BY <1>2, <1>6, <2>1 DEF PlainItems
<1>8. PICK z : z = Append(x, new)
  OBVIOUS
<1>9. /\ z \in Seq(PlainItems) /\ Len(z) = n + 1 /\ z[n + 1] = new
      /\ \A i \in 1..n : z[i] = x[i]
  BY <1>4, <1>7, <1>8, AppendProperties
<1>10. y[n + 1] = new
  <2>1. n + 1 \in 1..(n + 1)
    BY <1>4
  <2>2. y[n + 1] \in PlainItems
    BY <1>5, <2>1
  <2>3. y[n + 1].kind = k /\ y[n + 1].data = << >> /\ y[n + 1].open = TRUE
    BY <1>1, <1>2, <1>3, <1>5, <2>1
  <2>4. QED
    BY <1>6, <2>2, <2>3 DEF PlainItems
<1>11. ASSUME NEW i \in 1..n PROVE y[i] = x[i]
  <2>1. i \in 1..(n + 1)
    BY <1>4
  <2>2. x[i] \in PlainItems /\ y[i] \in PlainItems
    BY <1>4, <1>5, <2>1
  <2>3. x[i].kind = y[i].kind /\ x[i].data = y[i].data /\ x[i].open = y[i].open
    BY <1>1, <1>3, <1>4, <1>5, <2>1
  <2>4. QED
    BY <2>2, <2>3, PlainEqual
<1>12. y = z
  <2>1. ASSUME NEW i \in 1..(n + 1) PROVE y[i] = z[i]
    <3>1. CASE i = n + 1
      BY <1>9, <1>10, <3>1
    <3>2. CASE i # n + 1
      <4>1. i \in 1..n
        BY <1>4, <3>2
      <4>2. QED
        BY <1>9, <1>11, <4>1
    <3>3. QED
      BY <3>1, <3>2
  <2>2. QED
    BY <1>5, <1>9, <2>1, SeqEqual
<1>13. y = Append(x, [kind |-> k, data |-> << >>, open |-> TRUE])
  BY <1>6, <1>8, <1>12
<1>14. QED
  BY <1>1, <1>2, <1>13 DEF AddStep

\* One item of the plain ones has changed.
LEMMA PlainChange ==
  ASSUME NEW v \in Views, NEW w \in Views, NEW i \in 1..Len(v.items),
         Len(w.items) = Len(v.items),
         \A j \in 1..Len(v.items) : j # i => w.items[j] = v.items[j]
  PROVE  Plain(w) = [Plain(v) EXCEPT ![i] = Plain(w)[i]]
<1>1. PICK x, y, n : x = Plain(v) /\ y = Plain(w) /\ n = Len(v.items)
  OBVIOUS
<1>2. /\ n \in Nat /\ x \in Seq(PlainItems) /\ Len(x) = n
      /\ \A j \in 1..n : /\ x[j].kind = v.items[j].kind /\ x[j].data = v.items[j].data
                         /\ x[j].open = v.items[j].open /\ x[j] \in PlainItems
  BY <1>1, PlainFacts
<1>3. /\ y \in Seq(PlainItems) /\ Len(y) = n
      /\ \A j \in 1..n : /\ y[j].kind = w.items[j].kind /\ y[j].data = w.items[j].data
                         /\ y[j].open = w.items[j].open /\ y[j] \in PlainItems
  BY <1>1, PlainFacts
<1>4. ASSUME NEW j \in 1..n, j # i PROVE y[j] = x[j]
  <2>1. x[j] \in PlainItems /\ y[j] \in PlainItems
    BY <1>2, <1>3
  <2>2. x[j].kind = y[j].kind /\ x[j].data = y[j].data /\ x[j].open = y[j].open
    BY <1>1, <1>2, <1>3, <1>4
  <2>3. QED
    BY <2>1, <2>2, PlainEqual
<1>5. PICK new : new = y[i]
  OBVIOUS
<1>6. new \in PlainItems /\ i \in 1..n
  BY <1>1, <1>3, <1>5
<1>7. PICK z : z = [x EXCEPT ![i] = new]
  OBVIOUS
<1>8. /\ z \in Seq(PlainItems) /\ Len(z) = n
      /\ \A j \in 1..n : z[j] = IF j = i THEN new ELSE x[j]
  BY <1>2, <1>6, <1>7, ExceptSeq
<1>9. y = z
  <2>1. ASSUME NEW j \in 1..n PROVE y[j] = z[j]
    BY <1>4, <1>5, <1>8
  <2>2. QED
    BY <1>3, <1>8, <2>1, SeqEqual
<1>10. QED
  BY <1>1, <1>5, <1>7, <1>9

GrowStep(v, w) ==
  /\ v.phase = "on" /\ w.phase = "on" /\ DOMAIN Plain(w) = DOMAIN Plain(v)
  /\ \E i \in DOMAIN Plain(v) :
        /\ Plain(v)[i].open = TRUE
        /\ IsStrictPrefix(Plain(v)[i].data, Plain(w)[i].data)
        /\ Plain(w) = [Plain(v) EXCEPT ![i].data = Plain(w)[i].data]

\* A text that has grown is a strict extension of what it was.
LEMMA StrictPrefix ==
  ASSUME NEW S, NEW a \in Seq(S), NEW b \in Seq(S), b # << >>
  PROVE  IsStrictPrefix(a, a \o b)
<1>1. PICK n, m, c : n = Len(a) /\ m = Len(b) /\ c = a \o b
  OBVIOUS
<1>2. n \in Nat /\ m \in Nat /\ m # 0
  BY <1>1, LenProperties, EmptySeq
<1>3. /\ c \in Seq(S) /\ Len(c) = n + m
      /\ \A k \in 1..(n + m) : c[k] = IF k <= n THEN a[k] ELSE b[k - n]
  BY <1>1, ConcatProperties
<1>4. PICK one \in Nat : one = 1
  OBVIOUS
<1>5. SubSeq(a, one, n) = SubSeq(c, one, n)
  BY <1>1, <1>2, <1>3, <1>4
<1>6. c # a
  BY <1>1, <1>2, <1>3
<1>7. n <= Len(c)
  BY <1>2, <1>3
<1>8. QED
  BY <1>1, <1>4, <1>5, <1>6, <1>7 DEF IsStrictPrefix, IsPrefix

\* A delta is the promise's Grow.
LEMMA LongerIsGrow ==
  ASSUME NEW v \in Views, v.phase = "on", NEW w, NEW e \in Events, Longer(v, w, e),
         e.i \in 1..Len(v.items), e.data # << >>
  PROVE  GrowStep(v, w)
<1>1. /\ w \in Views /\ w.phase = "on" /\ Len(w.items) = Len(v.items)
      /\ \A j \in 1..Len(v.items) : j # e.i => w.items[j] = v.items[j]
      /\ w.items[e.i].kind = v.items[e.i].kind
      /\ w.items[e.i].data = v.items[e.i].data \o e.data
      /\ w.items[e.i].open = TRUE /\ v.items[e.i].open = TRUE
  BY DEF Longer
<1>2. PICK x, y, i, n : x = Plain(v) /\ y = Plain(w) /\ i = e.i /\ n = Len(v.items)
  OBVIOUS
<1>3. /\ DOMAIN x = 1..n /\ i \in 1..n
      /\ x[i].kind = v.items[i].kind /\ x[i].data = v.items[i].data /\ x[i].open = v.items[i].open
      /\ x[i] \in PlainItems
  BY <1>2, PlainFacts
<1>4. /\ DOMAIN y = 1..n
      /\ y[i].kind = w.items[i].kind /\ y[i].data = w.items[i].data /\ y[i].open = w.items[i].open
      /\ y[i] \in PlainItems
  BY <1>1, <1>2, <1>3, PlainFacts
<1>5. y = [x EXCEPT ![i] = y[i]]
  <2>1. Plain(w) = [Plain(v) EXCEPT ![i] = Plain(w)[i]]
    BY <1>1, <1>2, PlainChange
  <2>2. QED
    BY <1>2, <2>1
<1>6. y[i] = [x[i] EXCEPT !.data = y[i].data]
  <2>1. PICK a, b, c : a = x[i] /\ b = y[i] /\ c = [a EXCEPT !.data = b.data]
    OBVIOUS
  <2>2. a \in PlainItems /\ b \in PlainItems /\ b.kind = a.kind /\ b.open = a.open
    BY <1>1, <1>2, <1>3, <1>4, <2>1
  <2>3. c \in PlainItems /\ c.kind = a.kind /\ c.data = b.data /\ c.open = a.open
    BY <2>1, <2>2 DEF PlainItems
  <2>4. b = c
    BY <2>2, <2>3, PlainEqual
  <2>5. QED
    BY <2>1, <2>4
<1>7. y = [x EXCEPT ![i].data = y[i].data]
  BY <1>5, <1>6
<1>8. IsStrictPrefix(x[i].data, y[i].data)
  <2>1. PICK a, b : a = x[i].data /\ b = e.data
    OBVIOUS
  <2>2. a \in Seq(Nat) /\ b \in Seq(Nat) /\ b # << >>
    BY <1>3, <2>1 DEF PlainItems, Events
  <2>3. IsStrictPrefix(a, a \o b)
    BY <2>2, StrictPrefix
  <2>4. y[i].data = a \o b
    BY <1>1, <1>2, <1>3, <1>4, <2>1
  <2>5. QED
    BY <2>1, <2>3, <2>4
<1>9. x[i].open = TRUE
  BY <1>1, <1>2, <1>3
<1>10. QED
  BY <1>1, <1>2, <1>3, <1>4, <1>7, <1>8, <1>9 DEF GrowStep

CloseStep(v, w) ==
  /\ v.phase = "on" /\ w.phase = "on"
  /\ \E i \in DOMAIN Plain(v) :
        Plain(v)[i].open = TRUE /\ Plain(w) = [Plain(v) EXCEPT ![i].open = FALSE]

\* A closed item is the promise's Close.
LEMMA ClosedIsClose ==
  ASSUME NEW v \in Views, v.phase = "on", NEW w, NEW e, Closed(v, w, e),
         e.i \in 1..Len(v.items)
  PROVE  CloseStep(v, w)
<1>1. /\ w \in Views /\ w.phase = "on" /\ Len(w.items) = Len(v.items)
      /\ \A j \in 1..Len(v.items) : j # e.i => w.items[j] = v.items[j]
      /\ w.items[e.i].kind = v.items[e.i].kind
      /\ w.items[e.i].data = v.items[e.i].data
      /\ w.items[e.i].open = FALSE /\ v.items[e.i].open = TRUE
  BY DEF Closed
<1>2. PICK x, y, i, n : x = Plain(v) /\ y = Plain(w) /\ i = e.i /\ n = Len(v.items)
  OBVIOUS
<1>3. /\ DOMAIN x = 1..n /\ i \in 1..n
      /\ x[i].kind = v.items[i].kind /\ x[i].data = v.items[i].data /\ x[i].open = v.items[i].open
      /\ x[i] \in PlainItems
  BY <1>2, PlainFacts
<1>4. /\ DOMAIN y = 1..n
      /\ y[i].kind = w.items[i].kind /\ y[i].data = w.items[i].data /\ y[i].open = w.items[i].open
      /\ y[i] \in PlainItems
  BY <1>1, <1>2, <1>3, PlainFacts
<1>5. y = [x EXCEPT ![i] = y[i]]
  <2>1. Plain(w) = [Plain(v) EXCEPT ![i] = Plain(w)[i]]
    BY <1>1, <1>2, PlainChange
  <2>2. QED
    BY <1>2, <2>1
<1>6. y[i] = [x[i] EXCEPT !.open = FALSE]
  <2>1. PICK a, b, c : a = x[i] /\ b = y[i] /\ c = [a EXCEPT !.open = FALSE]
    OBVIOUS
  <2>2. a \in PlainItems /\ b \in PlainItems /\ b.kind = a.kind /\ b.data = a.data /\ b.open = FALSE
    BY <1>1, <1>2, <1>3, <1>4, <2>1
  <2>3. c \in PlainItems /\ c.kind = a.kind /\ c.data = a.data /\ c.open = FALSE
    BY <2>1, <2>2 DEF PlainItems
  <2>4. b = c
    BY <2>2, <2>3, PlainEqual
  <2>5. QED
    BY <2>1, <2>4
<1>7. y = [x EXCEPT ![i].open = FALSE]
  BY <1>5, <1>6
<1>8. x[i].open = TRUE
  BY <1>1, <1>2, <1>3
<1>9. QED
  BY <1>1, <1>2, <1>3, <1>7, <1>8 DEF CloseStep

\* What a client that takes a fine event does is one of the promised steps.
PromisedStep(cut, v, w) ==
  /\ w \in Views
  /\ \/ v.phase = "idle" /\ w.phase = "on" /\ Plain(w) = Plain(v)
     \/ AddStep(v, w) \/ GrowStep(v, w) \/ CloseStep(v, w)
     \/ /\ \/ v.phase = "on" /\ \A i \in DOMAIN Plain(v) : Plain(v)[i].open = FALSE
           \/ v.phase # "over" /\ cut
        /\ w.phase = "over" /\ Plain(w) = Plain(v)

\* Each fine event is a step that the promise allows.
LEMMA FineIsPromised ==
  ASSUME NEW cut, NEW v \in Views, NEW e \in Events, Fine(cut, v, e)
  PROVE  PromisedStep(cut, v, Takes(v, e))
<1>1. PICK w : w = Takes(v, e)
  OBVIOUS
<1>2. DOMAIN v.items = 1..Len(v.items)
  BY ViewType
<1>3. CASE e.ev = "begin"
  <2>1. v.phase = "idle"
    BY <1>3 DEF Fine
  <2>2. w \in Views /\ w.phase = "on" /\ w.items = v.items
    BY <1>1, <1>3, <2>1, Beginning
  <2>3. Plain(w) = Plain(v)
    BY <2>2, SamePlain
  <2>4. QED
    BY <1>1, <2>1, <2>2, <2>3 DEF PromisedStep
<1>4. CASE e.ev = "open"
  <2>1. v.phase = "on" /\ e.i = Len(v.items) + 1 /\ e.kind \in ItemKinds
    BY <1>4 DEF Fine
  <2>2. Opened(v, w, e)
    BY <1>1, <1>4, Opening
  <2>3. AddStep(v, w)
    BY <2>1, <2>2, OpenedIsAdd
  <2>4. w \in Views
    BY <2>2 DEF Opened
  <2>5. QED
    BY <1>1, <2>3, <2>4 DEF PromisedStep
<1>5. CASE e.ev = "delta"
  <2>1. v.phase = "on" /\ e.i \in 1..Len(v.items) /\ e.data # << >>
    BY <1>2, <1>5 DEF Fine
  <2>2. Longer(v, w, e)
    BY <1>1, <1>5, Growing
  <2>3. GrowStep(v, w)
    BY <2>1, <2>2, LongerIsGrow
  <2>4. w \in Views
    BY <2>2 DEF Longer
  <2>5. QED
    BY <1>1, <2>3, <2>4 DEF PromisedStep
<1>6. CASE e.ev = "close"
  <2>1. v.phase = "on" /\ e.i \in 1..Len(v.items)
    BY <1>2, <1>6 DEF Fine
  <2>2. Closed(v, w, e)
    BY <1>1, <1>6, Closes
  <2>3. CloseStep(v, w)
    BY <2>1, <2>2, ClosedIsClose
  <2>4. w \in Views
    BY <2>2 DEF Closed
  <2>5. QED
    BY <1>1, <2>3, <2>4 DEF PromisedStep
<1>7. CASE e.ev = "end"
  <2>1. \/ v.phase = "on" /\ \A i \in DOMAIN v.items : ~v.items[i].open
        \/ v.phase # "over" /\ cut
    BY <1>7 DEF Fine
  <2>2. v.phase # "over"
    BY <2>1
  <2>3. w \in Views /\ w.phase = "over" /\ w.items = v.items
    BY <1>1, <1>7, <2>2, Ending
  <2>4. Plain(w) = Plain(v)
    BY <2>3, SamePlain
  <2>5. \/ v.phase = "on" /\ \A i \in DOMAIN Plain(v) : Plain(v)[i].open = FALSE
        \/ v.phase # "over" /\ cut
    <3>1. ASSUME \A i \in DOMAIN v.items : ~v.items[i].open, NEW i \in DOMAIN Plain(v)
          PROVE  Plain(v)[i].open = FALSE
      <4>1. i \in 1..Len(v.items) /\ Plain(v)[i].open = v.items[i].open /\ v.items[i] \in VItems
        BY PlainFacts
      <4>2. QED
        BY <1>2, <3>1, <4>1 DEF VItems
    <3>2. QED
      BY <2>1, <3>1
  <2>6. QED
    BY <1>1, <2>3, <2>4, <2>5 DEF PromisedStep
<1>8. QED
  BY <1>3, <1>4, <1>5, <1>6, <1>7 DEF Fine

-----------------------------------------------------------------------------
(* The connection, the record, and the theorems.                            *)

\* The first event in flight has reached the client.
Delivered(cut, cl, s, p) ==
  /\ p \in States /\ p.h = s.h
  /\ Head(s.es) \in Events
  /\ \A v : Course(cut, cl, s.es, v) => /\ Fine(cut, cl, Head(s.es))
                                        /\ Course(cut, Takes(cl, Head(s.es)), p.es, v)

\* The first event in flight reaches the client; the others are as fine as they were.
LEMMA DeliveredCourse ==
  ASSUME NEW cut, NEW cl, NEW s \in States, s.es # << >>
  PROVE  Delivered(cut, cl, s, [h |-> s.h, es |-> Tail(s.es)])
<1>1. s.h \in Handlers /\ s.es \in Seq(Events)
  BY HandlerType
<1>2. PICK es \in Seq(Events) : es = s.es /\ es # << >>
  BY <1>1
<1>3. Tail(es) \in Seq(Events) /\ Head(es) \in Events
  BY <1>2, HeadTailProperties
<1>4. PICK p : p = [h |-> s.h, es |-> Tail(es)]
  OBVIOUS
<1>5. p \in States /\ p.h = s.h /\ p.es = Tail(es)
  BY <1>1, <1>3, <1>4 DEF States
<1>6. ASSUME NEW v, Course(cut, cl, es, v)
      PROVE  Fine(cut, cl, Head(es)) /\ Course(cut, Takes(cl, Head(es)), Tail(es), v)
  BY <1>2, <1>6, CourseNext
<1>7. Delivered(cut, cl, s, p)
  BY <1>2, <1>3, <1>5, <1>6 DEF Delivered
<1>8. QED
  BY <1>2, <1>4, <1>7

\* Every event that is delivered is one that the client can take at its word.
LEMMA DeliverFacts ==
  ASSUME Deliver, req.api # "chat", Now \in States
  PROVE  /\ Delivered(up.cut, client, Now, Now') /\ client' = Takes(client, Head(emit))
         /\ Now.es = emit /\ UNCHANGED <<req, said, up, conv, out, h, record>>
<1>1. /\ emit # << >> /\ client' = Takes(client, Head(emit)) /\ emit' = Tail(emit)
      /\ UNCHANGED <<req, said, up, conv, out, h, record>>
  BY DEF Deliver
<1>2. Now.h = h /\ Now.es = emit /\ Now' = [h |-> h, es |-> Tail(emit)]
  BY <1>1 DEF Now
<1>3. PICK s \in States : s = Now
  OBVIOUS
<1>4. Delivered(up.cut, client, s, [h |-> s.h, es |-> Tail(s.es)])
  BY <1>1, <1>2, <1>3, DeliveredCourse
<1>5. QED
  BY <1>1, <1>2, <1>3, <1>4

\* An event of the Claude handler is delivered.
LEMMA ClaudeDeliver ==
  ASSUME ClaudeOk, Deliver, req.api = "claude"
  PROVE  ClaudeOk' /\ Fine(up.cut, client, Head(emit)) /\ Head(emit) \in Events
<1>1. Now \in States
  BY DEF ClaudeOk, ClaudeGood, Told
<1>2. /\ Delivered(up.cut, client, Now, Now') /\ client' = Takes(client, Head(emit))
      /\ Now.es = emit /\ UNCHANGED <<req, said, up, conv, out, h, record>>
  BY <1>1, DeliverFacts
<1>3. PICK s, p, cl : s = Now /\ p = Now' /\ cl = client'
  OBVIOUS
<1>4. /\ p \in States /\ p.h = s.h /\ Head(emit) \in Events
      /\ \A v : Course(up.cut, client, s.es, v) =>
            Fine(up.cut, client, Head(emit)) /\ Course(up.cut, cl, p.es, v)
  BY <1>2, <1>3 DEF Delivered
<1>5. CASE ~Seen(req, up, out) /\ ClaudeGood(up.cut, client, s)
  <2>1. PICK v : Course(up.cut, client, s.es, v) /\ ClaudeView(v, s.h)
    BY <1>5 DEF ClaudeGood
  <2>2. ClaudeGood(up.cut, cl, p)
    BY <1>4, <2>1 DEF ClaudeGood
  <2>3. ClaudeGood(up'.cut, client', Now') /\ ~Seen(req', up', out')
    BY <1>2, <1>3, <1>5, <2>2
  <2>4. QED
    BY <1>4, <2>1, <2>3 DEF ClaudeOk
<1>6. ASSUME NEW st, Fits(req, up, st), Told(up.cut, client, s, st)
      PROVE  ClaudeOk' /\ Fine(up.cut, client, Head(emit))
  <2>1. PICK v : /\ Course(up.cut, client, s.es, v) /\ v \in Views
                 /\ v.phase = "over" /\ v.status = st
    BY <1>6 DEF Told
  <2>2. Told(up.cut, cl, p, st)
    BY <1>4, <1>6, <2>1 DEF Told
  <2>3. Told(up'.cut, client', Now', st) /\ Fits(req', up', st)
    BY <1>2, <1>3, <1>6, <2>2
  <2>4. QED
    BY <1>4, <2>1, <2>3 DEF ClaudeOk
<1>7. QED
  BY <1>3, <1>4, <1>5, <1>6 DEF ClaudeOk

\* An event of the Responses handler is delivered.
LEMMA RespDeliver ==
  ASSUME RespOk, Deliver, req.api = "responses"
  PROVE  RespOk' /\ Fine(up.cut, client, Head(emit)) /\ Head(emit) \in Events
<1>1. Now \in States
  BY DEF RespOk, RespOpen, RespGood, RespTold, Dropped
<1>2. /\ Delivered(up.cut, client, Now, Now') /\ client' = Takes(client, Head(emit))
      /\ Now.es = emit /\ UNCHANGED <<req, said, up, conv, out, h, record>>
  BY <1>1, DeliverFacts
<1>3. PICK s, p, cl : s = Now /\ p = Now' /\ cl = client'
  OBVIOUS
<1>4. /\ p \in States /\ p.h = s.h /\ Head(emit) \in Events
      /\ \A v : Course(up.cut, client, s.es, v) =>
            Fine(up.cut, client, Head(emit)) /\ Course(up.cut, cl, p.es, v)
  BY <1>2, <1>3 DEF Delivered
<1>5. CASE RespOpen(req, up, out, client, s)
  <2>1. PICK v : Course(up.cut, client, s.es, v) /\ RespView(v, s.h)
    BY <1>5 DEF RespOpen, RespGood
  <2>2. RespGood(up.cut, cl, p)
    BY <1>4, <2>1 DEF RespGood
  <2>3. RespOpen(req, up, out, cl, p)
    BY <1>4, <1>5, <2>2 DEF RespOpen
  <2>4. RespOpen(req', up', out', client', Now')
    BY <1>2, <1>3, <2>3
  <2>5. QED
    BY <1>4, <2>1, <2>4 DEF RespOk
<1>6. ASSUME NEW st, Fits(req, up, st), RespTold(up.cut, client, s, st)
      PROVE  RespOk' /\ Fine(up.cut, client, Head(emit))
  <2>1. PICK v : /\ Course(up.cut, client, s.es, v) /\ v \in Views
                 /\ v.phase = "over" /\ v.status = st
                 /\ \A i \in 1..Len(v.items) : v.items[i].status = st
    BY <1>6 DEF RespTold
  <2>2. RespTold(up.cut, cl, p, st)
    BY <1>4, <1>6, <2>1 DEF RespTold
  <2>3. RespTold(up'.cut, client', Now', st) /\ Fits(req', up', st)
    BY <1>2, <1>3, <1>6, <2>2
  <2>4. QED
    BY <1>4, <2>1, <2>3 DEF RespOk
<1>7. CASE Dropped(up.cut, client, s)
  <2>1. PICK v : Course(up.cut, client, s.es, v) /\ v.phase # "over"
    BY <1>7 DEF Dropped
  <2>2. Dropped(up.cut, cl, p)
    BY <1>4, <1>7, <2>1 DEF Dropped
  <2>3. Dropped(up'.cut, client', Now')
    BY <1>2, <1>3, <2>2
  <2>4. QED
    BY <1>4, <2>1, <2>3 DEF RespOk
<1>8. QED
  BY <1>3, <1>4, <1>5, <1>6, <1>7 DEF RespOk

\* A step of the vendor, while nothing is in flight.
LEMMA StillCourse ==
  ASSUME NEW cut, NEW more, NEW cl, NEW v, Course(cut, cl, << >>, v)
  PROVE  Course(more, cl, << >>, v)
BY CourseEmpty

\* While the vendor goes on, what the handlers know stays true.
LEMMA ClaudeOnward ==
  ASSUME ClaudeOk, Onward
  PROVE  ClaudeOk'
<1>1. /\ emit = << >> /\ ~h.ended /\ UNCHANGED <<req, h, emit, client, record>>
      /\ (Seen(req, up, out)' <=> Seen(req, up, out))
  BY DEF Onward
<1>2. Now.h = h /\ Now.es = << >> /\ Now' = Now
  BY <1>1 DEF Now
<1>3. ~Seen(req, up, out) /\ ClaudeGood(up.cut, client, Now)
  BY <1>1, <1>2 DEF ClaudeOk, Told
<1>4. PICK v : Course(up.cut, client, << >>, v) /\ ClaudeView(v, Now.h) /\ Now \in States
  BY <1>2, <1>3 DEF ClaudeGood
<1>5. PICK s, more : s = Now /\ more = up'.cut
  OBVIOUS
<1>6. Course(more, client, s.es, v)
  BY <1>2, <1>4, <1>5, StillCourse
<1>7. ClaudeGood(more, client, s)
  BY <1>4, <1>5, <1>6 DEF ClaudeGood
<1>8. ClaudeGood(up'.cut, client', Now') /\ ~Seen(req, up, out)'
  BY <1>1, <1>2, <1>3, <1>5, <1>7
<1>9. QED
  BY <1>8 DEF ClaudeOk

LEMMA RespOnward ==
  ASSUME RespOk, Onward
  PROVE  RespOk'
<1>1. /\ emit = << >> /\ ~h.ended /\ UNCHANGED <<req, h, emit, client, record>>
      /\ (Seen(req, up, out)' <=> Seen(req, up, out))
      /\ Seen(req, up, out) => up'.fin = up.fin
  BY DEF Onward
<1>2. Now.h = h /\ Now.es = << >> /\ Now' = Now
  BY <1>1 DEF Now
<1>3. RespOpen(req, up, out, client, Now)
  BY <1>1, <1>2 DEF RespOk, RespTold, Dropped
<1>3a. /\ RespGood(up.cut, client, Now)
       /\ ~Seen(req, up, out) => Now.h.done = {} /\ Now.h.status = "stop"
       /\ Seen(req, up, out) => Underway(Now.h) /\ Fits(req, up, Now.h.status)
  BY <1>3 DEF RespOpen
<1>4. PICK v : Course(up.cut, client, << >>, v) /\ RespView(v, Now.h) /\ Now \in States
  BY <1>2, <1>3a DEF RespGood
<1>5. PICK s, more : s = Now /\ more = up'.cut
  OBVIOUS
<1>6. Course(more, client, s.es, v)
  BY <1>2, <1>4, <1>5, StillCourse
<1>7. RespGood(more, client, s)
  BY <1>4, <1>5, <1>6 DEF RespGood
<1>8. Seen(req, up, out) => Fits(req', up', Now.h.status)
  BY <1>1, <1>3a DEF Fits
<1>9. RespGood(up'.cut, client', Now')
  BY <1>1, <1>2, <1>5, <1>7
<1>10. RespOpen(req', up', out', client', Now')
  BY <1>1, <1>2, <1>3a, <1>8, <1>9 DEF RespOpen
<1>11. QED
  BY <1>10 DEF RespOk

LEMMA ChatOnward ==
  ASSUME ChatOk, Onward
  PROVE  ChatOk'
<1>1. /\ emit = << >> /\ ~h.ended /\ UNCHANGED <<req, h, emit, client, record>>
      /\ (Seen(req, up, out)' <=> Seen(req, up, out))
      /\ Seen(req, up, out) => up'.fin = up.fin
  BY DEF Onward
<1>2. h \in Handlers
  BY DEF ChatOk
<1>3. h.ended = FALSE
  BY <1>1, <1>2 DEF Handlers
<1>4. IF Seen(req, up, out) THEN Fits(req, up, h.status) ELSE h.status = "stop"
  BY <1>3 DEF ChatOk
<1>5. IF Seen(req, up, out)' THEN Fits(req', up', h'.status) ELSE h'.status = "stop"
  BY <1>1, <1>4 DEF Fits
<1>6. client.phase # "over" /\ IsClient(client)
  BY <1>3 DEF ChatOk
<1>7. QED
  BY <1>1, <1>2, <1>3, <1>5, <1>6 DEF ChatOk

ReplyInv ==
  /\ StreamOk
  /\ req.api = "claude" => ClaudeOk
  /\ req.api = "responses" => RespOk
  /\ req.api = "chat" => ChatOk
  /\ req.api # "chat" => client \in Views
  /\ record.written => h.ended /\ emit = << >>

\* Before the first chunk.
LEMMA NothingYet ==
  ASSUME ReplyInit
  PROVE  /\ h \in Handlers /\ client \in Views /\ Now \in States
         /\ View(client, h.begun, h.items)
<1>1. << >> \in Seq(HItems) /\ << >> \in Seq(VItems)
  BY EmptySeq
<1>2. h = NoHandler /\ emit = << >>
      /\ client = [phase |-> "idle", items |-> << >>, status |-> "", output |-> << >>]
  BY DEF ReplyInit
<1>3. h \in Handlers
  BY <1>1, <1>2 DEF NoHandler, Handlers, EndNames
<1>4. client \in Views
  BY <1>1, <1>2 DEF Views, EndNames, PhaseNames
<1>5. emit \in Seq(Events)
  BY <1>2, EmptySeq
<1>6. Now \in States
  BY <1>3, <1>5 DEF Now, States
<1>7. View(client, h.begun, h.items)
  <2>1. /\ h.begun = FALSE /\ h.items = << >> /\ client.phase = "idle" /\ client.items = << >>
    BY <1>2 DEF NoHandler
  <2>2. Len(<< >>) = 0 /\ 1..0 = {}
    OBVIOUS
  <2>3. QED
    BY <1>4, <2>1, <2>2 DEF View
<1>8. QED
  BY <1>3, <1>4, <1>6, <1>7

\* The invariant holds at the beginning.
LEMMA ReplyInvInit == ReplyInit => ReplyInv
<1> SUFFICES ASSUME ReplyInit PROVE ReplyInv
  OBVIOUS
<1>1. req \in Reqs
  BY ReplyStreamAssumption DEF ReplyInit, Reqs
<1>2. /\ said = << >> /\ conv = << >> /\ out = << >> /\ emit = << >> /\ h = NoHandler
      /\ up = [open |-> TRUE, fin |-> "", cut |-> FALSE]
      /\ record = [written |-> FALSE, counted |-> FALSE]
      /\ client = [phase |-> "idle", items |-> << >>, status |-> "", output |-> << >>]
  BY DEF ReplyInit
<1>3. up \in Ups /\ up.open = TRUE /\ up.fin = "" /\ up.cut = FALSE
  BY <1>2 DEF Ups, EndNames
<1>4. StreamOk
  <2>1. said \in Seq(SaidItems) /\ conv \in Seq(Seq(Nat))
    BY <1>2, EmptySeq
  <2>2. OutOk(req, up, out)
    BY <1>2, OutEmpty
  <2>3. StatusHeard
    BY <1>3 DEF StatusHeard
  <2>4. QED
    BY <1>1, <1>3, <2>1, <2>2, <2>3 DEF StreamOk, UpOk
<1>5. ~Seen(req, up, out)
  BY <1>3 DEF Seen, Final
<1>6. PICK s : s = Now
  OBVIOUS
<1>7. /\ s.h = h /\ s.es = << >>
      /\ h.begun = FALSE /\ h.items = << >> /\ h.open = {} /\ h.done = {} /\ h.status = "stop"
      /\ h.ended = FALSE
  BY <1>2, <1>6 DEF Now, NoHandler
<1>8. /\ h \in Handlers /\ client \in Views /\ s \in States
      /\ View(client, h.begun, h.items)
  BY <1>6, NothingYet
<1>9. Course(up.cut, client, s.es, client)
  BY <1>7, CourseEmpty
<1>10. Len(h.items) = 0 /\ 1..Len(h.items) = {}
  BY <1>7
<1>11. ClaudeOk
  <2>1. ClaudeView(client, h)
    BY <1>7, <1>8, <1>10 DEF ClaudeView
  <2>2. ClaudeGood(up.cut, client, s)
    BY <1>7, <1>8, <1>9, <2>1 DEF ClaudeGood
  <2>3. QED
    BY <1>5, <1>6, <2>2 DEF ClaudeOk
<1>12. RespOk
  <2>1. RespView(client, h)
    BY <1>7, <1>8, <1>10 DEF RespView
  <2>2. RespGood(up.cut, client, s)
    BY <1>7, <1>8, <1>9, <2>1 DEF RespGood
  <2>3. RespOpen(req, up, out, client, s)
    BY <1>5, <1>7, <2>2 DEF RespOpen
  <2>4. QED
    BY <1>6, <2>3 DEF RespOk
<1>13. ChatOk
  <2>1. IsClient(client)
    BY <1>2 DEF IsClient
  <2>2. client.phase # "over"
    BY <1>2
  <2>3. QED
    BY <1>2, <1>5, <1>7, <1>8, <2>1, <2>2 DEF ChatOk
<1>14. ~record.written
  BY <1>2
<1>15. QED
  BY <1>4, <1>8, <1>11, <1>12, <1>13, <1>14 DEF ReplyInv

\* A client of the event protocols takes a fine event, as promised.
LEMMA TakenAsPromised ==
  ASSUME ReplyInv, Deliver, req.api # "chat"
  PROVE  PromisedStep(up.cut, client, client')
<1>1. Fine(up.cut, client, Head(emit)) /\ Head(emit) \in Events
  <2>1. req.api \in {"claude", "responses"}
    BY DEF ReplyInv, StreamOk, Reqs
  <2>2. QED
    BY <2>1, ClaudeDeliver, RespDeliver DEF ReplyInv
<1>2. client' = Takes(client, Head(emit)) /\ client \in Views
  BY DEF Deliver, ReplyInv
<1>3. PromisedStep(up.cut, client, Takes(client, Head(emit)))
  BY <1>1, <1>2, FineIsPromised
<1>4. QED
  BY <1>2, <1>3

\* Every step keeps it.
LEMMA ReplyInvNext == ReplyInv /\ [ReplyNext]_replyVars => ReplyInv'
<1> SUFFICES ASSUME ReplyInv, [ReplyNext]_replyVars PROVE ReplyInv'
  OBVIOUS
<1>1. /\ StreamOk /\ req.api \in {"claude", "responses", "chat"}
      /\ req.api = "claude" => ClaudeOk
      /\ req.api = "responses" => RespOk
      /\ req.api = "chat" => ChatOk
      /\ req.api # "chat" => client \in Views
      /\ record.written => h.ended /\ emit = << >>
  BY DEF ReplyInv, StreamOk, Reqs
<1>2. CASE VendorSteps
  <2>1. Onward
    BY <1>1, <1>2, VendorOnward
  <2>2. StreamOk' /\ UNCHANGED <<req, h, emit, client, record>>
    BY <2>1 DEF Onward
  <2>3. req.api = "claude" => ClaudeOk'
    BY <1>1, <2>1, ClaudeOnward
  <2>4. req.api = "responses" => RespOk'
    BY <1>1, <2>1, RespOnward
  <2>5. req.api = "chat" => ChatOk'
    BY <1>1, <2>1, ChatOnward
  <2>6. QED
    BY <1>1, <2>2, <2>3, <2>4, <2>5 DEF ReplyInv
<1>3. CASE Handle
  <2>1. UNCHANGED <<req, client, record>> /\ ~h.ended
    BY <1>3 DEF Handle
  <2>2. req.api = "claude" => ClaudeOk' /\ StreamOk'
    BY <1>1, <1>3, ClaudeHandle
  <2>3. req.api = "responses" => RespOk' /\ StreamOk'
    BY <1>1, <1>3, RespHandle
  <2>4. req.api = "chat" => ChatOk' /\ StreamOk'
    BY <1>1, <1>3, ChatHandle
  <2>5. QED
    BY <1>1, <2>1, <2>2, <2>3, <2>4 DEF ReplyInv
<1>4. CASE Deliver
  <2>1. UNCHANGED <<req, said, up, conv, out, h, record>> /\ emit # << >>
    BY <1>4 DEF Deliver
  <2>2. StreamOk'
    BY <1>1, <2>1, SameStatus DEF StreamOk
  <2>3. req.api = "claude" => ClaudeOk'
    BY <1>1, <1>4, ClaudeDeliver
  <2>4. req.api = "responses" => RespOk'
    BY <1>1, <1>4, RespDeliver
  <2>5. req.api = "chat" => ChatOk'
    BY <1>1, <1>4, ChatDeliver
  <2>6. req.api # "chat" => client' \in Views
    BY <1>4, TakenAsPromised DEF PromisedStep
  <2>7. QED
    BY <1>1, <2>1, <2>2, <2>3, <2>4, <2>5, <2>6 DEF ReplyInv
<1>5. CASE Returns
  <2>1. h.ended /\ emit = << >> /\ UNCHANGED <<req, said, up, conv, out, h, emit, client>>
    BY <1>5 DEF Returns
  <2>2. StreamOk' /\ (ClaudeOk => ClaudeOk') /\ (RespOk => RespOk') /\ (ChatOk => ChatOk')
    BY <1>1, <2>1, SameStatus DEF StreamOk, ClaudeOk, RespOk, ChatOk, Now
  <2>3. QED
    BY <1>1, <2>1, <2>2 DEF ReplyInv
<1>6. CASE UNCHANGED replyVars
  <2>1. UNCHANGED <<req, said, up, conv, out, h, emit, client, record>>
    BY <1>6 DEF replyVars
  <2>2. StreamOk' /\ (ClaudeOk => ClaudeOk') /\ (RespOk => RespOk') /\ (ChatOk => ChatOk')
    BY <1>1, <2>1, SameStatus DEF StreamOk, ClaudeOk, RespOk, ChatOk, Now
  <2>3. QED
    BY <1>1, <2>1, <2>2 DEF ReplyInv
<1>7. QED
  BY <1>2, <1>3, <1>4, <1>5, <1>6 DEF ReplyNext, VendorSteps

(* The course of a reply: whatever protocol the vendor speaks and whatever  *)
(* API the client asked in, the chunks between converter and handler come   *)
(* in order with one finish reason, and each event on its way is one that   *)
(* the client can take where it stands (claudeStreamHandler,                *)
(* responsesStreamHandler and the chat endpoint's copy loop).               *)
THEOREM ReplyInvariant == ReplySpec => []ReplyInv
BY ReplyInvInit, ReplyInvNext, PTL DEF ReplySpec

\* It says what the client of a truncated reply is told.
LEMMA ToldOfTruncation == ReplyInv => TruncationTold
<1> SUFFICES ASSUME ReplyInv, record.written, client.phase = "over"
             PROVE  /\ client.status = "length" <=>
                           up.fin = IF req.proto = "responses" THEN "incomplete" ELSE "length"
                    /\ req.api = "responses" =>
                           \A i \in DOMAIN client.items : client.items[i].status = client.status
  BY DEF TruncationTold
<1>1. h.ended /\ emit = << >> /\ Now.h = h /\ Now.es = << >>
  BY DEF ReplyInv, Now
<1>2. CASE req.api = "claude"
  <2>1. PICK st : Fits(req, up, st) /\ Told(up.cut, client, Now, st)
    BY <1>1, <1>2 DEF ReplyInv, ClaudeOk, ClaudeGood, ClaudeView
  <2>2. PICK v : Course(up.cut, client, << >>, v) /\ v.status = st
    BY <1>1, <2>1 DEF Told
  <2>3. client.status = st
    BY <2>2, CourseEmpty
  <2>4. QED
    BY <1>2, <2>1, <2>3 DEF Fits
<1>3. CASE req.api = "responses"
  <2>1. RespOk /\ client \in Views
    BY <1>3 DEF ReplyInv
  <2>2. ~RespOpen(req, up, out, client, Now)
    BY <1>1 DEF RespOpen, RespGood, RespView
  <2>3. ~Dropped(up.cut, client, Now)
    BY <1>1, CourseEmpty DEF Dropped
  <2>4. PICK st : Fits(req, up, st) /\ RespTold(up.cut, client, Now, st)
    BY <2>1, <2>2, <2>3 DEF RespOk
  <2>5. PICK v : /\ Course(up.cut, client, << >>, v) /\ v.status = st
                 /\ \A i \in 1..Len(v.items) : v.items[i].status = st
    BY <1>1, <2>4 DEF RespTold
  <2>6. v = client
    BY <2>5, CourseEmpty
  <2>7. DOMAIN client.items = 1..Len(client.items)
    BY <2>1, ViewType
  <2>8. QED
    BY <2>4, <2>5, <2>6, <2>7 DEF Fits
<1>4. CASE req.api = "chat"
  <2>1. client.status = h.status /\ h.ended = TRUE /\ Fits(req, up, h.status)
    BY <1>4 DEF ReplyInv, ChatOk
  <2>2. QED
    BY <1>4, <2>1 DEF Fits
<1>5. QED
  BY <1>2, <1>3, <1>4 DEF ReplyInv, StreamOk, Reqs

(* A reply that the vendor stopped at its token limit is never handed over  *)
(* as one that came to its end: the converters map the vendor's reason and  *)
(* the handlers keep it up to their terminal event.                         *)
THEOREM TruncationIsTold == ReplySpec => []TruncationTold
BY ReplyInvariant, ToldOfTruncation, PTL

\* What the promise calls phase and items.
PhaseSeen == IF req.api = "chat" THEN "idle" ELSE client.phase
ItemsSeen == IF req.api = "chat" THEN << >> ELSE Plain(client)

\* The promise holds at the beginning.
LEMMA PromiseInit == ReplyInit => Promise!Init
<1> SUFFICES ASSUME ReplyInit PROVE Promise!Init
  OBVIOUS
<1>1. /\ up.cut = FALSE /\ client.phase = "idle" /\ client.items = << >>
  BY DEF ReplyInit
<1>2. Plain(client) = << >>
  BY <1>1 DEF Plain
<1>3. PhaseSeen = "idle" /\ ItemsSeen = << >>
  BY <1>1, <1>2 DEF PhaseSeen, ItemsSeen
<1>4. QED
  BY <1>1, <1>3 DEF Promise!Init, PhaseSeen, ItemsSeen, Plain

\* What a step of the client does to what the promise sees of it.
LEMMA PromisedNext ==
  ASSUME req.api # "chat", req' = req, up' = up, PromisedStep(up.cut, client, client')
  PROVE  Promise!Next
<1>1. PICK x, y, p, q, cut : x = ItemsSeen /\ y = ItemsSeen' /\ p = PhaseSeen /\ q = PhaseSeen' /\ cut = up.cut
  OBVIOUS
<1>2. /\ x = Plain(client) /\ y = Plain(client') /\ p = client.phase /\ q = client'.phase
      /\ up'.cut = up.cut
  BY <1>1 DEF ItemsSeen, PhaseSeen, Plain
<1>3. CASE client.phase = "idle" /\ client'.phase = "on" /\ Plain(client') = Plain(client)
  <2>1. p = "idle" /\ q = "on" /\ y = x
    BY <1>2, <1>3
  <2>2. PhaseSeen = "idle" /\ PhaseSeen' = "on" /\ ItemsSeen' = ItemsSeen
    BY <1>1, <2>1
  <2>3. Promise!Begin
    BY <1>2, <2>2 DEF Promise!Begin, PhaseSeen, ItemsSeen, Plain
  <2>4. QED
    BY <2>3 DEF Promise!Next
<1>4. CASE AddStep(client, client')
  <2>1. PICK k \in ItemKinds : Plain(client') = Append(Plain(client), [kind |-> k, data |-> << >>, open |-> TRUE])
    BY <1>4 DEF AddStep
  <2>2. /\ PhaseSeen = "on" /\ PhaseSeen' = "on"
        /\ ItemsSeen' = Append(ItemsSeen, [kind |-> k, data |-> << >>, open |-> TRUE])
    BY <1>1, <1>2, <1>4, <2>1 DEF AddStep
  <2>3. Promise!Add
    BY <1>2, <2>2 DEF Promise!Add, PhaseSeen, ItemsSeen, Plain, ItemKinds
  <2>4. QED
    BY <2>3 DEF Promise!Next
<1>5. CASE GrowStep(client, client')
  <2>1. PICK i \in DOMAIN Plain(client) :
           /\ Plain(client)[i].open = TRUE
           /\ IsStrictPrefix(Plain(client)[i].data, Plain(client')[i].data)
           /\ Plain(client') = [Plain(client) EXCEPT ![i].data = Plain(client')[i].data]
    BY <1>5 DEF GrowStep
  <2>2. /\ PhaseSeen = "on" /\ PhaseSeen' = "on" /\ DOMAIN ItemsSeen' = DOMAIN ItemsSeen
        /\ i \in DOMAIN ItemsSeen /\ ItemsSeen[i].open = TRUE
        /\ IsStrictPrefix(ItemsSeen[i].data, ItemsSeen'[i].data)
        /\ ItemsSeen' = [ItemsSeen EXCEPT ![i].data = ItemsSeen'[i].data]
    BY <1>1, <1>2, <1>5, <2>1 DEF GrowStep
  <2>3. PICK more : more = ItemsSeen'[i].data
    OBVIOUS
  <2>4. Promise!IsStrictPrefix(ItemsSeen[i].data, more)
    BY <2>2, <2>3 DEF IsStrictPrefix, IsPrefix, Promise!IsStrictPrefix, Promise!IsPrefix
  <2>5. /\ i \in {j \in DOMAIN ItemsSeen : ItemsSeen[j].open}
        /\ ItemsSeen' = [ItemsSeen EXCEPT ![i].data = more]
    BY <2>2, <2>3
  <2>6. \E j \in {k \in DOMAIN ItemsSeen : ItemsSeen[k].open} :
           \E m \in {ItemsSeen'[j].data} :
              /\ Promise!IsStrictPrefix(ItemsSeen[j].data, m)
              /\ ItemsSeen' = [ItemsSeen EXCEPT ![j].data = m]
    BY <2>3, <2>4, <2>5
  <2>7. Promise!Grow
    BY <1>2, <2>2, <2>6 DEF Promise!Grow, Promise!Open, PhaseSeen, ItemsSeen, Plain
  <2>8. QED
    BY <2>7 DEF Promise!Next
<1>6. CASE CloseStep(client, client')
  <2>1. PICK i \in DOMAIN Plain(client) :
           Plain(client)[i].open = TRUE /\ Plain(client') = [Plain(client) EXCEPT ![i].open = FALSE]
    BY <1>6 DEF CloseStep
  <2>2. /\ PhaseSeen = "on" /\ PhaseSeen' = "on"
        /\ i \in DOMAIN ItemsSeen /\ ItemsSeen[i].open = TRUE
        /\ ItemsSeen' = [ItemsSeen EXCEPT ![i].open = FALSE]
    BY <1>1, <1>2, <1>6, <2>1 DEF CloseStep
  <2>3. Promise!Close
    BY <1>2, <2>2 DEF Promise!Close, Promise!Open, PhaseSeen, ItemsSeen, Plain
  <2>4. QED
    BY <2>3 DEF Promise!Next
<1>7. CASE /\ \/ client.phase = "on" /\ \A i \in DOMAIN Plain(client) : Plain(client)[i].open = FALSE
              \/ client.phase # "over" /\ up.cut
           /\ client'.phase = "over" /\ Plain(client') = Plain(client)
  <2>1. /\ \/ PhaseSeen = "on" /\ \A i \in DOMAIN ItemsSeen : ItemsSeen[i].open = FALSE
           \/ PhaseSeen # "over" /\ up.cut
        /\ PhaseSeen' = "over" /\ ItemsSeen' = ItemsSeen
    BY <1>1, <1>2, <1>7
  <2>2. (\A i \in DOMAIN ItemsSeen : ItemsSeen[i].open = FALSE)
           => {i \in DOMAIN ItemsSeen : ItemsSeen[i].open} = {}
    OBVIOUS
  <2>3. Promise!End
    BY <1>2, <2>1, <2>2 DEF Promise!End, Promise!Open, PhaseSeen, ItemsSeen, Plain
  <2>4. QED
    BY <2>3 DEF Promise!Next
<1>8. QED
  BY <1>3, <1>4, <1>5, <1>6, <1>7 DEF PromisedStep

\* Every step of the stream is one of the promise's, or leaves what it sees alone.
LEMMA PromiseStep == ReplyInv /\ [ReplyNext]_replyVars => [Promise!Next]_Promise!vars
<1> SUFFICES ASSUME ReplyInv, [ReplyNext]_replyVars PROVE [Promise!Next]_Promise!vars
  OBVIOUS
<1>1. ASSUME req' = req, up' = up, client' = client
      PROVE  UNCHANGED Promise!vars
  BY <1>1 DEF Promise!vars
<1>2. CASE VendorSteps
  <2>1. UNCHANGED <<req, client>> /\ (up'.cut = up.cut \/ up'.cut = TRUE)
    BY <1>2, VendorOnward DEF ReplyInv, Onward
  <2>2. CASE up'.cut = up.cut
    BY <2>1, <2>2 DEF Promise!vars
  <2>3. CASE up'.cut = TRUE
    <3>1. Promise!BreakOff
      BY <2>1, <2>3 DEF Promise!BreakOff
    <3>2. QED
      BY <3>1 DEF Promise!Next
  <2>4. QED
    BY <2>1, <2>2, <2>3
<1>3. CASE Handle
  BY <1>1, <1>3 DEF Handle
<1>4. CASE Deliver
  <2>1. req' = req /\ up' = up
    BY <1>4 DEF Deliver
  <2>2. CASE req.api = "chat"
    BY <2>1, <2>2 DEF Promise!vars
  <2>3. CASE req.api # "chat"
    <3>1. PromisedStep(up.cut, client, client')
      BY <1>4, <2>3, TakenAsPromised
    <3>2. Promise!Next
      BY <2>1, <2>3, <3>1, PromisedNext
    <3>3. QED
      BY <3>2
  <2>4. QED
    BY <2>2, <2>3
<1>5. CASE Returns
  BY <1>1, <1>5 DEF Returns
<1>6. CASE UNCHANGED replyVars
  BY <1>1, <1>6 DEF replyVars
<1>7. QED
  BY <1>2, <1>3, <1>4, <1>5, <1>6 DEF ReplyNext, VendorSteps

(* The stream implements EventStream: a message begins once, items are      *)
(* added behind the others, grow only while they are open and are closed    *)
(* once, and nothing follows the end, for any list of chunks.               *)
THEOREM PromiseIsKept == ReplySpec => KeepsPromise
<1>1. ReplyInit => Promise!Init
  BY PromiseInit
<1>2. ReplyInv /\ [ReplyNext]_replyVars => [Promise!Next]_Promise!vars
  BY PromiseStep
<1>3. QED
  BY <1>1, <1>2, ReplyInvariant, PTL DEF ReplySpec, KeepsPromise, Promise!Spec

=============================================================================

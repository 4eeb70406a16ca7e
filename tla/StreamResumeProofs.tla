-------------------------- MODULE StreamResumeProofs --------------------------
(***************************************************************************)
(* Proofs about StreamResume, for any finite set of requests and any       *)
(* number of slots, vendors, models and lines: the safety properties of a  *)
(* streamed reply from one inductive invariant, Safe. And, since a request *)
(* for "auto" walks the chain it chooses, about AutoModel (the second      *)
(* part): the type of its state, and that a model is not asked again for a *)
(* conversation it was too small for, from the inductive AutoSafe.         *)
(***************************************************************************)
EXTENDS StreamResume, AutoModel, SequenceTheorems, FiniteSetTheorems, WellFoundedInduction, TLAPS

WireLines == [kind : Kinds, of : Attempts]

-----------------------------------------------------------------------------
(* Lines. *)

\* Counting lines: none in the empty reply, and no text when the count is 0.
LEMMA CountFacts ==
  ASSUME NEW w \in Seq(WireLines)
  PROVE  /\ TextIn(w) \in Nat
         /\ w = << >> => TextIn(w) = 0
         /\ TextIn(w) = 0 => \A i \in DOMAIN w : w[i].kind # "text"
<1> DEFINE S == {i \in DOMAIN w : w[i].kind \in {"text"}}
<1>1. DOMAIN w = 1 .. Len(w) /\ Len(w) \in Nat
  BY LenProperties
<1>2. IsFiniteSet(DOMAIN w)
  BY <1>1, FS_Interval
<1>3. S \in SUBSET DOMAIN w
  OBVIOUS
<1>4. IsFiniteSet(S)
  BY <1>2, <1>3, FS_Subset
<1>5. TextIn(w) = Cardinality(S)
  BY DEF TextIn, Count
<1>6. Cardinality(S) \in Nat
  BY <1>4, FS_CardinalityType
<1>7. Cardinality(S) = 0 <=> S = {}
  BY <1>4, FS_EmptySet
<1>8. w = << >> => S = {}
  BY <1>1
<1>9. S = {} => \A i \in DOMAIN w : w[i].kind # "text"
  OBVIOUS
<1>10. QED
  BY <1>5, <1>6, <1>7, <1>8, <1>9

\* Adding lines at the end: the old lines keep their places.
LEMMA AddedLines ==
  ASSUME NEW w \in Seq(WireLines), NEW c \in Seq(WireLines)
  PROVE  /\ w \o c \in Seq(WireLines)
         /\ Len(w \o c) = Len(w) + Len(c)
         /\ Len(w) \in Nat /\ Len(c) \in Nat
         /\ DOMAIN w = 1 .. Len(w) /\ DOMAIN c = 1 .. Len(c)
         /\ DOMAIN (w \o c) = 1 .. Len(w) + Len(c)
         /\ \A i \in DOMAIN (w \o c) :
               (w \o c)[i] = IF i <= Len(w) THEN w[i] ELSE c[i - Len(w)]
BY ConcatProperties, LenProperties

\* An open reply stays open under lines that are no [DONE], and each of the
\* three ways to close it closes it.
LEMMA Closings ==
  ASSUME NEW w \in Seq(WireLines), NoDone(w),
         NEW l \in WireLines, NEW d \in WireLines,
         l.kind = "error", d.kind = "done"
  PROVE  /\ w \o << >> = w
         /\ ErrorLast(w \o <<l>>)
         /\ DoneLast(w \o <<d>>)
         /\ DoneLast(w \o <<l, d>>)
<1>1. <<l>> \in Seq(WireLines) /\ <<d>> \in Seq(WireLines) /\ <<l, d>> \in Seq(WireLines)
  OBVIOUS
<1>2. Len(<<l>>) = 1 /\ Len(<<d>>) = 1 /\ Len(<<l, d>>) = 2
  OBVIOUS
<1>3. ErrorLast(w \o <<l>>)
  <2> DEFINE v == w \o <<l>>
  <2>1. /\ Len(v) = Len(w) + 1 /\ Len(w) \in Nat /\ DOMAIN w = 1 .. Len(w)
        /\ DOMAIN v = 1 .. Len(w) + 1
        /\ \A i \in DOMAIN v : v[i] = IF i <= Len(w) THEN w[i] ELSE <<l>>[i - Len(w)]
    BY <1>1, <1>2, AddedLines
  <2>2. v[Len(v)] = l
    BY <2>1
  <2>3. \A i \in DOMAIN v : i # Len(v) => i \in DOMAIN w /\ v[i] = w[i]
    BY <2>1
  <2>4. v # << >>
    BY <2>1
  <2>5. QED
    BY <2>2, <2>3, <2>4 DEF ErrorLast, NoDone
<1>4. DoneLast(w \o <<d>>)
  <2> DEFINE v == w \o <<d>>
  <2>1. /\ Len(v) = Len(w) + 1 /\ Len(w) \in Nat /\ DOMAIN w = 1 .. Len(w)
        /\ DOMAIN v = 1 .. Len(w) + 1
        /\ \A i \in DOMAIN v : v[i] = IF i <= Len(w) THEN w[i] ELSE <<d>>[i - Len(w)]
    BY <1>1, <1>2, AddedLines
  <2>2. v[Len(v)] = d
    BY <2>1
  <2>3. \A i \in DOMAIN v : i # Len(v) => i \in DOMAIN w /\ v[i] = w[i]
    BY <2>1
  <2>4. v # << >>
    BY <2>1
  <2>5. QED
    BY <2>2, <2>3, <2>4 DEF DoneLast, NoDone
<1>5. DoneLast(w \o <<l, d>>)
  <2> DEFINE v == w \o <<l, d>>
  <2>1. /\ Len(v) = Len(w) + 2 /\ Len(w) \in Nat /\ DOMAIN w = 1 .. Len(w)
        /\ DOMAIN v = 1 .. Len(w) + 2
        /\ \A i \in DOMAIN v : v[i] = IF i <= Len(w) THEN w[i] ELSE <<l, d>>[i - Len(w)]
    BY <1>1, <1>2, AddedLines
  <2>2. v[Len(v)] = d /\ v[Len(w) + 1] = l
    BY <2>1
  <2>3. \A i \in DOMAIN v : i # Len(v) /\ i # Len(w) + 1 => i \in DOMAIN w /\ v[i] = w[i]
    BY <2>1
  <2>4. v # << >>
    BY <2>1
  <2>5. QED
    BY <2>1, <2>2, <2>3, <2>4 DEF DoneLast, NoDone
<1>6. w \o << >> = w
  BY ConcatEmptySeq
<1>7. QED
  BY <1>3, <1>4, <1>5, <1>6

-----------------------------------------------------------------------------
(* What the actions of a request do. *)

\* One line written now.
LEMMA LineType ==
  ASSUME NEW s \in Streams, attempt[s] \in Nat, attempt[s] <= MaxResume, NEW k \in Kinds
  PROVE  Line(s, k) \in WireLines /\ Line(s, k).kind = k /\ Line(s, k).of = attempt[s]
BY StreamResumeAssumption DEF Line, WireLines, Attempts

\* Every way out of the read loop leaves it with a cause; only "done" closes the
\* reply; the wait for a first chunk had none; only a client that left is gone.
LEMMA LeaveFacts ==
  ASSUME NEW s \in Streams,
         UpstreamDone(s) \/ UpstreamBreaks(s) \/ TimesOut(s) \/ ClientGone(s)
  PROVE  \E why \in Causes,
            closing \in {<< >>, <<Line(s, "done")>>, <<Line(s, "error"), Line(s, "done")>>} :
            /\ Leave(s, why, closing)
            /\ why = "done" <=> closing # << >>
            /\ why = "ttft" => ~GotFirst(s)
            /\ why \in {"gone", "cancelled"} => left[s]
<1> DEFINE C == {<< >>, <<Line(s, "done")>>, <<Line(s, "error"), Line(s, "done")>>}
           Q(why, closing) == /\ Leave(s, why, closing)
                              /\ why = "done" <=> closing # << >>
                              /\ why = "ttft" => ~GotFirst(s)
                              /\ why \in {"gone", "cancelled"} => left[s]
<1>1. CASE UpstreamDone(s)
  <2>1. Q("done", <<Line(s, "done")>>) \/ Q("done", <<Line(s, "error"), Line(s, "done")>>)
    BY <1>1 DEF UpstreamDone
  <2>2. QED
    BY <2>1 DEF Causes
<1>2. CASE UpstreamBreaks(s)
  <2>1. PICK why \in {"errorLine", "eof", "hard"} : Leave(s, why, << >>)
    BY <1>2 DEF UpstreamBreaks
  <2>2. QED
    BY <2>1 DEF Causes, Fails, Quiet
<1>3. CASE TimesOut(s)
  <2>1. Q("silence", << >>) \/ Q("ttft", << >>)
    BY <1>3 DEF TimesOut
  <2>2. QED
    BY <2>1 DEF Causes, Quiet
<1>4. CASE ClientGone(s)
  <2>1. Q("gone", << >>) \/ Q("cancelled", << >>)
    BY <1>4 DEF ClientGone
  <2>2. QED
    BY <2>1 DEF Causes
<1>5. QED
  BY <1>1, <1>2, <1>3, <1>4

-----------------------------------------------------------------------------
(* The slots. *)

\* The served requests can be counted, and while there is one a slot is held.
LEMMA ServedFacts ==
  ASSUME TypeOK, SlotsMatchStreams
  PROVE  /\ IsFiniteSet(Served) /\ Cardinality(Served) \in Nat
         /\ \A s \in Served : held > 0
         /\ others <= held
<1>1. IsFiniteSet(Served)
  <2>1. Served \in SUBSET Streams
    BY DEF Served
  <2>2. QED
    BY <2>1, FS_Subset, StreamResumeAssumption
<1>2. Cardinality(Served) \in Nat
  BY <1>1, FS_CardinalityType
<1>3. ASSUME NEW s \in Served PROVE Cardinality(Served) # 0
  BY <1>1, FS_EmptySet
<1>4. others \in Nat /\ held \in Nat
  BY StreamResumeAssumption DEF TypeOK
<1>5. QED
  BY <1>1, <1>2, <1>3, <1>4 DEF SlotsMatchStreams

\* Moving one request's control point adds it to the served ones or takes it out.
LEMMA ServedChange ==
  ASSUME TypeOK, NEW s \in Streams, NEW x, pc' = [pc EXCEPT ![s] = x]
  PROVE  Served' = IF x \in {"dial", "read", "close"} THEN Served \cup {s}
                                                     ELSE Served \ {s}
BY DEF Served, TypeOK

\* A request that stays served, or stays unserved, leaves the count alone.
LEMMA SlotsKept ==
  ASSUME SlotsMatchStreams, Served' = Served, UNCHANGED <<held, others>>
  PROVE  SlotsMatchStreams'
BY DEF SlotsMatchStreams

LEMMA SlotGivenBack ==
  ASSUME TypeOK, SlotsMatchStreams, NEW s \in Served, NEW good, NEW closing,
         Ends(s, good, closing), UNCHANGED others
  PROVE  SlotsMatchStreams'
<1>1. s \in Streams
  BY DEF Served
<1>2. Served' = Served \ {s}
  BY <1>1, ServedChange DEF Ends
<1>3. IsFiniteSet(Served) /\ Cardinality(Served) \in Nat
  BY ServedFacts
<1>4. Cardinality(Served') = Cardinality(Served) - 1
  BY <1>2, <1>3, FS_RemoveElement
<1>5. others \in Nat /\ held \in Nat
  BY StreamResumeAssumption DEF TypeOK
<1>6. QED
  BY <1>3, <1>4, <1>5 DEF Ends, SlotsMatchStreams

LEMMA SlotsPreserved == Safe /\ [Next]_vars => SlotsMatchStreams'
<1> SUFFICES ASSUME Safe, [Next]_vars PROVE SlotsMatchStreams'
  OBVIOUS
<1>0. TypeOK /\ SlotsMatchStreams
  BY DEF Safe
<1>nat. held \in Nat /\ others \in Nat
  BY <1>0, StreamResumeAssumption DEF TypeOK
<1>1. CASE UNCHANGED vars
  BY <1>0, <1>1, SlotsKept DEF vars, Served
<1>2. CASE OthersChange
  <2>1. Served' = Served
    BY <1>2 DEF OthersChange, Served
  <2>2. Cardinality(Served) \in Nat
    BY <1>0, ServedFacts
  <2>3. QED
    BY <1>0, <1>nat, <1>2, <2>1, <2>2 DEF OthersChange, SlotsMatchStreams
<1>3. ASSUME NEW s \in Streams, Arrive(s) PROVE SlotsMatchStreams'
  <2>1. Served' = Served \cup {s} /\ s \notin Served
    BY <1>0, <1>3, ServedChange DEF Arrive, Served
  <2>2. IsFiniteSet(Served) /\ Cardinality(Served) \in Nat
    BY <1>0, ServedFacts
  <2>3. Cardinality(Served') = Cardinality(Served) + 1
    BY <2>1, <2>2, FS_AddElement
  <2>4. QED
    BY <1>0, <1>nat, <1>3, <2>2, <2>3 DEF Arrive, SlotsMatchStreams
<1>4. ASSUME NEW s \in Streams, Refuse(s) PROVE SlotsMatchStreams'
  <2>1. Served' = Served
    BY <1>0, <1>4, ServedChange DEF Refuse, Served
  <2>2. QED
    BY <1>0, <1>4, <2>1, SlotsKept DEF Refuse
<1>5. ASSUME NEW s \in Streams, DialOk(s) \/ DialNext(s) \/ ResumeBadStatus(s)
      PROVE SlotsMatchStreams'
  <2>1. Served' = Served
    BY <1>0, <1>5, ServedChange DEF DialOk, DialNext, ResumeBadStatus, Served
  <2>2. QED
    BY <1>0, <1>5, <2>1, SlotsKept DEF DialOk, DialNext, ResumeBadStatus
<1>6. ASSUME NEW s \in Streams, DialRefused(s) PROVE SlotsMatchStreams'
  BY <1>0, <1>6, SlotGivenBack DEF DialRefused, Served
<1>7. ASSUME NEW s \in Streams, ResumeBroken(s) PROVE SlotsMatchStreams'
  <2>1. s \in Served /\ SpendAttempt(s) /\ UNCHANGED others
    BY <1>7 DEF ResumeBroken, Served
  <2>2. \/ UNCHANGED <<pc, held>>
        \/ Ends(s, FALSE, <<Line(s, "error")>>)
    BY <2>1 DEF SpendAttempt
  <2>3. QED
    BY <1>0, <2>1, <2>2, SlotsKept, SlotGivenBack DEF Served
<1>8. ASSUME NEW s \in Streams, Forward(s) PROVE SlotsMatchStreams'
  BY <1>0, <1>8, SlotsKept DEF Forward, Served
<1>9. ASSUME NEW s \in Streams, UpstreamDone(s) \/ UpstreamBreaks(s) \/ TimesOut(s) \/ ClientGone(s)
      PROVE SlotsMatchStreams'
  <2>1. PICK why, closing : Leave(s, why, closing)
    BY <1>9, LeaveFacts
  <2>2. Served' = Served
    BY <1>0, <2>1, ServedChange DEF Leave, Served
  <2>3. QED
    BY <1>0, <2>1, <2>2, SlotsKept DEF Leave
<1>10. ASSUME NEW s \in Streams, Settle(s) PROVE SlotsMatchStreams'
  <2>1. s \in Served /\ Settled(s) /\ UNCHANGED others /\ pc[s] = "close"
    BY <1>10 DEF Settle, Served
  <2>2. \/ \E good, closing : Ends(s, good, closing)
        \/ pc' = [pc EXCEPT ![s] = "dial"] /\ UNCHANGED held
    BY <2>1 DEF Settled, Resume
  <2>3. CASE \E good, closing : Ends(s, good, closing)
    BY <1>0, <2>1, <2>3, SlotGivenBack
  <2>4. CASE pc' = [pc EXCEPT ![s] = "dial"] /\ UNCHANGED held
    <3>1. Served' = Served
      BY <1>0, <2>1, <2>4, ServedChange
    <3>2. QED
      BY <1>0, <2>1, <2>4, <3>1, SlotsKept
  <2>5. QED
    BY <2>2, <2>3, <2>4
<1>11. ASSUME NEW s \in Streams, ClientLeaves(s) PROVE SlotsMatchStreams'
  BY <1>0, <1>11, SlotsKept DEF ClientLeaves, Served
<1>12. QED
  BY <1>1, <1>2, <1>3, <1>4, <1>5, <1>6, <1>7, <1>8, <1>9, <1>10, <1>11
     DEF Next, Step, Dial, Read

-----------------------------------------------------------------------------
(* Type correctness. *)

\* Ending a reply keeps the types, as long as a slot is given back that was taken.
LEMMA EndsType ==
  ASSUME TypeOK, NEW s \in Streams, NEW good \in BOOLEAN, NEW closing \in Seq(WireLines),
         Ends(s, good, closing), held > 0
  PROVE  /\ pc' \in [Streams -> {"new", "dial", "read", "close", "ended", "refused"}]
         /\ held' \in 0 .. Slots
         /\ conn' \in [Streams -> {"none", "stream", "body"}]
         /\ ok' \in [Streams -> BOOLEAN]
         /\ wire' \in [Streams -> Seq(WireLines)]
<1>1. wire[s] \o closing \in Seq(WireLines)
  BY AddedLines DEF TypeOK, WireLines
<1>2. wire' \in [Streams -> Seq(WireLines)]
  BY <1>1 DEF Ends, TypeOK, WireLines
<1>3. held' \in 0 .. Slots
  BY StreamResumeAssumption DEF Ends, TypeOK
<1>4. QED
  BY <1>2, <1>3 DEF Ends, TypeOK

LEMMA TypeInit == Init => TypeOK
<1> SUFFICES ASSUME Init PROVE TypeOK
  OBVIOUS
<1>1. try \in [Streams -> [model : 1..Chain, vendor : 1..Vendors]]
  BY StreamResumeAssumption DEF Init, FirstTry
<1>2. attempt \in [Streams -> 0..MaxResume + 1] /\ held \in 0..Slots /\ others \in 0..Slots
  BY StreamResumeAssumption DEF Init
<1>3. wire \in [Streams -> Seq([kind : Kinds, of : Attempts])] /\ told \in [Streams -> Seq(Nat)]
  BY EmptySeq DEF Init
<1>4. cause \in [Streams -> [Attempts -> Causes \cup {"none"}]]
  BY DEF Init
<1>5. QED
  BY <1>1, <1>2, <1>3, <1>4 DEF Init, TypeOK

\* Where a failed dial goes on is a vendor and a model there are.
LEMMA NextTryType ==
  ASSUME NEW t \in [model : 1..Chain, vendor : 1..Vendors], NEW how
  PROVE  NextTry(t, how) \subseteq [model : 1..Chain, vendor : 1..Vendors]
BY StreamResumeAssumption DEF NextTry

LEMMA SpendType ==
  ASSUME TypeOK, NEW s \in Streams, SpendAttempt(s), held > 0, attempt[s] <= MaxResume
  PROVE  /\ pc' \in [Streams -> {"new", "dial", "read", "close", "ended", "refused"}]
         /\ held' \in 0 .. Slots
         /\ conn' \in [Streams -> {"none", "stream", "body"}]
         /\ ok' \in [Streams -> BOOLEAN]
         /\ wire' \in [Streams -> Seq(WireLines)]
         /\ attempt' \in [Streams -> 0..MaxResume + 1]
<1>1. attempt' \in [Streams -> 0..MaxResume + 1] /\ attempt[s] \in Nat
  BY StreamResumeAssumption DEF SpendAttempt, TypeOK
<1>2. CASE UNCHANGED <<pc, held, conn, ok, wire>>
  BY <1>1, <1>2 DEF TypeOK, WireLines
<1>3. CASE Ends(s, FALSE, <<Line(s, "error")>>)
  <2>1. <<Line(s, "error")>> \in Seq(WireLines)
    BY <1>1, LineType DEF Kinds
  <2>2. QED
    BY <1>1, <1>3, <2>1, EndsType
<1>4. QED
  BY <1>2, <1>3 DEF SpendAttempt

LEMMA TypePreserved == Safe /\ [Next]_vars => TypeOK'
<1> SUFFICES ASSUME Safe, [Next]_vars PROVE TypeOK'
  OBVIOUS
<1>0. TypeOK /\ SlotsMatchStreams
  BY DEF Safe
<1>held. (\A s \in Served : held > 0) /\ others <= held
  BY <1>0, ServedFacts
<1>limit. \A s \in Served : attempt[s] \in Nat /\ attempt[s] <= MaxResume
  BY <1>0, StreamResumeAssumption DEF Safe, Begun, Served, TypeOK
<1>nat. held \in 0..Slots /\ others \in 0..Slots /\ Slots \in Nat
  BY <1>0, StreamResumeAssumption DEF TypeOK
<1>1. CASE UNCHANGED vars
  BY <1>0, <1>1 DEF vars, TypeOK
<1>2. CASE OthersChange
  <2>1. held' \in 0..Slots /\ others' \in 0..Slots
    BY <1>2, <1>held, <1>nat DEF OthersChange
  <2>2. QED
    BY <1>0, <1>2, <2>1 DEF OthersChange, TypeOK
<1>3. ASSUME NEW s \in Streams, Arrive(s) PROVE TypeOK'
  <2>1. held' \in 0..Slots
    BY <1>3, <1>nat DEF Arrive
  <2>2. QED
    BY <1>0, <1>3, <2>1 DEF Arrive, TypeOK
<1>4. ASSUME NEW s \in Streams, Refuse(s) \/ DialOk(s) \/ ResumeBadStatus(s) \/ ClientLeaves(s)
      PROVE TypeOK'
  BY <1>0, <1>4 DEF Refuse, DialOk, ResumeBadStatus, ClientLeaves, TypeOK
<1>5. ASSUME NEW s \in Streams, DialNext(s) PROVE TypeOK'
  <2>1. PICK how : \E t \in NextTry(try[s], how) : try' = [try EXCEPT ![s] = t]
    BY <1>5 DEF DialNext
  <2>2. PICK t \in [model : 1..Chain, vendor : 1..Vendors] : try' = [try EXCEPT ![s] = t]
    BY <1>0, <2>1, NextTryType DEF TypeOK
  <2>3. QED
    BY <1>0, <1>5, <2>2 DEF DialNext, TypeOK
<1>6. ASSUME NEW s \in Streams, DialRefused(s) PROVE TypeOK'
  <2>1. s \in Served
    BY <1>6 DEF DialRefused, Served
  <2>2. <<Line(s, "error")>> \in Seq(WireLines)
    BY <2>1, <1>limit, LineType DEF Kinds
  <2>3. Ends(s, FALSE, <<Line(s, "error")>>)
    BY <1>6 DEF DialRefused
  <2>4. QED
    BY <1>0, <1>6, <1>held, <2>1, <2>2, <2>3, EndsType DEF DialRefused, TypeOK, WireLines
<1>7. ASSUME NEW s \in Streams, ResumeBroken(s) PROVE TypeOK'
  <2>1. s \in Served /\ SpendAttempt(s)
    BY <1>7 DEF ResumeBroken, Served
  <2>2. FirstTry \in [model : 1..Chain, vendor : 1..Vendors]
    BY StreamResumeAssumption DEF FirstTry
  <2>3. QED
    BY <1>0, <1>7, <1>held, <1>limit, <2>1, <2>2, SpendType DEF ResumeBroken, TypeOK, WireLines
<1>8. ASSUME NEW s \in Streams, Forward(s) PROVE TypeOK'
  <2>1. s \in Served
    BY <1>8 DEF Forward, Served
  <2>2. PICK k \in {"text", "other", "raw"} : wire' = [wire EXCEPT ![s] = Append(@, Line(s, k))]
    BY <1>8 DEF Forward
  <2>3. Line(s, k) \in WireLines
    BY <1>limit, <2>1, LineType DEF Kinds
  <2>4. Append(wire[s], Line(s, k)) \in Seq(WireLines)
    BY <1>0, <2>3, AppendProperties DEF TypeOK, WireLines
  <2>5. wire' \in [Streams -> Seq(WireLines)]
    BY <1>0, <2>2, <2>4 DEF TypeOK, WireLines
  <2>6. QED
    BY <1>0, <1>8, <2>5 DEF Forward, TypeOK, WireLines
<1>9. ASSUME NEW s \in Streams, UpstreamDone(s) \/ UpstreamBreaks(s) \/ TimesOut(s) \/ ClientGone(s)
      PROVE TypeOK'
  <2>1. PICK why \in Causes,
             closing \in {<< >>, <<Line(s, "done")>>, <<Line(s, "error"), Line(s, "done")>>} :
               Leave(s, why, closing)
    BY <1>9, LeaveFacts
  <2>2. s \in Served
    BY <2>1 DEF Leave, Served
  <2>3. Line(s, "done") \in WireLines /\ Line(s, "error") \in WireLines
    BY <1>limit, <2>2, LineType DEF Kinds
  <2>4. closing \in Seq(WireLines)
    <3>1. /\ << >> \in Seq(WireLines) /\ <<Line(s, "done")>> \in Seq(WireLines)
          /\ <<Line(s, "error"), Line(s, "done")>> \in Seq(WireLines)
      BY <2>3
    <3>2. QED
      BY <2>1, <3>1
  <2>5. wire[s] \o closing \in Seq(WireLines)
    BY <1>0, <2>4, AddedLines DEF TypeOK, WireLines
  <2>6. wire' \in [Streams -> Seq(WireLines)]
    BY <1>0, <2>1, <2>5 DEF Leave, TypeOK, WireLines
  <2>7. cause' \in [Streams -> [Attempts -> Causes \cup {"none"}]]
    BY <1>0, <2>1 DEF Leave, TypeOK
  <2>8. /\ pc' \in [Streams -> {"new", "dial", "read", "close", "ended", "refused"}]
        /\ UNCHANGED <<held, others, try, conn, attempt, told, ok, left, blamed>>
    BY <1>0, <2>1 DEF Leave, TypeOK
  <2>9. QED
    BY <1>0, <2>6, <2>7, <2>8 DEF TypeOK, WireLines
<1>10. ASSUME NEW s \in Streams, Settle(s) PROVE TypeOK'
  <2>1. s \in Served /\ Settled(s) /\ Notified(s) /\ UNCHANGED <<others, cause, left>>
        /\ try' = [try EXCEPT ![s] = FirstTry]
    BY <1>10 DEF Settle, Served
  <2>2. try' \in [Streams -> [model : 1..Chain, vendor : 1..Vendors]]
    BY <1>0, <2>1, StreamResumeAssumption DEF FirstTry, TypeOK
  <2>3. attempt[s] \in Attempts /\ cause[s][attempt[s]] \in Causes
    <3>1. attempt[s] \in Attempts
      BY <1>limit, <2>1, StreamResumeAssumption DEF Attempts
    <3>2. cause[s][attempt[s]] \in Causes \cup {"none"}
      BY <1>0, <3>1 DEF TypeOK
    <3>3. cause[s][attempt[s]] # "none"
      BY <1>10 DEF Safe, Joined, Settle
    <3>4. QED
      BY <3>1, <3>2, <3>3
  <2>4. blamed' \in [Streams -> SUBSET Causes]
    BY <1>0, <2>1, <2>3 DEF Notified, TypeOK
  <2>5. <<Line(s, "error")>> \in Seq(WireLines) /\ <<Line(s, "done")>> \in Seq(WireLines)
        /\ << >> \in Seq(WireLines)
    BY <1>limit, <2>1, LineType DEF Kinds
  <2>6. CASE /\ \E good \in BOOLEAN, closing \in {<< >>, <<Line(s, "error")>>, <<Line(s, "done")>>} :
                  Ends(s, good, closing)
             /\ attempt' \in [Streams -> 0..MaxResume + 1] /\ UNCHANGED told
    <3>1. PICK good \in BOOLEAN, closing \in Seq(WireLines) : Ends(s, good, closing)
      BY <2>5, <2>6
    <3>2. held > 0
      BY <1>held, <2>1
    <3>3. /\ pc' \in [Streams -> {"new", "dial", "read", "close", "ended", "refused"}]
          /\ held' \in 0 .. Slots /\ conn' \in [Streams -> {"none", "stream", "body"}]
          /\ ok' \in [Streams -> BOOLEAN] /\ wire' \in [Streams -> Seq(WireLines)]
      BY <1>0, <3>1, <3>2, EndsType
    <3>4. QED
      BY <1>0, <2>1, <2>2, <2>4, <2>6, <3>3 DEF TypeOK, WireLines
  <2>7. CASE /\ UNCHANGED <<held, ok, wire>> /\ AskAgain(s)
             /\ attempt' \in [Streams -> 0..MaxResume + 1]
             /\ pc' = [pc EXCEPT ![s] = "dial"] /\ conn' = [conn EXCEPT ![s] = "none"]
    <3>1. TextIn(wire[s]) \in Nat
      BY <1>0, CountFacts DEF TypeOK, WireLines
    <3>2. Append(told[s], TextIn(wire[s])) \in Seq(Nat)
      BY <1>0, <3>1, AppendProperties DEF TypeOK
    <3>3. told' \in [Streams -> Seq(Nat)]
      BY <1>0, <2>7, <3>2 DEF AskAgain, TypeOK
    <3>4. QED
      BY <1>0, <2>1, <2>2, <2>4, <2>7, <3>3 DEF TypeOK
  <2>8. attempt' = attempt \/ attempt' = [attempt EXCEPT ![s] = @ + 1]
    <3>1. UNCHANGED attempt \/ Resume(s)
      BY <2>1 DEF Settled
    <3>2. QED
      BY <3>1 DEF Resume
  <2>9. attempt' \in [Streams -> 0..MaxResume + 1]
    <3>1. attempt[s] + 1 \in 0..MaxResume + 1
      BY <1>limit, <2>1, StreamResumeAssumption
    <3>2. QED
      BY <1>0, <2>8, <3>1 DEF TypeOK
  <2>10. CASE Resume(s)
    <3>1. \/ Ends(s, FALSE, <<Line(s, "error")>>) /\ UNCHANGED told
          \/ /\ AskAgain(s) /\ UNCHANGED <<held, ok, wire>>
             /\ pc' = [pc EXCEPT ![s] = "dial"] /\ conn' = [conn EXCEPT ![s] = "none"]
      BY <2>10 DEF Resume
    <3>2. QED
      BY <2>6, <2>7, <2>9, <3>1
  <2>11. CASE UNCHANGED told
    <3>1. CASE Resume(s)
      BY <2>10, <3>1
    <3>2. CASE ~Resume(s)
      <4>1. \/ Ends(s, TRUE, << >>) \/ Ends(s, FALSE, <<Line(s, "error")>>)
            \/ Ends(s, TRUE, <<Line(s, "done")>>)
        BY <2>1, <3>2 DEF Settled
      <4>2. QED
        BY <2>6, <2>9, <2>11, <4>1
    <3>3. QED
      BY <3>1, <3>2
  <2>12. Resume(s) \/ UNCHANGED told
    BY <2>1 DEF Settled
  <2>13. QED
    BY <2>10, <2>11, <2>12
<1>12. QED
  BY <1>1, <1>2, <1>3, <1>4, <1>5, <1>6, <1>7, <1>8, <1>9, <1>10
     DEF Next, Step, Dial, Read

-----------------------------------------------------------------------------
(* The reply of one request. *)

\* A step of another request leaves a request as it is.
LEMMA OthersKept ==
  ASSUME TypeOK, NEW s \in Streams, NEW t \in Streams, t # s, Step(s) \/ ClientLeaves(s)
  PROVE  /\ pc'[t] = pc[t] /\ wire'[t] = wire[t] /\ attempt'[t] = attempt[t]
         /\ cause'[t] = cause[t] /\ ok'[t] = ok[t] /\ left'[t] = left[t]
         /\ told'[t] = told[t]
<1>1. CASE Arrive(s) \/ Refuse(s) \/ DialOk(s) \/ DialNext(s) \/ ResumeBadStatus(s) \/ ClientLeaves(s)
  BY <1>1 DEF Arrive, Refuse, DialOk, DialNext, ResumeBadStatus, ClientLeaves, TypeOK
<1>2. CASE DialRefused(s) \/ ResumeBroken(s)
  <2>1. CASE DialRefused(s)
    BY <2>1 DEF DialRefused, Ends, TypeOK
  <2>2. CASE ResumeBroken(s) /\ attempt[s] < MaxResume
    BY <2>2 DEF ResumeBroken, SpendAttempt, TypeOK
  <2>3. CASE ResumeBroken(s) /\ ~(attempt[s] < MaxResume)
    BY <2>3 DEF ResumeBroken, SpendAttempt, Ends, TypeOK
  <2>4. QED
    BY <1>2, <2>1, <2>2, <2>3
<1>3. CASE Forward(s)
  BY <1>3 DEF Forward, TypeOK
<1>4. CASE UpstreamDone(s) \/ UpstreamBreaks(s) \/ TimesOut(s) \/ ClientGone(s)
  <2>1. PICK why, closing : Leave(s, why, closing)
    BY <1>4, LeaveFacts
  <2>2. QED
    BY <2>1 DEF Leave, TypeOK
<1>5. CASE Settle(s)
  <2>1. /\ UNCHANGED <<cause, left>>
        /\ \/ UNCHANGED <<attempt, told>> /\ \E good, closing : Ends(s, good, closing)
           \/ Resume(s)
    BY <1>5 DEF Settle, Settled
  <2>2. CASE Resume(s)
    BY <2>1, <2>2 DEF Resume, AskAgain, Ends, TypeOK
  <2>3. CASE UNCHANGED <<attempt, told>> /\ \E good, closing : Ends(s, good, closing)
    BY <2>1, <2>3 DEF Ends, TypeOK
  <2>4. QED
    BY <2>1, <2>2, <2>3
<1>6. \/ Arrive(s) \/ Refuse(s) \/ DialOk(s) \/ DialNext(s) \/ ResumeBadStatus(s)
      \/ ClientLeaves(s) \/ DialRefused(s) \/ ResumeBroken(s) \/ Forward(s) \/ Settle(s)
      \/ UpstreamDone(s) \/ UpstreamBreaks(s) \/ TimesOut(s) \/ ClientGone(s)
  BY DEF Step, Dial, Read
<1>7. QED
  BY <1>1, <1>2, <1>3, <1>4, <1>5, <1>6

\* So what Safe says of a request stays true while nothing of it changes.
LEMMA RequestKept ==
  ASSUME NEW t \in Streams,
         Begun(t), Ending(t), Joined(t), Spent(t), Told(t),
         pc'[t] = pc[t], wire'[t] = wire[t], attempt'[t] = attempt[t],
         cause'[t] = cause[t], ok'[t] = ok[t], left'[t] = left[t], told'[t] = told[t]
  PROVE  Begun(t)' /\ Ending(t)' /\ Joined(t)' /\ Spent(t)' /\ Told(t)'
<1>1. Begun(t)'
  BY DEF Begun, Served
<1>2. Ending(t)'
  BY DEF Ending
<1>3. Joined(t)'
  BY DEF Joined
<1>4. Spent(t)'
  BY DEF Spent
<1>5. Told(t)'
  BY DEF Told
<1>6. QED
  BY <1>1, <1>2, <1>3, <1>4, <1>5

\* What a step does to its own request, field by field: the control point moves
\* and nothing is sent; a failed dial is counted; a line is forwarded; the loop is
\* left; the reply is closed; the rest is asked for; the client leaves.
Rest(s) == cause'[s] = cause[s] /\ left'[s] = left[s]

Moved(s) ==
  /\ \/ pc[s] = "new" /\ pc'[s] \in {"dial", "refused"}
     \/ pc[s] = "dial" /\ pc'[s] \in {"dial", "read"}
  /\ wire'[s] = wire[s] /\ attempt'[s] = attempt[s] /\ told'[s] = told[s] /\ Rest(s)

Counted(s) ==
  /\ pc[s] = "dial" /\ attempt[s] > 0 /\ attempt'[s] = attempt[s] + 1
  /\ attempt[s] < MaxResume /\ pc'[s] = "dial"
  /\ wire'[s] = wire[s] /\ told'[s] = told[s] /\ Rest(s)

Forwarded(s) ==
  /\ pc[s] = "read" /\ pc'[s] = "read"
  /\ \E k \in {"text", "other", "raw"} : wire'[s] = Append(wire[s], Line(s, k))
  /\ attempt'[s] = attempt[s] /\ told'[s] = told[s] /\ Rest(s)

LeftLoop(s) ==
  /\ pc[s] = "read" /\ pc'[s] = "close"
  /\ \E why \in Causes :
       /\ cause'[s] = [cause[s] EXCEPT ![attempt[s]] = why]
       /\ wire'[s] \in
            IF why = "done"
            THEN {wire[s] \o <<Line(s, "done")>>,
                  wire[s] \o <<Line(s, "error"), Line(s, "done")>>}
            ELSE {wire[s]}
       /\ why = "ttft" => ~GotFirst(s)
       /\ why \in {"gone", "cancelled"} => left[s]
  /\ attempt'[s] = attempt[s] /\ told'[s] = told[s] /\ left'[s] = left[s]

\* The text of the attempt that ends here is part of a reply that goes on.
BrokeOff(s) ==
  LET why == cause[s][attempt[s]] IN
  /\ why \notin {"done", "gone"} /\ ~left[s]
  /\ ~(why \in Quiet /\ TextIn(wire[s]) > 0)

Closed(s) ==
  /\ pc'[s] = "ended" /\ Rest(s)
  /\ \/ /\ pc[s] = "close" /\ cause[s][attempt[s]] = "done" /\ ok'[s] = TRUE
        /\ wire'[s] = wire[s] /\ attempt'[s] = attempt[s]
     \/ /\ pc[s] = "close" /\ cause[s][attempt[s]] # "done" /\ ok'[s] = TRUE
        /\ wire'[s] = wire[s] \o <<Line(s, "done")>> /\ attempt'[s] = attempt[s]
     \/ /\ pc[s] = "close" /\ cause[s][attempt[s]] # "done" /\ ok'[s] = FALSE
        /\ wire'[s] = wire[s] \o <<Line(s, "error")>>
        /\ \/ left[s] /\ attempt'[s] = attempt[s]
           \/ BrokeOff(s) /\ attempt[s] = MaxResume /\ attempt'[s] = attempt[s] + 1
     \/ /\ pc[s] = "dial" /\ ok'[s] = FALSE
        /\ wire'[s] = wire[s] \o <<Line(s, "error")>>
        /\ \/ attempt[s] = 0 /\ attempt'[s] = attempt[s]
           \/ attempt[s] = MaxResume /\ attempt'[s] = attempt[s] + 1

Resumed(s) ==
  /\ pc[s] = "close" /\ pc'[s] = "dial" /\ BrokeOff(s)
  /\ attempt[s] < MaxResume /\ attempt'[s] = attempt[s] + 1
  /\ wire'[s] = wire[s] /\ Rest(s)
  /\ told'[s] = IF TextIn(wire[s]) = 0 THEN told[s] ELSE Append(told[s], TextIn(wire[s]))

Gone(s) ==
  /\ s \in Served /\ pc'[s] = pc[s] /\ left'[s] = TRUE
  /\ wire'[s] = wire[s] /\ attempt'[s] = attempt[s] /\ told'[s] = told[s]
  /\ cause'[s] = cause[s]

LEMMA StepEffect ==
  ASSUME Safe, NEW s \in Streams, Step(s) \/ ClientLeaves(s)
  PROVE  \/ Moved(s) \/ Counted(s) \/ Forwarded(s) \/ LeftLoop(s) \/ Closed(s)
         \/ Resumed(s) \/ Gone(s)
<1>0. TypeOK
  BY DEF Safe
<1>limit. s \in Served => attempt[s] \in Nat /\ attempt[s] <= MaxResume
  BY <1>0, StreamResumeAssumption DEF Safe, Begun, Served, TypeOK
<1>1. CASE Arrive(s) \/ Refuse(s) \/ DialOk(s) \/ DialNext(s) \/ ResumeBadStatus(s)
  <2>1. Moved(s)
    BY <1>0, <1>1 DEF Arrive, Refuse, DialOk, DialNext, ResumeBadStatus, Moved, Rest, TypeOK
  <2>2. QED
    BY <2>1
<1>2. CASE DialRefused(s)
  <2>1. Closed(s)
    BY <1>0, <1>2 DEF DialRefused, Ends, Closed, Rest, TypeOK
  <2>2. QED
    BY <2>1
<1>3. CASE ResumeBroken(s)
  <2>1. /\ pc[s] = "dial" /\ attempt[s] > 0 /\ UNCHANGED <<told, cause, left>>
        /\ attempt' = [attempt EXCEPT ![s] = @ + 1] /\ s \in Served
    BY <1>3 DEF ResumeBroken, SpendAttempt, Served
  <2>2. CASE attempt[s] < MaxResume /\ UNCHANGED <<pc, held, conn, ok, wire>>
    <3>1. Counted(s)
      BY <1>0, <2>1, <2>2 DEF Counted, Rest, TypeOK
    <3>2. QED
      BY <3>1
  <2>3. CASE ~(attempt[s] < MaxResume) /\ Ends(s, FALSE, <<Line(s, "error")>>)
    <3>1. attempt[s] = MaxResume
      BY <1>limit, <2>1, <2>3, StreamResumeAssumption
    <3>2. Closed(s)
      BY <1>0, <2>1, <2>3, <3>1 DEF Ends, Closed, Rest, TypeOK
    <3>3. QED
      BY <3>2
  <2>4. QED
    BY <1>3, <2>2, <2>3 DEF ResumeBroken, SpendAttempt
<1>4. CASE Forward(s)
  <2>1. Forwarded(s)
    BY <1>0, <1>4 DEF Forward, Forwarded, Rest, TypeOK
  <2>2. QED
    BY <2>1
<1>5. CASE UpstreamDone(s) \/ UpstreamBreaks(s) \/ TimesOut(s) \/ ClientGone(s)
  <2>1. PICK why \in Causes,
             closing \in {<< >>, <<Line(s, "done")>>, <<Line(s, "error"), Line(s, "done")>>} :
            /\ Leave(s, why, closing)
            /\ why = "done" <=> closing # << >>
            /\ why = "ttft" => ~GotFirst(s)
            /\ why \in {"gone", "cancelled"} => left[s]
    BY <1>5, LeaveFacts
  <2>2. /\ pc[s] = "read" /\ pc'[s] = "close" /\ wire'[s] = wire[s] \o closing
        /\ cause'[s] = [cause[s] EXCEPT ![attempt[s]] = why]
        /\ attempt'[s] = attempt[s] /\ told'[s] = told[s] /\ left'[s] = left[s]
    BY <1>0, <2>1 DEF Leave, TypeOK
  <2>3. wire[s] \o << >> = wire[s]
    BY <1>0, ConcatEmptySeq DEF TypeOK
  <2>4. wire'[s] \in
            IF why = "done"
            THEN {wire[s] \o <<Line(s, "done")>>,
                  wire[s] \o <<Line(s, "error"), Line(s, "done")>>}
            ELSE {wire[s]}
    BY <2>1, <2>2, <2>3
  <2>5. LeftLoop(s)
    BY <2>1, <2>2, <2>4 DEF LeftLoop
  <2>6. QED
    BY <2>5
<1>6. CASE Settle(s)
  <2>1. /\ pc[s] = "close" /\ s \in Served /\ Settled(s) /\ cause'[s] = cause[s] /\ left'[s] = left[s]
    BY <1>6 DEF Settle, Served
  <2>2. wire[s] \o << >> = wire[s]
    BY <1>0, ConcatEmptySeq DEF TypeOK
  <2>3. ASSUME NEW good, NEW closing, Ends(s, good, closing)
        PROVE  pc'[s] = "ended" /\ ok'[s] = good /\ wire'[s] = wire[s] \o closing
    BY <1>0, <2>3 DEF Ends, TypeOK
  <2>4. CASE Resume(s) /\ BrokeOff(s)
    <3>1. attempt'[s] = attempt[s] + 1
      BY <1>0, <2>4 DEF Resume, TypeOK
    <3>2. CASE attempt[s] < MaxResume
      <4>1. /\ pc'[s] = "dial" /\ wire'[s] = wire[s]
            /\ told'[s] = IF TextIn(wire[s]) = 0 THEN told[s] ELSE Append(told[s], TextIn(wire[s]))
        BY <1>0, <2>4, <3>2 DEF Resume, AskAgain, TypeOK
      <4>2. Resumed(s)
        BY <2>1, <2>4, <3>1, <3>2, <4>1 DEF Resumed, Rest
      <4>3. QED
        BY <4>2
    <3>3. CASE ~(attempt[s] < MaxResume)
      <4>1. Ends(s, FALSE, <<Line(s, "error")>>)
        BY <2>4, <3>3 DEF Resume
      <4>2. attempt[s] = MaxResume
        BY <1>limit, <2>1, <3>3, StreamResumeAssumption
      <4>3. Closed(s)
        BY <2>1, <2>3, <2>4, <3>1, <4>1, <4>2 DEF Closed, Rest, BrokeOff
      <4>4. QED
        BY <4>3
    <3>4. QED
      BY <3>2, <3>3
  <2>5. CASE cause[s][attempt[s]] = "done" /\ Ends(s, TRUE, << >>) /\ UNCHANGED attempt
    BY <2>1, <2>2, <2>3, <2>5 DEF Closed, Rest
  <2>6. CASE /\ cause[s][attempt[s]] # "done" /\ (cause[s][attempt[s]] = "gone" \/ left[s])
             /\ Ends(s, FALSE, <<Line(s, "error")>>) /\ UNCHANGED attempt
    <3>1. left[s]
      BY <2>1, <2>6 DEF Safe, Joined
    <3>2. QED
      BY <2>1, <2>3, <2>6, <3>1 DEF Closed, Rest
  <2>7. CASE /\ cause[s][attempt[s]] \in Quiet
             /\ Ends(s, TRUE, <<Line(s, "done")>>) /\ UNCHANGED attempt
    BY <2>1, <2>3, <2>7 DEF Closed, Rest, Quiet
  <2>8. QED
    BY <2>1, <2>4, <2>5, <2>6, <2>7 DEF Settled, BrokeOff
<1>7. CASE ClientLeaves(s)
  <2>1. Gone(s)
    BY <1>0, <1>7 DEF ClientLeaves, Gone, Served, TypeOK
  <2>2. QED
    BY <2>1
<1>8. \/ Arrive(s) \/ Refuse(s) \/ DialOk(s) \/ DialNext(s) \/ ResumeBadStatus(s)
      \/ ClientLeaves(s) \/ DialRefused(s) \/ ResumeBroken(s) \/ Forward(s) \/ Settle(s)
      \/ UpstreamDone(s) \/ UpstreamBreaks(s) \/ TimesOut(s) \/ ClientGone(s)
  BY DEF Step, Dial, Read
<1>9. QED
  BY <1>1, <1>2, <1>3, <1>4, <1>5, <1>6, <1>7, <1>8

-----------------------------------------------------------------------------
(* Each part of Safe about one request, under a step of that request. *)

\* What the following lemmas use of the types.
LEMMA Typed ==
  ASSUME Safe, NEW s \in Streams
  PROVE  /\ wire[s] \in Seq(WireLines) /\ told[s] \in Seq(Nat)
         /\ attempt[s] \in Nat /\ MaxResume \in Nat
         /\ cause[s] \in [Attempts -> Causes \cup {"none"}]
         /\ s \in Served => attempt[s] <= MaxResume /\ attempt[s] \in Attempts
         /\ Begun(s) /\ Ending(s) /\ Joined(s) /\ Spent(s) /\ Told(s)
<1>1. TypeOK /\ Begun(s) /\ Ending(s) /\ Joined(s) /\ Spent(s) /\ Told(s)
  BY DEF Safe
<1>2. attempt[s] \in Nat /\ MaxResume \in Nat
  BY <1>1, StreamResumeAssumption DEF TypeOK
<1>3. s \in Served => attempt[s] <= MaxResume /\ attempt[s] \in Attempts
  BY <1>1, <1>2 DEF Begun, Attempts
<1>4. QED
  BY <1>1, <1>2, <1>3 DEF TypeOK, WireLines

LEMMA BegunStep ==
  ASSUME Safe, NEW s \in Streams, Step(s) \/ ClientLeaves(s)
  PROVE  Begun(s)'
<1>1. /\ attempt[s] \in Nat /\ MaxResume \in Nat /\ Begun(s)
      /\ s \in Served => attempt[s] <= MaxResume
  BY Typed
<1>2. CASE Moved(s)
  BY <1>1, <1>2 DEF Moved, Rest, Begun, Served
<1>3. CASE Counted(s)
  BY <1>1, <1>3 DEF Counted, Rest, Begun, Served
<1>4. CASE Forwarded(s)
  BY <1>1, <1>4 DEF Forwarded, Rest, Begun, Served
<1>5. CASE LeftLoop(s)
  BY <1>1, <1>5 DEF LeftLoop, Begun, Served
<1>6. CASE Closed(s)
  BY <1>1, <1>6 DEF Closed, Begun, Served
<1>7. CASE Resumed(s)
  BY <1>1, <1>7 DEF Resumed, Begun, Served
<1>8. CASE Gone(s)
  BY <1>1, <1>8 DEF Gone, Begun, Served
<1>9. QED
  BY <1>2, <1>3, <1>4, <1>5, <1>6, <1>7, <1>8, StepEffect

LEMMA EndingStep ==
  ASSUME Safe, NEW s \in Streams, Step(s) \/ ClientLeaves(s)
  PROVE  Ending(s)'
<1>1. /\ wire[s] \in Seq(WireLines) /\ Ending(s) /\ cause[s] \in [Attempts -> Causes \cup {"none"}]
      /\ s \in Served => attempt[s] \in Attempts
  BY Typed
<1>line. ASSUME s \in Served, NEW k \in Kinds
         PROVE  Line(s, k) \in WireLines /\ Line(s, k).kind = k
  BY <1>line, Typed, LineType
<1>2. CASE Moved(s)
  BY <1>1, <1>2 DEF Moved, Rest, Ending
<1>3. CASE Counted(s)
  BY <1>1, <1>3 DEF Counted, Rest, Ending
<1>4. CASE Forwarded(s)
  <2>1. PICK k \in {"text", "other", "raw"} : wire'[s] = Append(wire[s], Line(s, k))
    BY <1>4 DEF Forwarded
  <2>2. s \in Served /\ NoDone(wire[s])
    BY <1>1, <1>4 DEF Forwarded, Served, Ending
  <2>3. Line(s, k) \in WireLines /\ Line(s, k).kind # "done"
    BY <1>line, <2>2 DEF Kinds
  <2>4. NoDone(wire'[s])
    <3> DEFINE v == Append(wire[s], Line(s, k))
    <3>1. /\ v \in Seq(WireLines) /\ Len(v) = Len(wire[s]) + 1 /\ v[Len(v)] = Line(s, k)
          /\ \A i \in 1..Len(wire[s]) : v[i] = wire[s][i]
      BY <1>1, <2>3, AppendProperties
    <3>2. DOMAIN v = 1..Len(v) /\ DOMAIN wire[s] = 1..Len(wire[s]) /\ Len(wire[s]) \in Nat
      BY <1>1, <3>1, LenProperties
    <3>3. QED
      BY <2>1, <2>2, <2>3, <3>1, <3>2 DEF NoDone
  <2>5. QED
    BY <1>4, <2>4 DEF Forwarded, Ending
<1>5. CASE LeftLoop(s)
  <2>1. s \in Served /\ NoDone(wire[s]) /\ pc'[s] = "close" /\ attempt'[s] = attempt[s]
    BY <1>1, <1>5 DEF LeftLoop, Served, Ending
  <2>2. PICK why \in Causes :
          /\ cause'[s] = [cause[s] EXCEPT ![attempt[s]] = why]
          /\ wire'[s] \in
               IF why = "done"
               THEN {wire[s] \o <<Line(s, "done")>>,
                     wire[s] \o <<Line(s, "error"), Line(s, "done")>>}
               ELSE {wire[s]}
    BY <1>5 DEF LeftLoop
  <2>3. cause'[s][attempt'[s]] = why
    BY <1>1, <2>1, <2>2
  <2>4. /\ DoneLast(wire[s] \o <<Line(s, "done")>>)
        /\ DoneLast(wire[s] \o <<Line(s, "error"), Line(s, "done")>>)
    BY <1>1, <1>line, <2>1, Closings DEF Kinds
  <2>5. IF why = "done" THEN DoneLast(wire'[s]) ELSE NoDone(wire'[s])
    BY <2>1, <2>2, <2>4
  <2>6. QED
    BY <2>1, <2>3, <2>5 DEF Ending
<1>6. CASE Closed(s)
  <2>1. s \in Served /\ pc'[s] = "ended"
    BY <1>6 DEF Closed, Served
  <2>2. ASSUME NoDone(wire[s])
        PROVE  /\ DoneLast(wire[s] \o <<Line(s, "done")>>)
               /\ ErrorLast(wire[s] \o <<Line(s, "error")>>)
    BY <1>1, <1>line, <2>1, <2>2, Closings DEF Kinds
  <2>3. IF ok'[s] THEN DoneLast(wire'[s]) ELSE ErrorLast(wire'[s])
    BY <1>1, <1>6, <2>2 DEF Closed, Ending
  <2>4. QED
    BY <2>1, <2>3 DEF Ending
<1>7. CASE Resumed(s)
  BY <1>1, <1>7 DEF Resumed, BrokeOff, Ending
<1>8. CASE Gone(s)
  BY <1>1, <1>8 DEF Gone, Served, Ending
<1>9. QED
  BY <1>2, <1>3, <1>4, <1>5, <1>6, <1>7, <1>8, StepEffect

LEMMA SpentStep ==
  ASSUME Safe, NEW s \in Streams, Step(s) \/ ClientLeaves(s)
  PROVE  Spent(s)'
<1>1. Begun(s) /\ MaxResume \in Nat
  BY Typed
<1>2. CASE Closed(s)
  BY <1>1, <1>2 DEF Closed, Rest, Begun, Spent
<1>3. pc'[s] # "ended" \/ Closed(s)
  BY StepEffect DEF Moved, Counted, Forwarded, LeftLoop, Resumed, Gone, Served
<1>4. QED
  BY <1>2, <1>3 DEF Spent

LEMMA ToldStep ==
  ASSUME Safe, NEW s \in Streams, Step(s) \/ ClientLeaves(s)
  PROVE  Told(s)'
<1>1. Begun(s) /\ Told(s) /\ wire[s] \in Seq(WireLines) /\ told[s] \in Seq(Nat)
  BY Typed
<1>2. TextIn(wire[s]) \in Nat /\ (wire[s] = << >> => TextIn(wire[s]) = 0)
  BY <1>1, CountFacts
<1>same. wire'[s] = wire[s] => TextIn(wire'[s]) = TextIn(wire[s])
  OBVIOUS
<1>3. CASE Moved(s)
  BY <1>1, <1>2, <1>3 DEF Moved, Begun, Told
<1>4. CASE Counted(s) \/ Gone(s)
  BY <1>1, <1>4 DEF Counted, Gone, Told
<1>5. CASE Resumed(s)
  <2>1. CASE TextIn(wire[s]) = 0
    BY <1>5, <2>1 DEF Resumed, Told
  <2>2. CASE TextIn(wire[s]) # 0
    <3> DEFINE v == Append(told[s], TextIn(wire[s]))
    <3>1. v # << >> /\ v[Len(v)] = TextIn(wire[s])
      BY <1>1, <1>2, AppendProperties
    <3>2. QED
      BY <1>5, <2>2, <3>1 DEF Resumed, Told
  <2>3. QED
    BY <2>1, <2>2
<1>6. CASE Forwarded(s) \/ LeftLoop(s) \/ Closed(s)
  BY <1>6 DEF Forwarded, LeftLoop, Closed, Told
<1>7. QED
  BY <1>3, <1>4, <1>5, <1>6, StepEffect

\* When a reply goes on after an attempt, text of that attempt means that the
\* upstream broke off: silence and the end of the stream would have closed it.
LEMMA BrokenText ==
  ASSUME Safe, NEW s \in Streams, pc[s] = "close", BrokeOff(s),
         NEW i \in DOMAIN wire[s], wire[s][i].kind = "text", wire[s][i].of = attempt[s]
  PROVE  cause[s][attempt[s]] \in Fails
<1> DEFINE why == cause[s][attempt[s]]
<1>1. /\ wire[s] \in Seq(WireLines) /\ Joined(s) /\ attempt[s] \in Attempts
      /\ cause[s] \in [Attempts -> Causes \cup {"none"}]
  BY Typed DEF Served
<1>2. TextIn(wire[s]) > 0
  BY <1>1, CountFacts
<1>3. why \notin Quiet /\ why \notin {"done", "gone"} /\ ~left[s]
  BY <1>2 DEF BrokeOff
<1>4. why \notin {"ttft", "none", "cancelled"}
  BY <1>1, <1>3 DEF Joined
<1>5. why \in Causes
  BY <1>1, <1>4
<1>6. QED
  BY <1>3, <1>4, <1>5 DEF Causes

\* The first clause of Joined for one line.
FromAttempts(l, s) ==
  /\ l.of <= attempt[s] /\ (pc[s] = "dial" => l.of < attempt[s])
  /\ l.kind = "text" /\ l.of < attempt[s] => cause[s][l.of] \in Fails
  /\ pc[s] = "close" /\ cause[s][attempt[s]] = "ttft" =>
         ~(l.kind = "text" /\ l.of = attempt[s])

LEMMA JoinedStep ==
  ASSUME Safe, NEW s \in Streams, Step(s) \/ ClientLeaves(s)
  PROVE  Joined(s)'
<1>1. /\ wire[s] \in Seq(WireLines) /\ Joined(s) /\ Begun(s) /\ attempt[s] \in Nat
      /\ cause[s] \in [Attempts -> Causes \cup {"none"}]
      /\ s \in Served => attempt[s] \in Attempts
  BY Typed
<1>line. ASSUME s \in Served, NEW k \in Kinds
         PROVE  Line(s, k) \in WireLines /\ Line(s, k).kind = k /\ Line(s, k).of = attempt[s]
  BY <1>line, Typed, LineType
<1>lines. /\ DOMAIN wire[s] = 1..Len(wire[s]) /\ Len(wire[s]) \in Nat
          /\ \A i \in DOMAIN wire[s] : /\ wire[s][i].of \in Nat /\ wire[s][i].of \in Attempts
                                        /\ FromAttempts(wire[s][i], s)
  <2>1. DOMAIN wire[s] = 1..Len(wire[s]) /\ Len(wire[s]) \in Nat
    BY <1>1, LenProperties
  <2>2. \A i \in DOMAIN wire[s] : wire[s][i] \in WireLines
    BY <1>1, <2>1, ElementOfSeq
  <2>3. \A l \in WireLines : l.of \in Nat /\ l.of \in Attempts
    BY StreamResumeAssumption DEF WireLines, Attempts
  <2>4. \A i \in DOMAIN wire[s] : FromAttempts(wire[s][i], s)
    BY <1>1 DEF Joined, FromAttempts
  <2>5. QED
    BY <2>1, <2>2, <2>3, <2>4
<1>2. CASE Moved(s)
  BY <1>1, <1>lines, <1>2 DEF Moved, Rest, Begun, Joined, FromAttempts
<1>3. CASE Counted(s)
  BY <1>1, <1>lines, <1>3 DEF Counted, Rest, Joined, FromAttempts
<1>4. CASE Forwarded(s)
  <2>1. PICK k \in {"text", "other", "raw"} : wire'[s] = Append(wire[s], Line(s, k))
    BY <1>4 DEF Forwarded
  <2>2. Line(s, k) \in WireLines /\ Line(s, k).of = attempt[s]
    BY <1>4, <1>line DEF Forwarded, Served, Kinds
  <2>3. \A i \in DOMAIN wire'[s] : \/ i \in DOMAIN wire[s] /\ wire'[s][i] = wire[s][i]
                                   \/ wire'[s][i] = Line(s, k)
    <3>1. /\ wire'[s] \in Seq(WireLines) /\ Len(wire'[s]) = Len(wire[s]) + 1
          /\ wire'[s][Len(wire'[s])] = Line(s, k)
          /\ \A i \in 1..Len(wire[s]) : wire'[s][i] = wire[s][i]
      BY <1>1, <2>1, <2>2, AppendProperties
    <3>2. DOMAIN wire'[s] = 1..Len(wire'[s])
      BY <3>1, LenProperties
    <3>3. QED
      BY <1>lines, <3>1, <3>2
  <2>4. QED
    BY <1>1, <1>4, <1>lines, <2>2, <2>3 DEF Forwarded, Rest, Joined, FromAttempts
<1>5. CASE LeftLoop(s)
  <2>1. /\ s \in Served /\ pc'[s] = "close" /\ pc[s] = "read"
        /\ attempt'[s] = attempt[s] /\ left'[s] = left[s]
    BY <1>5 DEF LeftLoop, Served
  <2>2. PICK why \in Causes :
          /\ cause'[s] = [cause[s] EXCEPT ![attempt[s]] = why]
          /\ wire'[s] \in
               IF why = "done"
               THEN {wire[s] \o <<Line(s, "done")>>,
                     wire[s] \o <<Line(s, "error"), Line(s, "done")>>}
               ELSE {wire[s]}
          /\ why = "ttft" => ~GotFirst(s)
          /\ why \in {"gone", "cancelled"} => left[s]
    BY <1>5 DEF LeftLoop
  <2>3. /\ cause'[s][attempt'[s]] = why
        /\ \A n \in Attempts : n # attempt[s] => cause'[s][n] = cause[s][n]
    BY <1>1, <2>1, <2>2
  <2>4. why # "none"
    BY DEF Causes, Fails, Quiet
  <2>5. /\ Line(s, "done") \in WireLines /\ Line(s, "error") \in WireLines
        /\ Line(s, "done").of = attempt[s] /\ Line(s, "error").of = attempt[s]
    BY <1>line, <2>1 DEF Kinds
  <2>6. \A i \in DOMAIN wire'[s] :
           \/ i \in DOMAIN wire[s] /\ wire'[s][i] = wire[s][i]
           \/ wire'[s][i].of = attempt[s] /\ why = "done"
    <3>1. CASE wire'[s] = wire[s]
      BY <3>1
    <3>2. CASE why = "done" /\ wire'[s] = wire[s] \o <<Line(s, "done")>>
      <4>1. <<Line(s, "done")>> \in Seq(WireLines) /\ Len(<<Line(s, "done")>>) = 1
        BY <2>5
      <4>2. /\ DOMAIN wire'[s] = 1..Len(wire[s]) + 1
            /\ \A i \in DOMAIN wire'[s] :
                 wire'[s][i] = IF i <= Len(wire[s]) THEN wire[s][i]
                               ELSE <<Line(s, "done")>>[i - Len(wire[s])]
        BY <1>1, <3>2, <4>1, AddedLines
      <4>3. ASSUME NEW i \in DOMAIN wire'[s]
            PROVE  \/ i \in DOMAIN wire[s] /\ wire'[s][i] = wire[s][i]
                   \/ wire'[s][i].of = attempt[s] /\ why = "done"
        <5>1. CASE i <= Len(wire[s])
          BY <1>lines, <4>2, <5>1
        <5>2. CASE ~(i <= Len(wire[s]))
          <6>1. i - Len(wire[s]) = 1
            BY <1>lines, <4>2, <5>2
          <6>2. wire'[s][i] = Line(s, "done")
            BY <4>2, <5>2, <6>1
          <6>3. QED
            BY <2>5, <3>2, <6>2
        <5>3. QED
          BY <5>1, <5>2
      <4>4. QED
        BY <4>3
    <3>3. CASE why = "done" /\ wire'[s] = wire[s] \o <<Line(s, "error"), Line(s, "done")>>
      <4> DEFINE c == <<Line(s, "error"), Line(s, "done")>>
      <4>1. c \in Seq(WireLines) /\ Len(c) = 2
        BY <2>5
      <4>2. /\ DOMAIN wire'[s] = 1..Len(wire[s]) + 2
            /\ \A i \in DOMAIN wire'[s] :
                 wire'[s][i] = IF i <= Len(wire[s]) THEN wire[s][i]
                               ELSE c[i - Len(wire[s])]
        BY <1>1, <3>3, <4>1, AddedLines
      <4>3. c[1].of = attempt[s] /\ c[2].of = attempt[s]
        BY <2>5
      <4>4. QED
        BY <1>lines, <3>3, <4>2, <4>3
    <3>4. QED
      BY <2>2, <3>1, <3>2, <3>3
  <2>7. \A i \in DOMAIN wire[s] : why = "ttft" =>
           ~(wire[s][i].kind = "text" /\ wire[s][i].of = attempt[s])
    BY <2>2 DEF GotFirst
  <2>8. \A i \in DOMAIN wire'[s] :
           LET l == wire'[s][i] IN
           /\ l.of <= attempt'[s]
           /\ l.kind = "text" /\ l.of < attempt'[s] => cause'[s][l.of] \in Fails
           /\ why = "ttft" => ~(l.kind = "text" /\ l.of = attempt'[s])
    BY <1>1, <1>lines, <2>1, <2>3, <2>6, <2>7 DEF FromAttempts
  <2>9. QED
    BY <2>1, <2>2, <2>3, <2>4, <2>8 DEF Joined
<1>6. CASE Closed(s)
  <2>1. /\ s \in Served /\ pc'[s] = "ended" /\ cause'[s] = cause[s]
    BY <1>6 DEF Closed, Rest, Served
  <2>2. /\ Line(s, "done") \in WireLines /\ Line(s, "error") \in WireLines
        /\ Line(s, "done").of = attempt[s] /\ Line(s, "error").of = attempt[s]
        /\ Line(s, "done").kind # "text" /\ Line(s, "error").kind # "text"
    BY <1>line, <2>1 DEF Kinds
  <2>3. \A i \in DOMAIN wire'[s] :
           \/ i \in DOMAIN wire[s] /\ wire'[s][i] = wire[s][i]
           \/ wire'[s][i].of = attempt[s] /\ wire'[s][i].kind # "text"
    <3>1. ASSUME NEW l \in WireLines, l.of = attempt[s], l.kind # "text",
                 wire'[s] = wire[s] \o <<l>>
          PROVE  \A i \in DOMAIN wire'[s] :
                    \/ i \in DOMAIN wire[s] /\ wire'[s][i] = wire[s][i]
                    \/ wire'[s][i].of = attempt[s] /\ wire'[s][i].kind # "text"
      <4>1. <<l>> \in Seq(WireLines) /\ Len(<<l>>) = 1
        OBVIOUS
      <4>2. /\ DOMAIN wire'[s] = 1..Len(wire[s]) + 1
            /\ \A i \in DOMAIN wire'[s] :
                 wire'[s][i] = IF i <= Len(wire[s]) THEN wire[s][i] ELSE <<l>>[i - Len(wire[s])]
        BY <1>1, <3>1, <4>1, AddedLines
      <4>3. QED
        BY <1>lines, <3>1, <4>2
    <3>2. \/ wire'[s] = wire[s] \/ wire'[s] = wire[s] \o <<Line(s, "done")>>
          \/ wire'[s] = wire[s] \o <<Line(s, "error")>>
      BY <1>6 DEF Closed
    <3>3. QED
      BY <2>2, <3>1, <3>2
  <2>4. \/ attempt'[s] = attempt[s]
        \/ /\ attempt'[s] = attempt[s] + 1
           /\ pc[s] = "dial" \/ (pc[s] = "close" /\ BrokeOff(s))
    BY <1>6 DEF Closed
  <2>5. \A i \in DOMAIN wire[s] :
           wire[s][i].kind = "text" /\ wire[s][i].of < attempt'[s] => cause[s][wire[s][i].of] \in Fails
    <3>1. CASE attempt'[s] = attempt[s]
      BY <1>lines, <3>1 DEF FromAttempts
    <3>2. CASE attempt'[s] = attempt[s] + 1 /\ pc[s] = "dial"
      BY <1>1, <1>lines, <3>2 DEF FromAttempts
    <3>3. CASE attempt'[s] = attempt[s] + 1 /\ pc[s] = "close" /\ BrokeOff(s)
      BY <1>1, <1>lines, <3>3, BrokenText DEF FromAttempts
    <3>4. QED
      BY <2>4, <3>1, <3>2, <3>3
  <2>6. \A i \in DOMAIN wire'[s] : wire'[s][i].of <= attempt'[s]
    BY <1>1, <1>lines, <2>3, <2>4 DEF FromAttempts
  <2>7. QED
    BY <2>1, <2>3, <2>5, <2>6 DEF Joined
<1>7. CASE Resumed(s)
  <2>1. /\ pc[s] = "close" /\ BrokeOff(s) /\ pc'[s] = "dial" /\ wire'[s] = wire[s]
        /\ cause'[s] = cause[s] /\ attempt'[s] = attempt[s] + 1
    BY <1>7 DEF Resumed, Rest
  <2>2. \A i \in DOMAIN wire[s] :
           /\ wire[s][i].of < attempt'[s]
           /\ wire[s][i].kind = "text" => cause[s][wire[s][i].of] \in Fails
    BY <1>1, <1>lines, <2>1, BrokenText DEF FromAttempts
  <2>3. \A i \in DOMAIN wire[s] : wire[s][i].of <= attempt'[s]
    BY <1>1, <1>lines, <2>1 DEF FromAttempts
  <2>4. QED
    BY <2>1, <2>2, <2>3 DEF Joined
<1>8. CASE Gone(s)
  BY <1>1, <1>8 DEF Gone, Joined
<1>9. QED
  BY <1>2, <1>3, <1>4, <1>5, <1>6, <1>7, <1>8, StepEffect

-----------------------------------------------------------------------------
(* The theorems. *)

LEMMA SafeInit == Init => Safe
<1> SUFFICES ASSUME Init PROVE Safe
  OBVIOUS
<1>1. TypeOK
  BY TypeInit
<1>2. SlotsMatchStreams
  <2>1. Served = {}
    BY DEF Init, Served
  <2>2. QED
    BY <2>1, FS_EmptySet DEF Init, SlotsMatchStreams
<1>3. ASSUME NEW s \in Streams
      PROVE  Begun(s) /\ Ending(s) /\ Joined(s) /\ Spent(s) /\ Told(s)
  <2>1. pc[s] = "new" /\ attempt[s] = 0 /\ wire[s] = << >>
    BY DEF Init
  <2>2. cause[s][0] = "none"
    BY StreamResumeAssumption DEF Init, Attempts
  <2>3. QED
    BY <2>1, <2>2 DEF Begun, Ending, Joined, Spent, Told, NoDone, Served
<1>4. QED
  BY <1>1, <1>2, <1>3 DEF Safe

LEMMA SafePreserved == Safe /\ [Next]_vars => Safe'
<1> SUFFICES ASSUME Safe, [Next]_vars PROVE Safe'
  OBVIOUS
<1>1. TypeOK /\ TypeOK' /\ SlotsMatchStreams'
  BY TypePreserved, SlotsPreserved DEF Safe
<1>2. ASSUME NEW t \in Streams
      PROVE  Begun(t)' /\ Ending(t)' /\ Joined(t)' /\ Spent(t)' /\ Told(t)'
  <2>1. Begun(t) /\ Ending(t) /\ Joined(t) /\ Spent(t) /\ Told(t)
    BY Typed
  <2>2. CASE UNCHANGED vars \/ OthersChange
    <3>1. UNCHANGED <<pc, wire, attempt, cause, ok, left, told>>
      BY <2>2 DEF vars, OthersChange
    <3>2. QED
      BY <2>1, <3>1, RequestKept
  <2>3. ASSUME NEW s \in Streams, Step(s) \/ ClientLeaves(s)
        PROVE  Begun(t)' /\ Ending(t)' /\ Joined(t)' /\ Spent(t)' /\ Told(t)'
    <3>1. CASE t = s
      BY <2>3, <3>1, BegunStep, EndingStep, JoinedStep, SpentStep, ToldStep
    <3>2. CASE t # s
      BY <1>1, <2>1, <2>3, <3>2, OthersKept, RequestKept
    <3>3. QED
      BY <3>1, <3>2
  <2>4. QED
    BY <2>2, <2>3 DEF Next
<1>3. QED
  BY <1>1, <1>2 DEF Safe

\* The inductive invariant of a streamed request: what is on the wire, how each
\* attempt ended and what the next one is told fit together (streamWithResume).
THEOREM Safety == Spec => []Safe
<1>1. Init => Safe
  BY SafeInit
<1>2. Safe /\ [Next]_vars => Safe'
  BY SafePreserved
<1>3. QED
  BY <1>1, <1>2, PTL DEF Spec

\* The state of a streamed request keeps its types.
THEOREM TypeCorrect == Spec => []TypeOK
<1>1. Safe => TypeOK
  BY DEF Safe
<1>2. QED
  BY <1>1, Safety, PTL

\* The slots taken are those of the requests being served, whichever return of
\* chatHandler they leave by.
THEOREM SlotsComeBack == Spec => []SlotsMatchStreams
<1>1. Safe => SlotsMatchStreams
  BY DEF Safe
<1>2. QED
  BY <1>1, Safety, PTL

\* A reply has one ending, [DONE] or an error, over any number of upstreams.
THEOREM RepliesEndOnce == Spec => []OneEnding
<1>1. Safe => OneEnding
  <2> SUFFICES ASSUME Safe, NEW s \in Streams
               PROVE  /\ \A i \in DOMAIN wire[s] : wire[s][i].kind = "done" => i = Len(wire[s])
                      /\ pc[s] = "ended" =>
                           /\ wire[s] # << >>
                           /\ wire[s][Len(wire[s])].kind = IF ok[s] THEN "done" ELSE "error"
    BY DEF OneEnding
  <2>1. TypeOK /\ Ending(s)
    BY DEF Safe
  <2>2. pc[s] \in {"new", "dial", "read", "close", "ended", "refused"}
    BY <2>1 DEF TypeOK
  <2>3. QED
    BY <2>1, <2>2 DEF Ending, NoDone, DoneLast, ErrorLast
<1>2. QED
  BY <1>1, Safety, PTL

\* Text of two upstreams is joined only where the earlier one broke off.
THEOREM RepliesAreNotDoubled == Spec => []NoDoubleReply
<1>1. Safe => NoDoubleReply
  <2> SUFFICES ASSUME Safe, NEW s \in Streams, NEW i \in DOMAIN wire[s], NEW j \in DOMAIN wire[s],
                      wire[s][i].kind = "text", wire[s][i].of < wire[s][j].of
               PROVE  cause[s][wire[s][i].of] \in Fails
    BY DEF NoDoubleReply
  <2>1. Joined(s) /\ wire[s] \in Seq(WireLines) /\ attempt[s] \in Nat
    BY Typed
  <2>2. wire[s][i] \in WireLines /\ wire[s][j] \in WireLines
    BY <2>1, LenProperties, ElementOfSeq
  <2>3. wire[s][i].of \in Nat /\ wire[s][j].of \in Nat
    BY <2>2, StreamResumeAssumption DEF WireLines, Attempts
  <2>4. wire[s][j].of <= attempt[s]
    BY <2>1 DEF Joined
  <2>5. wire[s][i].of < attempt[s]
    BY <2>1, <2>3, <2>4
  <2>6. QED
    BY <2>1, <2>5 DEF Joined
<1>2. QED
  BY <1>1, Safety, PTL

\* A reply is given up only when the limit of reconnections is used up.
THEOREM BudgetIsUsed == Spec => []GivesUpOnlyWhenSpent
<1>1. Safe => GivesUpOnlyWhenSpent
  BY DEF Safe, Spent, GivesUpOnlyWhenSpent
<1>2. QED
  BY <1>1, Safety, PTL

\* Each reconnection is told all the text the client has been shown.
THEOREM ResumesAreTold == Spec => ResumeKnowsAll
<1> DEFINE A(s) == pc[s] = "dial" /\ pc'[s] = "read" /\ TextIn(wire[s]) > 0 =>
                     told[s] # << >> /\ told[s][Len(told[s])] = TextIn(wire[s])
<1>1. Safe => \A s \in Streams : A(s)
  BY DEF Safe, Told
<1>2. Safe /\ [Next]_vars => [\A s \in Streams : A(s)]_vars
  BY <1>1
<1>3. QED
  BY <1>2, Safety, PTL DEF Spec, ResumeKnowsAll

-----------------------------------------------------------------------------
(* The chain of models a request walks: AutoModel, for any finite set of   *)
(* models, any weights, windows and lengths, and any number of changes.    *)

\* A set of natural numbers has a least element.
LEMMA Least ==
  ASSUME NEW S \in SUBSET Nat, S # {}
  PROVE  \E n \in S : \A k \in S : n <= k
<1>1. PICK n \in S : \A k \in S : ~(<<k, n>> \in OpToRel(<, Nat))
  BY NatLessThanWellFounded, WFMin
<1>2. \A k \in S : ~(k < n)
  BY <1>1 DEF OpToRel
<1>3. QED
  BY <1>2

\* A strict total order of S.
StrictOrder(S, R) ==
  /\ \A a \in S : <<a, a>> \notin R
  /\ \A a, b, c \in S : <<a, b>> \in R /\ <<b, c>> \in R => <<a, c>> \in R
  /\ \A a, b \in S : a = b \/ <<a, b>> \in R \/ <<b, a>> \in R

\* In a strict total order of a finite set, each position is somebody's.
LEMMA EachPlaceIsTaken ==
  ASSUME NEW S, IsFiniteSet(S), NEW R, StrictOrder(S, R),
         NEW rank, rank = [m \in S |-> Cardinality({k \in S : <<k, m>> \in R})]
  PROVE  /\ \A m \in S : rank[m] \in 0..(Cardinality(S) - 1)
         /\ \A a, b \in S : rank[a] < rank[b] => <<a, b>> \in R
         /\ \A i \in 0..(Cardinality(S) - 1) : \E m \in S : rank[m] = i
<1> DEFINE Below(m) == {k \in S : <<k, m>> \in R}
           n == Cardinality(S)
<1> USE DEF StrictOrder
<1>1. n \in Nat /\ \A m \in S : IsFiniteSet(Below(m)) /\ Cardinality(Below(m)) \in Nat
  BY FS_CardinalityType, FS_Subset
<1>2. ASSUME NEW m \in S PROVE rank[m] \in 0..(n - 1)
  <2>1. IsFiniteSet(S \ {m}) /\ Cardinality(S \ {m}) = n - 1
    BY FS_RemoveElement
  <2>2. Below(m) \in SUBSET (S \ {m})
    OBVIOUS
  <2>3. Cardinality(Below(m)) <= n - 1
    <3> HIDE DEF Below
    <3>1. QED
      BY <2>1, <2>2, FS_Subset
  <2>4. QED
    BY <1>1, <2>3
<1>3. ASSUME NEW a \in S, NEW b \in S, <<a, b>> \in R PROVE rank[a] < rank[b]
  <2>1. IsFiniteSet(Below(a) \cup {a}) /\ Cardinality(Below(a) \cup {a}) = Cardinality(Below(a)) + 1
    <3>1. a \notin Below(a)
      OBVIOUS
    <3>2. QED
      BY <1>1, <3>1, FS_AddElement
  <2>2. Below(a) \cup {a} \in SUBSET Below(b)
    BY <1>3
  <2>3. Cardinality(Below(a) \cup {a}) <= Cardinality(Below(b))
    BY <1>1, <2>2, FS_Subset
  <2>4. QED
    BY <1>1, <2>1, <2>3
<1>4. \A a, b \in S : rank[a] < rank[b] => <<a, b>> \in R
  <2> SUFFICES ASSUME NEW a \in S, NEW b \in S, rank[a] < rank[b] PROVE <<a, b>> \in R
    OBVIOUS
  <2>1. rank[a] \in Int /\ rank[b] \in Int
    BY <1>2
  <2>2. CASE a = b
    BY <2>1, <2>2
  <2>3. CASE <<b, a>> \in R
    BY <1>3, <2>1, <2>3
  <2>4. QED
    BY <2>2, <2>3
<1>5. ASSUME NEW i \in 0..(n - 1) PROVE \E m \in S : rank[m] = i
  <2> DEFINE T == 0..(n - 1)
  <2>1. rank \in Injection(S, T)
    <3>1. rank \in [S -> T]
      BY <1>2
    <3>2. ASSUME NEW a \in S, NEW b \in S, rank[a] = rank[b] PROVE a = b
      <4>1. rank[a] \in Int /\ rank[b] \in Int
        BY <1>2
      <4>2. CASE <<a, b>> \in R
        BY <1>3, <3>2, <4>1, <4>2
      <4>3. CASE <<b, a>> \in R
        BY <1>3, <3>2, <4>1, <4>3
      <4>4. QED
        BY <4>2, <4>3
    <3>3. QED
      BY <3>1, <3>2 DEF Injection, IsInjective
  <2>2. IsFiniteSet(T) /\ Cardinality(T) = n
    BY <1>1, FS_Interval
  <2>3. rank \in Surjection(S, T)
    BY <2>1, <2>2, FS_Injection
  <2>4. QED
    BY <2>3 DEF Surjection
<1>6. QED
  BY <1>2, <1>4, <1>5

\* So the set can be put in that order.
LEMMA OrderExists ==
  ASSUME NEW S, IsFiniteSet(S), NEW R, StrictOrder(S, R)
  PROVE  \E s \in [1..Cardinality(S) -> S] :
            \A i, j \in 1..Cardinality(S) : i < j => <<s[i], s[j]>> \in R
<1> DEFINE n == Cardinality(S)
           rank == [m \in S |-> Cardinality({k \in S : <<k, m>> \in R})]
           s == [i \in 1..n |-> CHOOSE m \in S : rank[m] = i - 1]
<1>1. /\ n \in Nat
      /\ \A a, b \in S : rank[a] < rank[b] => <<a, b>> \in R
      /\ \A i \in 0..(n - 1) : \E m \in S : rank[m] = i
  <2>1. n \in Nat
    BY FS_CardinalityType
  <2>2. rank = [m \in S |-> Cardinality({k \in S : <<k, m>> \in R})]
    OBVIOUS
  <2> HIDE DEF rank
  <2>3. /\ \A a, b \in S : rank[a] < rank[b] => <<a, b>> \in R
        /\ \A i \in 0..(Cardinality(S) - 1) : \E m \in S : rank[m] = i
    BY <2>2, EachPlaceIsTaken
  <2>4. QED
    BY <2>1, <2>3
<1> HIDE DEF rank, n
<1>2. \A i \in 1..n : s[i] \in S /\ rank[s[i]] = i - 1
  <2> SUFFICES ASSUME NEW i \in 1..n PROVE s[i] \in S /\ rank[s[i]] = i - 1
    OBVIOUS
  <2>1. \E m \in S : rank[m] = i - 1
    BY <1>1
  <2>2. QED
    BY <2>1
<1> HIDE DEF s
<1>3. \A i, j \in 1..n : i < j => <<s[i], s[j]>> \in R
  BY <1>1, <1>2
<1>4. s \in [1..n -> S]
  BY <1>2 DEF s
<1>5. QED
  BY <1>3, <1>4 DEF n

-----------------------------------------------------------------------------
(* Limits and orders. *)

\* The limit of a model is a positive number, and at most what was learned of it.
LEMMA LimitFacts ==
  ASSUME AutoTypeOK, NEW m \in Models
  PROVE  /\ effContextLimit(m) \in Nat \ {0}
         /\ m \in DOMAIN learned => effContextLimit(m) <= learned[m]
<1> DEFINE S == {cfg.window[m]} \cup (IF m \in DOMAIN learned THEN {learned[m]} ELSE {})
<1>1. S \in SUBSET (Nat \ {0}) /\ S # {}
  BY DEF AutoTypeOK
<1>2. effContextLimit(m) = CHOOSE x \in S : \A y \in S : x <= y
  BY DEF effContextLimit, Min
<1>3. \E x \in S : \A y \in S : x <= y
  BY <1>1, Least
<1>4. m \in DOMAIN learned => learned[m] \in S
  OBVIOUS
<1> HIDE DEF S
<1>5. QED
  BY <1>1, <1>2, <1>3, <1>4

\* Both orders of the candidates are strict and total, so there is a list in that order.
LEMMA SortedFacts ==
  ASSUME AutoTypeOK, NEW S \in SUBSET Models
  PROVE  /\ ByScore(S) \in [1..Cardinality(S) -> S]
         /\ BySize(S) \in [1..Cardinality(S) -> S]
         /\ Cardinality(S) \in Nat /\ (Cardinality(S) = 0 <=> S = {})
<1>1. IsFiniteSet(S)
  <2>1. IsFiniteSet(Models)
    BY AutoModelAssumption
  <2>2. QED
    BY <2>1, FS_Subset
<1>2. ByScore(S) \in [1..Cardinality(S) -> S]
  <2> DEFINE R == {p \in S \X S : Better(p[1], p[2])}
  <2>1. \A a, b \in S : <<a, b>> \in R <=> Better(a, b)
    OBVIOUS
  <2>2. StrictOrder(S, R)
    <3> HIDE DEF R
    <3>1. \A m \in S : m \in Nat /\ cfg.weight[m] \in Nat
      BY AutoModelAssumption DEF AutoTypeOK
    <3>2. \A a \in S : ~Better(a, a)
      BY <3>1 DEF Better
    <3>3. \A a, b, c \in S : Better(a, b) /\ Better(b, c) => Better(a, c)
      BY <3>1 DEF Better
    <3>4. \A a, b \in S : a = b \/ Better(a, b) \/ Better(b, a)
      BY <3>1 DEF Better
    <3>5. QED
      BY <2>1, <3>2, <3>3, <3>4 DEF StrictOrder
  <2>3. \E s \in [1..Cardinality(S) -> S] :
            \A i, j \in 1..Cardinality(S) : i < j => <<s[i], s[j]>> \in R
    <3> HIDE DEF R
    <3>1. QED
      BY <1>1, <2>2, OrderExists
  <2>4. \E s \in [1..Cardinality(S) -> S] :
            \A i, j \in 1..Cardinality(S) : i < j => Better(s[i], s[j])
    BY <2>1, <2>3
  <2>5. QED
    BY <2>4 DEF ByScore, Sorted
<1>3. BySize(S) \in [1..Cardinality(S) -> S]
  <2> DEFINE R == {p \in S \X S : Larger(p[1], p[2])}
  <2>1. \A a, b \in S : <<a, b>> \in R <=> Larger(a, b)
    OBVIOUS
  <2>2. \A m \in S : effContextLimit(m) \in Nat
    BY LimitFacts
  <2>3. StrictOrder(S, R)
    <3> HIDE DEF R
    <3>1. \A m \in S : m \in Nat /\ cfg.weight[m] \in Nat
      BY AutoModelAssumption DEF AutoTypeOK
    <3>2. \A a \in S : ~Larger(a, a)
      BY <2>2, <3>1 DEF Better, Larger
    <3>3. \A a, b, c \in S : Larger(a, b) /\ Larger(b, c) => Larger(a, c)
      BY <2>2, <3>1 DEF Better, Larger
    <3>4. \A a, b \in S : a = b \/ Larger(a, b) \/ Larger(b, a)
      BY <2>2, <3>1 DEF Better, Larger
    <3>5. QED
      BY <2>1, <3>2, <3>3, <3>4 DEF StrictOrder
  <2>4. \E s \in [1..Cardinality(S) -> S] :
            \A i, j \in 1..Cardinality(S) : i < j => <<s[i], s[j]>> \in R
    <3> HIDE DEF R
    <3>1. QED
      BY <1>1, <2>3, OrderExists
  <2>5. \E s \in [1..Cardinality(S) -> S] :
            \A i, j \in 1..Cardinality(S) : i < j => Larger(s[i], s[j])
    BY <2>1, <2>4
  <2>6. QED
    BY <2>5 DEF BySize, Sorted
<1>4. QED
  BY <1>1, <1>2, <1>3, FS_CardinalityType, FS_EmptySet

-----------------------------------------------------------------------------
(* Credits. *)

\* The sum over a finite set, as the library folds it, is what it says when each of
\* the numbers is an integer.
SumStep(S, f, g) ==
  [T \in SUBSET S |-> IF T = {} THEN 0
                      ELSE f[CHOOSE x \in T : TRUE] + g[T \ {CHOOSE x \in T : TRUE}]]

\* There is such a sum: the sum of sets of one more member is made from that of the others.
LEMMA SumExists ==
  ASSUME NEW S, IsFiniteSet(S), NEW f \in [S -> Int]
  PROVE  \E g : g = SumStep(S, f, g)
<1> DEFINE n == Cardinality(S)
           Upto(k) == {T \in SUBSET S : Cardinality(T) <= k}
           Right(k, g) ==
             /\ g \in [Upto(k) -> Int]
             /\ \A T \in Upto(k) :
                  g[T] = IF T = {} THEN 0
                         ELSE f[CHOOSE x \in T : TRUE] + g[T \ {CHOOSE x \in T : TRUE}]
           Bad == {k \in 0..n : ~ \E g : Right(k, g)}
<1>1. n \in Nat /\ \A T \in SUBSET S : Cardinality(T) \in 0..n
  BY FS_CardinalityType, FS_Subset
<1>2. ASSUME NEW T \in SUBSET S, T # {}
      PROVE  /\ (CHOOSE x \in T : TRUE) \in T
             /\ Cardinality(T \ {CHOOSE x \in T : TRUE}) = Cardinality(T) - 1
  <2>1. (CHOOSE x \in T : TRUE) \in T
    BY <1>2
  <2>2. IsFiniteSet(T)
    BY FS_Subset
  <2>3. QED
    BY <2>1, <2>2, FS_RemoveElement
<1>3. \A T \in Upto(0) : T = {}
  <2>1. \A T \in SUBSET S : IsFiniteSet(T)
    BY FS_Subset
  <2>2. QED
    BY <1>1, <2>1, FS_EmptySet
<1>4. 0 \notin Bad
  <2> DEFINE g == [T \in Upto(0) |-> 0]
  <2>1. Right(0, g)
    BY <1>3
  <2>2. QED
    BY <2>1
<1>5. ASSUME NEW k \in Nat, NEW h, Right(k, h)
      PROVE  \E g : Right(k + 1, g)
  <2> DEFINE g == [T \in Upto(k + 1) |->
                     IF T = {} THEN 0
                     ELSE f[CHOOSE x \in T : TRUE] + h[T \ {CHOOSE x \in T : TRUE}]]
  <2>1. ASSUME NEW T \in Upto(k + 1), T # {}
        PROVE  /\ T \ {CHOOSE x \in T : TRUE} \in Upto(k)
               /\ f[CHOOSE x \in T : TRUE] \in Int
    <3>1. Cardinality(T) <= k + 1 /\ Cardinality(T) \in Nat /\ T \in SUBSET S
      BY <1>1
    <3>2. Cardinality(T \ {CHOOSE x \in T : TRUE}) = Cardinality(T) - 1
          /\ (CHOOSE x \in T : TRUE) \in T
      BY <1>2, <2>1, <3>1
    <3>3. QED
      BY <3>1, <3>2
  <2>2. \A T \in Upto(k) : T \in Upto(k + 1) /\ g[T] = h[T]
    <3>1. \A T \in Upto(k) : T \in Upto(k + 1)
      BY <1>1
    <3>2. QED
      BY <1>5, <3>1
  <2>3. g \in [Upto(k + 1) -> Int]
    BY <1>5, <2>1
  <2>4. ASSUME NEW T \in Upto(k + 1)
        PROVE  g[T] = IF T = {} THEN 0
                      ELSE f[CHOOSE x \in T : TRUE] + g[T \ {CHOOSE x \in T : TRUE}]
    <3>1. CASE T = {}
      BY <3>1
    <3>2. CASE T # {}
      <4>1. g[T \ {CHOOSE x \in T : TRUE}] = h[T \ {CHOOSE x \in T : TRUE}]
        BY <2>1, <2>2, <3>2
      <4>2. g[T] = f[CHOOSE x \in T : TRUE] + h[T \ {CHOOSE x \in T : TRUE}]
        BY <3>2
      <4>3. QED
        BY <3>2, <4>1, <4>2
    <3>3. QED
      BY <3>1, <3>2
  <2> HIDE DEF g
  <2>5. Right(k + 1, g)
    BY <2>3, <2>4
  <2>6. QED
    BY <2>5
<1>6. Bad = {}
  <2> SUFFICES ASSUME Bad # {} PROVE FALSE
    OBVIOUS
  <2>1. /\ Bad \in SUBSET Nat /\ Bad \subseteq 0..n
        /\ \A k \in 0..n : k \in Bad \/ \E g : Right(k, g)
        /\ \A k \in Bad : ~ \E g : Right(k, g)
    <3> HIDE DEF Right, n
    <3>1. /\ Bad \subseteq 0..n
          /\ \A k \in 0..n : k \in Bad \/ \E g : Right(k, g)
          /\ \A k \in Bad : ~ \E g : Right(k, g)
      BY Zenon
    <3> HIDE DEF Bad
    <3>2. QED
      BY <1>1, <3>1
  <2> HIDE DEF Bad, Right, n
  <2>2. PICK k \in Bad : \A j \in Bad : k <= j
    BY <2>1, Least
  <2>3. k - 1 \in 0..n /\ k - 1 \notin Bad /\ k - 1 \in Nat /\ (k - 1) + 1 = k
    BY <1>1, <1>4, <2>1, <2>2
  <2>4. PICK h : Right(k - 1, h)
    BY <2>1, <2>3
  <2>5. \E g : Right((k - 1) + 1, g)
    BY <1>5, <2>3, <2>4
  <2>6. QED
    BY <2>1, <2>2, <2>3, <2>5
<1>7. PICK g : Right(n, g)
  BY <1>1, <1>6
<1>8. Upto(n) = SUBSET S
  BY <1>1
<1>9. g = SumStep(S, f, g)
  BY <1>7, <1>8 DEF SumStep
<1>10. QED
  BY <1>9

\* And it is an integer: a smallest set for which it were not could lose a member.
LEMMA SumIsInt ==
  ASSUME NEW S, IsFiniteSet(S), NEW f \in [S -> Int], NEW g, g = SumStep(S, f, g)
  PROVE  g[S] \in Int
<1> DEFINE Bad == {k \in Nat : \E T \in SUBSET S : Cardinality(T) = k /\ g[T] \notin Int}
<1>1. \A T \in SUBSET S : IsFiniteSet(T) /\ Cardinality(T) \in Nat
  BY FS_CardinalityType, FS_Subset
<1>2. Bad = {}
  <2> SUFFICES ASSUME Bad # {} PROVE FALSE
    OBVIOUS
  <2>1. PICK k \in Bad : \A j \in Bad : k <= j
    BY Least
  <2>2. PICK T \in SUBSET S : Cardinality(T) = k /\ g[T] \notin Int
    BY <2>1
  <2> DEFINE x == CHOOSE y \in T : TRUE
  <2>3. T # {} /\ g[T] = f[x] + g[T \ {x}]
    BY <2>2 DEF SumStep
  <2>4. x \in T
    BY <2>3
  <2>5. Cardinality(T \ {x}) = k - 1 /\ T \ {x} \in SUBSET S
    BY <1>1, <2>2, <2>4, FS_RemoveElement
  <2>6. g[T \ {x}] \in Int
    BY <1>1, <2>1, <2>5
  <2> HIDE DEF x
  <2>7. f[x] \in Int
    BY <2>4
  <2>8. QED
    BY <2>2, <2>3, <2>6, <2>7
<1>3. QED
  BY <1>1, <1>2

\* A share is positive.
LEMMA ShareType ==
  ASSUME AutoTypeOK, NEW m \in Models
  PROVE  Share(m) \in Nat \ {0}
BY DEF AutoTypeOK, Share

\* A list of models has finitely many.
LEMMA ListOf ==
  ASSUME NEW s \in Seq(Models)
  PROVE  ToSet(s) \in SUBSET Models /\ IsFiniteSet(ToSet(s))
<1>1. IsFiniteSet(Models)
  BY AutoModelAssumption
<1>2. ToSet(s) \in SUBSET Models
  BY DEF ToSet
<1>3. QED
  BY <1>1, <1>2, FS_Subset

\* So what the picked model pays is an integer.
LEMMA TotalIsInt ==
  ASSUME AutoTypeOK, NEW s \in Seq(Models)
  PROVE  Total(s) \in Int
<1> DEFINE S == ToSet(s)
           f == [m \in S |-> Share(m)]
           Fold(g) == [T \in SUBSET S |-> IF T = {} THEN 0
                         ELSE Share(CHOOSE x \in T : TRUE) + g[T \ {CHOOSE x \in T : TRUE}]]
           G == CHOOSE g : g = Fold(g)
<1>1. S \in SUBSET Models /\ IsFiniteSet(S)
  BY ListOf
<1>2. Total(s) = G[S]
  BY DEF Total, MapThenSumSet, MapThenFoldSet
<1> HIDE DEF S
<1>3. f \in [S -> Int]
  BY <1>1, ShareType
<1>4. ASSUME NEW g PROVE Fold(g) = SumStep(S, f, g)
  <2>1. \A T \in SUBSET S : T # {} => (CHOOSE x \in T : TRUE) \in S
    OBVIOUS
  <2>2. \A T \in SUBSET S : T # {} =>
            f[CHOOSE x \in T : TRUE] = Share(CHOOSE x \in T : TRUE)
    BY <2>1
  <2> HIDE DEF f
  <2>3. QED
    BY <2>2 DEF SumStep
<1> HIDE DEF f, Fold
<1>5. PICK h : h = SumStep(S, f, h)
  BY <1>1, <1>3, SumExists
<1>6. h = Fold(h)
  BY <1>4, <1>5
<1>7. G = Fold(G)
  BY <1>6
<1> HIDE DEF G
<1>8. G = SumStep(S, f, G)
  BY <1>4, <1>7
<1>9. QED
  BY <1>1, <1>2, <1>3, <1>8, SumIsInt

\* Everyone's credit stays an integer.
LEMMA GainedType ==
  ASSUME AutoTypeOK, NEW s \in Seq(Models)
  PROVE  Gained(s) \in [DOMAIN cur \cup ToSet(s) -> Int]
<1>1. ToSet(s) \subseteq Models
  BY DEF ToSet
<1>2. \A m \in ToSet(s) : Share(m) \in Int
  BY <1>1, ShareType
<1>3. \A m \in DOMAIN cur : cur[m] \in Int
  BY DEF AutoTypeOK
<1>4. QED
  BY <1>2, <1>3 DEF Gained

\* Somebody is the richest, and the first of equals.
LEMMA PickedType ==
  ASSUME AutoTypeOK, NEW s \in Seq(Models), s # << >>
  PROVE  Picked(s) \in DOMAIN s
<1> DEFINE D == DOMAIN s
           has == [i \in D |-> Gained(s)[s[i]]]
           R == {p \in D \X D : p[1] # p[2] /\ Richer(has, p[1], p[2])}
           rank == [m \in D |-> Cardinality({k \in D : <<k, m>> \in R})]
<1>1. D = 1..Len(s) /\ Len(s) \in Nat \ {0}
  BY LenProperties, EmptySeq
<1>2. IsFiniteSet(D) /\ Cardinality(D) = Len(s)
  BY <1>1, FS_Interval
<1>3. \A i \in D : has[i] \in Int /\ i \in Int
  <2>1. \A i \in D : s[i] \in ToSet(s)
    BY DEF ToSet
  <2>2. \A i \in D : Gained(s)[s[i]] \in Int
    BY <2>1, GainedType
  <2>3. \A i \in D : i \in Int
    BY <1>1
  <2>4. QED
    BY <2>2, <2>3
<1> HIDE DEF has, D
<1>4. \A i, j \in D : <<i, j>> \in R <=> i # j /\ (has[i] > has[j] \/ (has[i] = has[j] /\ i <= j))
  BY DEF Richer
<1> HIDE DEF R
<1>5. StrictOrder(D, R)
  <2>1. \A i \in D : <<i, i>> \notin R
    BY <1>4
  <2>2. ASSUME NEW i \in D, NEW j \in D, NEW k \in D, <<i, j>> \in R, <<j, k>> \in R
        PROVE  <<i, k>> \in R
    <3>1. /\ i # j /\ (has[i] > has[j] \/ (has[i] = has[j] /\ i <= j))
          /\ j # k /\ (has[j] > has[k] \/ (has[j] = has[k] /\ j <= k))
      BY <1>4, <2>2
    <3>2. /\ has[i] \in Int /\ has[j] \in Int /\ has[k] \in Int
          /\ i \in Int /\ j \in Int /\ k \in Int
      BY <1>3
    <3>3. i # k /\ (has[i] > has[k] \/ (has[i] = has[k] /\ i <= k))
      BY <3>1, <3>2
    <3>4. QED
      BY <1>4, <3>3
  <2>3. ASSUME NEW i \in D, NEW j \in D, i # j PROVE <<i, j>> \in R \/ <<j, i>> \in R
    <3>1. has[i] \in Int /\ has[j] \in Int /\ i \in Int /\ j \in Int
      BY <1>3
    <3>2. \/ has[i] > has[j] \/ (has[i] = has[j] /\ i <= j)
          \/ has[j] > has[i] \/ (has[j] = has[i] /\ j <= i)
      BY <3>1
    <3>3. QED
      BY <1>4, <2>3, <3>2
  <2>4. QED
    BY <2>1, <2>2, <2>3 DEF StrictOrder
<1>6. PICK i \in D : rank[i] = 0
  <2>1. 0 \in 0..(Cardinality(D) - 1)
    BY <1>1, <1>2
  <2>2. rank = [m \in D |-> Cardinality({k \in D : <<k, m>> \in R})]
    OBVIOUS
  <2> HIDE DEF rank
  <2>3. \A j \in 0..(Cardinality(D) - 1) : \E m \in D : rank[m] = j
    BY <1>2, <1>5, <2>2, EachPlaceIsTaken
  <2>4. QED
    BY <2>1, <2>3
<1>7. {k \in D : <<k, i>> \in R} = {}
  <2>1. IsFiniteSet({k \in D : <<k, i>> \in R})
    BY <1>2, FS_Subset
  <2>2. QED
    BY <1>6, <2>1, FS_EmptySet
<1>8. ASSUME NEW j \in D PROVE Richer(has, i, j)
  <2>1. CASE i = j
    BY <1>3, <2>1 DEF Richer
  <2>2. CASE i # j
    <3>1. <<i, j>> \in R
      BY <1>5, <1>7, <2>2 DEF StrictOrder
    <3>2. QED
      BY <1>4, <3>1 DEF Richer
  <2>3. QED
    BY <2>1, <2>2
<1>9. QED
  <2>1. Picked(s) = CHOOSE k \in D : \A j \in D : Richer(has, k, j)
    BY DEF Picked, D, has
  <2>2. QED
    BY <1>6, <1>8, <2>1 DEF D

-----------------------------------------------------------------------------
(* Chains. *)

\* A list that is not empty begins what it is put before.
LEMMA FrontOfTwo ==
  ASSUME NEW S, NEW s \in Seq(S), NEW t \in Seq(S), s # << >>
  PROVE  /\ (s \o t) \in Seq(S) /\ Len(s \o t) = Len(s) + Len(t)
         /\ (s \o t)[1] = s[1]
<1>1. Len(s) \in Nat \ {0} /\ Len(t) \in Nat
  BY LenProperties, EmptySeq
<1>2. (s \o t) \in Seq(S) /\ Len(s \o t) = Len(s) + Len(t)
  BY ConcatProperties
<1>3. 1 \in 1..Len(s) + Len(t) /\ 1 <= Len(s)
  BY <1>1
<1>4. (s \o t)[1] = IF 1 <= Len(s) THEN s[1] ELSE t[1 - Len(s)]
  BY <1>3, ConcatProperties
<1>5. QED
  BY <1>2, <1>3, <1>4

\* And so with two lists behind it.
LEMMA FrontOfThree ==
  ASSUME NEW S, NEW s \in Seq(S), NEW t \in Seq(S), NEW u \in Seq(S), s # << >>
  PROVE  /\ ((s \o t) \o u) \in Seq(S)
         /\ Len((s \o t) \o u) = Len(s) + Len(t) + Len(u)
         /\ ((s \o t) \o u)[1] = s[1]
<1>1. (s \o t) \in Seq(S) /\ Len(s \o t) = Len(s) + Len(t) /\ (s \o t)[1] = s[1]
  BY FrontOfTwo
<1>2. Len(s) \in Nat \ {0} /\ Len(t) \in Nat
  BY LenProperties, EmptySeq
<1>3. s \o t # << >>
  BY <1>1, <1>2, EmptySeq
<1>4. ASSUME NEW v \in Seq(S), v # << >>
      PROVE  (v \o u) \in Seq(S) /\ Len(v \o u) = Len(v) + Len(u) /\ (v \o u)[1] = v[1]
  BY <1>4, FrontOfTwo
<1>5. ((s \o t) \o u) \in Seq(S) /\ Len((s \o t) \o u) = Len(s \o t) + Len(u)
      /\ ((s \o t) \o u)[1] = (s \o t)[1]
  BY <1>1, <1>3, <1>4, Zenon
<1>6. QED
  BY <1>1, <1>5, Zenon

\* What is brought to the front of a list leaves a list of the same members.
LEMMA FrontType ==
  ASSUME NEW S, NEW s \in Seq(S), NEW i \in DOMAIN s
  PROVE  /\ ToFront(s, i) \in Seq(S)
         /\ Len(ToFront(s, i)) = Len(s)
         /\ ToFront(s, i)[1] = s[i]
<1>1. i \in 1..Len(s) /\ Len(s) \in Nat /\ s[i] \in S
  BY LenProperties
<1>2. PICK a : a = <<s[i]>>
  OBVIOUS
<1>3. PICK b : b = SubSeq(s, 1, i - 1)
  OBVIOUS
<1>4. PICK c : c = SubSeq(s, i + 1, Len(s))
  OBVIOUS
<1>5. ToFront(s, i) = (a \o b) \o c
  BY <1>2, <1>3, <1>4, Zenon DEF ToFront
<1>6. a \in Seq(S) /\ Len(a) = 1 /\ a[1] = s[i] /\ a # << >>
  BY <1>1, <1>2
<1>7. b \in Seq(S) /\ Len(b) = i - 1
  BY <1>1, <1>3, SubSeqProperties
<1>8. c \in Seq(S) /\ Len(c) = Len(s) - i
  BY <1>1, <1>4, SubSeqProperties
<1>9. /\ ((a \o b) \o c) \in Seq(S)
      /\ Len((a \o b) \o c) = Len(a) + Len(b) + Len(c)
      /\ ((a \o b) \o c)[1] = a[1]
  BY <1>6, <1>7, <1>8, FrontOfThree, Zenon
<1>10. Len(a) + Len(b) + Len(c) = Len(s)
  <2>1. i \in Int /\ Len(s) \in Int
    BY <1>1
  <2>2. ASSUME NEW k \in Int, NEW n \in Int PROVE 1 + (k - 1) + (n - k) = n
    OBVIOUS
  <2>3. 1 + (i - 1) + (Len(s) - i) = Len(s)
    BY <2>1, <2>2, Zenon
  <2>4. QED
    BY <1>6, <1>7, <1>8, <2>3, Zenon
<1>11. QED
  BY <1>5, <1>6, <1>9, <1>10, Zenon

\* A chain has the length and the members of the list it is made of.
LEMMA ChainType ==
  ASSUME AutoTypeOK,
         NEW S \in SUBSET Models, NEW s \in Seq(S), s # << >>
  PROVE  /\ buildAutoChain(s) \in Seq(S)
         /\ Len(buildAutoChain(s)) = Len(s) /\ Len(s) \in Nat \ {0}
<1>1. DOMAIN s = 1..Len(s) /\ Len(s) \in Nat \ {0} /\ s \in Seq(Models)
  BY LenProperties, EmptySeq
<1>2. cfg.strategy \in {"balanced", "speed", "quality"}
  BY AutoModelAssumption DEF AutoTypeOK
<1>3. CASE cfg.strategy = "quality"
  BY <1>1, <1>3 DEF buildAutoChain
<1>4. CASE cfg.strategy = "balanced"
  <2>1. Picked(s) \in DOMAIN s
    BY <1>1, PickedType
  <2>2. buildAutoChain(s) = ToFront(s, Picked(s))
    BY <1>4 DEF buildAutoChain
  <2>3. QED
    BY <1>1, <2>1, <2>2, FrontType
<1>5. CASE cfg.strategy = "speed"
  <2> DEFINE heavy == {i \in DOMAIN s : cfg.weight[s[i]] >= 5}
             first == IF heavy = {} THEN 1 ELSE CHOOSE i \in heavy : \A j \in heavy : i <= j
  <2>1. first \in DOMAIN s
    <3>1. CASE heavy = {}
      BY <1>1, <3>1
    <3>2. CASE heavy # {}
      <4>1. heavy \in SUBSET Nat
        BY <1>1
      <4>2. heavy \subseteq DOMAIN s
        OBVIOUS
      <4> HIDE DEF heavy
      <4>3. \E i \in heavy : \A j \in heavy : i <= j
        BY <3>2, <4>1, Least
      <4>4. QED
        BY <3>2, <4>2, <4>3
    <3>3. QED
      BY <3>1, <3>2
  <2>2. buildAutoChain(s) = ToFront(s, first)
    BY <1>5 DEF buildAutoChain, autoChainSpeed, Min
  <2> HIDE DEF first
  <2>3. QED
    BY <1>1, <2>1, <2>2, FrontType
<1>6. QED
  BY <1>2, <1>3, <1>4, <1>5

\* The credits stay integers, and are those of models.
LEMMA CreditType ==
  ASSUME AutoTypeOK, NEW s \in Seq(Models), s # << >>
  PROVE  /\ DOMAIN autoSWRRPick(s) \subseteq Models
         /\ autoSWRRPick(s) \in [DOMAIN autoSWRRPick(s) -> Int]
<1> DEFINE m == s[Picked(s)]
           D == DOMAIN cur \cup ToSet(s)
           after == [Gained(s) EXCEPT ![m] = @ - Paid(Total(s), m)]
<1>1. Gained(s) \in [D -> Int]
  BY GainedType
<1>2. Paid(Total(s), m) \in Int
  BY TotalIsInt DEF Paid
<1>3. ToSet(s) \subseteq Models /\ D \subseteq Models
  BY ListOf DEF AutoTypeOK
<1>4. after \in [D -> Int]
  <2> HIDE DEF D
  <2>1. ASSUME NEW f \in [D -> Int], NEW k \in D, NEW v \in Int
        PROVE  [f EXCEPT ![k] = @ - v] \in [D -> Int]
    OBVIOUS
  <2>2. m \in D
    BY PickedType DEF D, ToSet
  <2> HIDE DEF m
  <2>3. QED
    BY <1>1, <1>2, <2>1, <2>2, Zenon
<1>5. \/ autoSWRRPick(s) = after
      \/ autoSWRRPick(s) = [k \in ToSet(s) |-> after[k]]
  BY DEF autoSWRRPick
<1> HIDE DEF after
<1>6. [k \in ToSet(s) |-> after[k]] \in [ToSet(s) -> Int]
  BY <1>4
<1>7. CASE autoSWRRPick(s) = after
  BY <1>3, <1>4, <1>7
<1>8. CASE autoSWRRPick(s) = [k \in ToSet(s) |-> after[k]]
  BY <1>3, <1>6, <1>8
<1>9. QED
  BY <1>5, <1>7, <1>8

\* A set in order is a list of its members, empty when it is.
LEMMA ListOfOrder ==
  ASSUME NEW S, NEW n \in Nat, NEW s \in [1..n -> S]
  PROVE  s \in Seq(S) /\ (s = << >> <=> n = 0)
<1>1. s \in Seq(S)
  BY SeqDef
<1>2. Len(s) = n
  BY <1>1, LenProperties
<1>3. QED
  BY <1>1, <1>2, EmptySeq

\* What a request's chain is made of: candidates that hold it, or else all of them.
LEMMA CandidateLists ==
  ASSUME AutoTypeOK, autoCandidateModels # {}, NEW est \in Sizes
  PROVE  /\ Eligible(est)
              \in Seq({m \in autoCandidateModels : Holds(m, est)})
         /\ Fallback \in Seq(autoCandidateModels) /\ Fallback # << >>
         /\ autoCandidateModels \in SUBSET Models
<1> DEFINE C == autoCandidateModels
           H == {m \in C : Holds(m, est)}
<1>1. C \in SUBSET Models
  BY DEF AutoTypeOK, autoCandidateModels
<1>2. H \in SUBSET Models
  BY <1>1
<1>3. Eligible(est) = ByScore(H) /\ Fallback = BySize(C)
  BY DEF Eligible, Fallback
<1> HIDE DEF H, C
<1>4. ByScore(H) \in Seq(H)
  BY <1>2, SortedFacts, ListOfOrder
<1>5. BySize(C) \in Seq(C) /\ BySize(C) # << >>
  <2>1. C # {}
    BY DEF C
  <2>2. BySize(C) \in [1..Cardinality(C) -> C] /\ Cardinality(C) \in Nat /\ Cardinality(C) # 0
    BY <1>1, <2>1, SortedFacts
  <2>3. QED
    BY <2>2, ListOfOrder
<1>6. QED
  BY <1>1, <1>3, <1>4, <1>5 DEF C, H

-----------------------------------------------------------------------------
(* Steps. *)

\* At the start nothing is remembered and nothing is asked for.
LEMMA ChoiceStarts ==
  ASSUME AutoInit
  PROVE  AutoSafe
<1>1. << >> \in [DOMAIN << >> -> Int] /\ DOMAIN << >> = {} /\ << >> \in [DOMAIN << >> -> Nat \ {0}]
  OBVIOUS
<1>2. AutoTypeOK
  <2>1. cfg \in [strategy : Strategies, weight : [Models -> Nat], window : [Models -> Nat \ {0}]]
    BY AutoModelAssumption DEF AutoInit
  <2>2. visible \subseteq Models /\ refused \in [Models -> Nat]
    BY DEF AutoInit, Zero
  <2>3. request = NoRequest /\ ~request.on
    BY DEF AutoInit, NoRequest
  <2>4. QED
    BY <1>1, <2>1, <2>2, <2>3 DEF AutoInit, AutoTypeOK
<1>3. Remembered
  BY DEF AutoInit, Zero, Remembered
<1>4. OutgrownIsAvoided
  BY DEF AutoInit, Zero, OutgrownIsAvoided, ToSet, NoRequest
<1>5. QED
  BY <1>2, <1>3, <1>4 DEF AutoSafe

\* A request that starts asks for a chain of at least one model.
LEMMA PrepareType ==
  ASSUME AutoTypeOK, prepareAuto
  PROVE  AutoTypeOK'
<1>1. PICK est \in Sizes :
         LET elig == Eligible(est)
             s == IF elig = << >> THEN Fallback ELSE elig
             chain == buildAutoChain(s)
         IN /\ request' = [on |-> TRUE, est |-> est, fallback |-> elig = << >>,
                           chain |-> chain, switched |-> 0]
            /\ IF cfg.strategy = "balanced"
               THEN cur' = autoSWRRPick(s)
               ELSE UNCHANGED cur
  BY DEF prepareAuto
<1> DEFINE elig == Eligible(est)
           s == IF elig = << >> THEN Fallback ELSE elig
<1>2. /\ s \in Seq(Models) /\ s # << >>
  <2>1. autoCandidateModels # {}
    BY DEF prepareAuto
  <2>2. Fallback \in Seq(Models) /\ Fallback # << >>
    <3>1. /\ Fallback \in Seq(autoCandidateModels) /\ Fallback # << >>
          /\ autoCandidateModels \subseteq Models
      BY <2>1, CandidateLists
    <3>2. QED
      BY <3>1, SeqMonotonic, Zenon
  <2>3. elig \in Seq({m \in autoCandidateModels : Holds(m, est)})
    BY <2>1, CandidateLists
  <2>4. elig \in Seq(Models)
    <3>1. {m \in autoCandidateModels : Holds(m, est)} \subseteq Models
      BY <2>1, CandidateLists
    <3> HIDE DEF elig
    <3>2. QED
      BY <2>3, <3>1, SeqMonotonic
  <2>5. QED
    BY <2>2, <2>4
<1>3. /\ request' = [on |-> TRUE, est |-> est, fallback |-> elig = << >>,
                     chain |-> buildAutoChain(s), switched |-> 0]
      /\ cur' = autoSWRRPick(s) \/ cur' = cur
  BY <1>1
<1> HIDE DEF s
<1>4. /\ buildAutoChain(s) \in Seq(Models)
      /\ Len(buildAutoChain(s)) \in Nat \ {0}
  BY <1>2, ChainType
<1>5. /\ request' \in Requests /\ request'.switched = 0
      /\ request'.chain = buildAutoChain(s)
  BY <1>3, <1>4, AutoModelAssumption DEF Requests
<1>6. DOMAIN cur' \subseteq Models /\ cur' \in [DOMAIN cur' -> Int]
  <2>1. DOMAIN cur \subseteq Models /\ cur \in [DOMAIN cur -> Int]
    BY DEF AutoTypeOK
  <2>2. QED
    BY <1>2, <1>3, <2>1, CreditType, Zenon
<1>7. request'.switched < Len(request'.chain)
  BY <1>4, <1>5
<1>8. /\ cfg' = cfg /\ visible' = visible /\ learned' = learned /\ refused' = refused
  BY DEF prepareAuto
<1>9. QED
  BY <1>5, <1>6, <1>7, <1>8 DEF AutoTypeOK, Requests

\* And no model of it refused as long a conversation, unless it is a fallback.
LEMMA PrepareAvoids ==
  ASSUME AutoTypeOK, Remembered, prepareAuto
  PROVE  OutgrownIsAvoided'
<1>1. PICK est \in Sizes :
         LET elig == Eligible(est)
             s == IF elig = << >> THEN Fallback ELSE elig
             chain == buildAutoChain(s)
         IN request' = [on |-> TRUE, est |-> est, fallback |-> elig = << >>,
                        chain |-> chain, switched |-> 0]
  BY DEF prepareAuto
<1> DEFINE elig == Eligible(est)
           H == {m \in autoCandidateModels : Holds(m, est)}
<1>2. refused' = refused
  BY DEF prepareAuto
<1>3. CASE elig = << >>
  <2>1. request'.fallback
    BY <1>1, <1>3
  <2>2. QED
    BY <2>1 DEF OutgrownIsAvoided
<1>4. CASE elig # << >>
  <2>1. /\ request'.est = est
        /\ request'.chain = buildAutoChain(elig)
    BY <1>1, <1>4
  <2>2. elig \in Seq(H) /\ H \in SUBSET Models
    BY CandidateLists DEF prepareAuto
  <2> HIDE DEF elig
  <2>3. request'.chain \in Seq(H)
    <3> HIDE DEF H
    <3>1. QED
      BY <1>4, <2>1, <2>2, ChainType
  <2>4. \A m \in ToSet(request'.chain) : m \in H
    <3> HIDE DEF H
    <3>1. QED
      BY <2>3 DEF ToSet
  <2>5. ASSUME NEW m \in H, ShownAs[m] = m, refused[m] > 0, refused[m] <= est
        PROVE  FALSE
    <3>1. m \in Models /\ 10 * est <= 9 * effContextLimit(m)
      BY <2>2 DEF Holds
    <3>2. m \in DOMAIN learned /\ learned[m] <= refused[m]
      BY <2>5, <3>1 DEF Remembered
    <3>3. effContextLimit(m) \in Nat /\ effContextLimit(m) <= learned[m]
      BY <3>1, <3>2, LimitFacts
    <3>4. learned[m] \in Int /\ refused[m] \in Int /\ est \in Nat \ {0}
      BY <3>1, <3>2, AutoModelAssumption DEF AutoTypeOK
    <3>5. QED
      BY <2>5, <3>1, <3>2, <3>3, <3>4
  <2>6. QED
    BY <1>2, <2>1, <2>4, <2>5 DEF OutgrownIsAvoided
<1>5. QED
  BY <1>3, <1>4

\* The types, action by action.
LEMMA ChoiceStepType ==
  ASSUME AutoTypeOK, [AutoNext]_autoVars
  PROVE  AutoTypeOK'
<1>1. CASE prepareAuto
  BY <1>1, PrepareType
<1>2. CASE AttemptSucceeds
  BY <1>2 DEF AttemptSucceeds, AutoTypeOK, NoRequest
<1>3. CASE AttemptFails
  <2>1. /\ request \in Requests /\ request.on
        /\ request.switched < MaxSwitches /\ 1 + request.switched < Len(request.chain)
        /\ request' = [request EXCEPT !.switched = request.switched + 1]
    BY <1>3 DEF AttemptFails, AutoTypeOK, NoRequest, HasNext
  <2>2. request.switched \in 0..MaxSwitches /\ MaxSwitches \in Nat
    BY <2>1, AutoModelAssumption DEF Requests
  <2>3. request.switched + 1 \in 0..MaxSwitches
    BY <2>1, <2>2
  <2>4. request' \in Requests /\ request'.switched = request.switched + 1
        /\ request'.chain = request.chain
    BY <2>1, <2>3 DEF Requests
  <2>5. request'.switched < Len(request'.chain)
    <3>1. Len(request.chain) \in Nat
      BY <2>1, LenProperties DEF Requests
    <3>2. QED
      BY <2>1, <2>2, <2>4, <3>1
  <2>6. QED
    BY <1>3, <2>4, <2>5 DEF AttemptFails, AutoTypeOK
<1>4. CASE LastAttemptFails
  <2>1. /\ request \in Requests /\ request.switched < Len(request.chain)
    BY <1>4 DEF LastAttemptFails, AutoTypeOK, NoRequest
  <2>2. request.est \in Nat \ {0} /\ Model \in Models
    <3>1. /\ request.est \in Sizes /\ request.chain \in Seq(Models) /\ request.switched \in 0..MaxSwitches
      BY <2>1 DEF Requests
    <3>2. Len(request.chain) \in Nat /\ request.switched \in Nat /\ Sizes \subseteq Nat \ {0}
      BY <3>1, LenProperties, AutoModelAssumption
    <3>3. 1 + request.switched \in 1..Len(request.chain)
      BY <2>1, <3>2
    <3>4. QED
      BY <3>1, <3>2, <3>3, ElementOfSeq DEF Model
  <2>3. learned' \in [DOMAIN learned' -> Nat \ {0}]
    <3>1. CASE learned' = learned
      BY <3>1 DEF AutoTypeOK
    <3>2. CASE learned' = learnContextFailure(ShownAs[Model], request.est)
      <4>1. learned \in [DOMAIN learned -> Nat \ {0}]
        BY DEF AutoTypeOK
      <4>2. ASSUME NEW name
            PROVE  learnContextFailure(name, request.est)
                     \in [DOMAIN learnContextFailure(name, request.est) -> Nat \ {0}]
        BY <2>2, <4>1 DEF learnContextFailure
      <4>3. QED
        BY <3>2, <4>2
    <3>3. QED
      BY <1>4, <3>1, <3>2 DEF LastAttemptFails
  <2>4. refused' \in [Models -> Nat]
    <3>1. refused \in [Models -> Nat]
      BY DEF AutoTypeOK
    <3>2. CASE refused' = refused
      BY <3>1, <3>2
    <3>3. CASE refused' = [refused EXCEPT ![Model] =
                             IF refused[Model] = 0 THEN request.est
                             ELSE Min({refused[Model], request.est})]
      <4>1. ASSUME NEW a \in Nat, NEW b \in Nat PROVE Min({a, b}) \in Nat
        <5>1. \E x \in {a, b} : \A y \in {a, b} : x <= y
          OBVIOUS
        <5>2. QED
          BY <5>1 DEF Min
      <4>2. Min({refused[Model], request.est}) \in Nat
        BY <2>2, <3>1, <4>1
      <4>3. QED
        BY <2>2, <3>1, <3>3, <4>2
    <3>4. QED
      BY <1>4, <3>2, <3>3 DEF LastAttemptFails
  <2>5. QED
    BY <1>4, <2>3, <2>4 DEF LastAttemptFails, AutoTypeOK, NoRequest
<1>5. CASE setAutoConfig
  <2>1. /\ Weights \subseteq Nat /\ Windows \subseteq Nat \ {0} /\ Default \in Nat \ {0}
    BY AutoModelAssumption
  <2>2. cfg' \in [strategy : Strategies, weight : [Models -> Nat], window : [Models -> Nat \ {0}]]
    <3>1. cfg \in [strategy : Strategies, weight : [Models -> Nat], window : [Models -> Nat \ {0}]]
      BY DEF AutoTypeOK
    <3>2. PICK m \in Models :
            \/ \E w \in Weights \cup {5} : cfg' = [cfg EXCEPT !.weight[m] = w]
            \/ \E n \in Windows \cup {Default} : cfg' = [cfg EXCEPT !.window[m] = n]
            \/ \E strategy \in Strategies : cfg' = [cfg EXCEPT !.strategy = strategy]
      BY <1>5 DEF setAutoConfig
    <3>3. ASSUME NEW w \in Nat, cfg' = [cfg EXCEPT !.weight[m] = w]
          PROVE  cfg' \in [strategy : Strategies, weight : [Models -> Nat], window : [Models -> Nat \ {0}]]
      BY <3>1, <3>3
    <3>4. ASSUME NEW n \in Nat \ {0}, cfg' = [cfg EXCEPT !.window[m] = n]
          PROVE  cfg' \in [strategy : Strategies, weight : [Models -> Nat], window : [Models -> Nat \ {0}]]
      BY <3>1, <3>4
    <3>5. ASSUME NEW strategy \in Strategies, cfg' = [cfg EXCEPT !.strategy = strategy]
          PROVE  cfg' \in [strategy : Strategies, weight : [Models -> Nat], window : [Models -> Nat \ {0}]]
      BY <3>1, <3>5
    <3>6. QED
      BY <2>1, <3>2, <3>3, <3>4, <3>5
  <2>3. QED
    BY <1>5, <2>2 DEF setAutoConfig, AutoTypeOK
<1>6. CASE CatalogueChanges
  BY <1>6 DEF CatalogueChanges, AutoTypeOK
<1>7. CASE UNCHANGED autoVars
  BY <1>7 DEF autoVars, AutoTypeOK
<1>8. QED
  BY <1>1, <1>2, <1>3, <1>4, <1>5, <1>6, <1>7 DEF AutoNext

\* The smaller of two.
LEMMA MinOfTwo ==
  ASSUME NEW a \in Nat, NEW b \in Nat
  PROVE  Min({a, b}) = IF a <= b THEN a ELSE b
<1>1. \E x \in {a, b} : \A y \in {a, b} : x <= y
  OBVIOUS
<1>2. QED
  BY <1>1 DEF Min

\* A refusal is remembered under the model's own name when it is shown under it, and
\* what other models teach under that name only tightens the limit.
LEMMA ChoiceStepRemembers ==
  ASSUME AutoTypeOK, Remembered, [AutoNext]_autoVars
  PROVE  Remembered'
<1>1. CASE learned' = learned /\ refused' = refused
  BY <1>1 DEF Remembered
<1>2. CASE ~(learned' = learned /\ refused' = refused)
  <2>1. /\ request.on
        /\ learned' = learnContextFailure(ShownAs[Model], request.est)
        /\ refused' = [refused EXCEPT ![Model] =
                         IF refused[Model] = 0 THEN request.est
                         ELSE Min({refused[Model], request.est})]
    <3>1. LastAttemptFails
      BY <1>2 DEF AutoNext, autoVars, prepareAuto, AttemptSucceeds,
                  AttemptFails, setAutoConfig, CatalogueChanges
    <3>2. QED
      BY <1>2, <3>1 DEF LastAttemptFails
  <2>2. request.est \in Nat \ {0}
    <3>1. request \in Requests
      BY <2>1 DEF AutoTypeOK, NoRequest
    <3>2. QED
      BY <3>1, AutoModelAssumption DEF Requests
  <2>3. /\ \A m \in Models : refused[m] \in Nat
        /\ \A m \in DOMAIN learned : learned[m] \in Nat
        /\ refused \in [Models -> Nat]
    BY DEF AutoTypeOK
  <2>4. ASSUME NEW m \in Models, ShownAs[m] = m, refused'[m] > 0
        PROVE  m \in DOMAIN learned' /\ learned'[m] <= refused'[m]
    <3>1. refused[m] > 0 => m \in DOMAIN learned /\ learned[m] <= refused[m]
      BY <2>4 DEF Remembered
    <3>2. CASE m = Model
      <4>1. refused'[m] = IF refused[m] = 0 THEN request.est
                          ELSE Min({refused[m], request.est})
        BY <2>1, <2>3, <3>2
      <4>2. refused'[m] = IF refused[m] = 0 \/ request.est < refused[m]
                          THEN request.est ELSE refused[m]
        <5>1. Min({refused[m], request.est})
                = IF refused[m] <= request.est THEN refused[m] ELSE request.est
          BY <2>2, <2>3, MinOfTwo
        <5>2. QED
          BY <2>2, <2>3, <4>1, <5>1
      <4>3. learned' = learnContextFailure(m, request.est)
        BY <2>1, <2>4, <3>2
      <4>4. \/ /\ m \in DOMAIN learned /\ learned[m] <= request.est
               /\ learned' = learned
            \/ /\ ~(m \in DOMAIN learned /\ learned[m] <= request.est)
               /\ m \in DOMAIN learned' /\ learned'[m] = request.est
        BY <4>3 DEF learnContextFailure
      <4>5. QED
        BY <2>2, <2>3, <3>1, <4>2, <4>4
    <3>3. CASE m # Model
      <4>1. refused'[m] = refused[m]
        BY <2>1, <2>3, <3>3
      <4>2. m \in DOMAIN learned /\ learned[m] <= refused[m]
        BY <2>4, <3>1, <4>1
      <4>3. m \in DOMAIN learned' /\ learned'[m] <= learned[m]
        <5>1. PICK name : learned' = learnContextFailure(name, request.est)
          BY <2>1
        <5>2. CASE name \in DOMAIN learned /\ learned[name] <= request.est
          BY <2>3, <4>2, <5>1, <5>2 DEF learnContextFailure
        <5>3. CASE ~(name \in DOMAIN learned /\ learned[name] <= request.est)
          <6>1. learned' = [n \in DOMAIN learned \cup {name} |->
                               IF n = name THEN request.est ELSE learned[n]]
            BY <5>1, <5>3 DEF learnContextFailure
          <6>2. CASE name = m
            BY <2>2, <2>3, <4>2, <5>3, <6>1, <6>2
          <6>3. CASE name # m
            BY <2>3, <4>2, <6>1, <6>3
          <6>4. QED
            BY <6>2, <6>3
        <5>4. QED
          BY <5>2, <5>3
      <4>4. learned[m] \in Int /\ learned'[m] \in Int /\ refused[m] \in Int
        <5>1. AutoTypeOK'
          BY ChoiceStepType
        <5>2. QED
          BY <2>3, <4>2, <4>3, <5>1 DEF AutoTypeOK
      <4>5. QED
        BY <4>1, <4>2, <4>3, <4>4
    <3>4. QED
      BY <3>2, <3>3
  <2>5. QED
    BY <2>4 DEF Remembered
<1>3. QED
  BY <1>1, <1>2

\* A chain is checked when it is made, and a request that learns is over.
LEMMA ChoiceStepAvoids ==
  ASSUME AutoSafe, [AutoNext]_autoVars
  PROVE  OutgrownIsAvoided'
<1> USE DEF AutoSafe
<1>1. CASE prepareAuto
  BY <1>1, PrepareAvoids
<1>2. CASE request' = NoRequest
  BY <1>2 DEF OutgrownIsAvoided, NoRequest, ToSet
<1>3. CASE /\ request'.chain = request.chain /\ request'.est = request.est
           /\ request'.fallback = request.fallback /\ refused' = refused
  BY <1>3 DEF OutgrownIsAvoided, ToSet
<1>4. CASE AttemptFails
  <2>1. /\ request' = [request EXCEPT !.switched = request.switched + 1]
        /\ refused' = refused
        /\ request \in Requests
    BY <1>4 DEF AttemptFails, AutoTypeOK, NoRequest
  <2>2. /\ request'.chain = request.chain /\ request'.est = request.est
        /\ request'.fallback = request.fallback
    BY <2>1 DEF Requests
  <2>3. QED
    BY <1>3, <2>1, <2>2
<1>5. CASE setAutoConfig \/ CatalogueChanges \/ UNCHANGED autoVars
  BY <1>3, <1>5 DEF setAutoConfig, CatalogueChanges, autoVars
<1>6. QED
  BY <1>1, <1>2, <1>4, <1>5 DEF AutoNext, AttemptSucceeds, LastAttemptFails

\* The three together are inductive.
LEMMA ChoiceIsSafe == AutoSpec => []AutoSafe
<1>1. AutoInit => AutoSafe
  BY ChoiceStarts
<1>2. AutoSafe /\ [AutoNext]_autoVars => AutoSafe'
  BY ChoiceStepType, ChoiceStepRemembers, ChoiceStepAvoids DEF AutoSafe
<1>3. QED
  BY <1>1, <1>2, PTL DEF AutoSpec

\* Every chain is a list of models and its next one exists, every credit is an integer
\* and every limit a positive number (autoCfg, autoSWRRCur, autoLearnedUpper).
THEOREM ChoiceTypeCorrect == AutoSpec => []AutoTypeOK
<1>1. AutoSafe => AutoTypeOK
  BY DEF AutoSafe
<1>2. QED
  BY <1>1, ChoiceIsSafe, PTL

\* A model shown under its own name that refused a conversation as long is only in a
\* chain made of all the candidates (buildAutoChain, learnContextFailure).
THEOREM LongConversationsAvoidOutgrown == AutoSpec => []OutgrownIsAvoided
<1>1. AutoSafe => OutgrownIsAvoided
  BY DEF AutoSafe
<1>2. QED
  BY <1>1, ChoiceIsSafe, PTL
=============================================================================

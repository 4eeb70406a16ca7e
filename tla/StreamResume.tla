----------------------------- MODULE StreamResume -----------------------------
(***************************************************************************)
(* A streamed chat request: chatHandler takes one of the process's stream  *)
(* slots, callOpenCodeAPIStream finds an upstream over the auto chain and  *)
(* the vendors, and streamWithResume forwards its lines to the client and  *)
(* reconnects when the upstream breaks off.                                *)
(*                                                                         *)
(* A line of the reply is only its kind and the attempt it came from:      *)
(* "text" is visible content, "other" a chunk without any (a role, a tool  *)
(* call, reasoning, usage), "raw" a line forwarded as it came, "error" an  *)
(* error event and "done" the closing [DONE].                              *)
(***************************************************************************)
EXTENDS Integers, Sequences, FiniteSets

CONSTANTS
    Streams,    \* the requests
    Slots,      \* maxConcurrentStreams
    MaxResume,  \* min(maxRouteRetries(), 3)
    Vendors,    \* number of candidates the router gives for a model
    Chain,      \* models tried in turn: 1, or up to 1 + maxAutoSwitches (auto)
    MaxLines    \* bound: lines the upstreams of one request send in all

ASSUME StreamResumeAssumption ==
    /\ IsFiniteSet(Streams) /\ Slots \in Nat \ {0} /\ MaxResume \in 0..3
    /\ Vendors \in Nat \ {0} /\ Chain \in Nat \ {0} /\ MaxLines \in Nat

VARIABLES
    pc,     \* "new", "dial", "read", "close", "ended", "refused"
    held,   \* len(streamSlots)
    others, \* streams of the other two handlers, which share the slots
    try,    \* the model and vendor being dialled
    conn,   \* what upResp is: "none", a "stream", the "body" of an error
    attempt,
    wire,   \* the lines written to the client
    told,   \* how much text each message added to currentBody repeats
    cause,  \* how each attempt's connection ended
    ok,     \* resumeStreamResult.OK
    left,   \* the client's context is cancelled
    blamed  \* the causes NotifyStreamFailure was called for

vars == <<pc, held, others, try, conn, attempt, wire, told, cause, ok, left,
          blamed>>

Dialled  == {"switch", "fatal", "broken"}  \* ways a vendor's call can fail
Fails    == {"hard", "errorLine"}          \* ends that may resume after text
Quiet    == {"eof", "silence"}             \* ends that may not
Causes   == Fails \cup Quiet \cup {"ttft", "done", "gone", "cancelled"}
Attempts == 0..MaxResume

Count(w, kinds) == Cardinality({i \in DOMAIN w : w[i].kind \in kinds})
TextIn(w) == Count(w, {"text"})
FromUpstream(w) == Count(w, {"text", "other", "raw"})
Line(s, kind) == [kind |-> kind, of |-> attempt[s]]
FirstTry == [model |-> 1, vendor |-> 1]

Init ==
    /\ pc = [s \in Streams |-> "new"]
    /\ held = 0 /\ others = 0
    /\ try = [s \in Streams |-> FirstTry]
    /\ conn = [s \in Streams |-> "none"]
    /\ attempt = [s \in Streams |-> 0]
    /\ wire = [s \in Streams |-> << >>]
    /\ told = [s \in Streams |-> << >>]
    /\ cause = [s \in Streams |-> [a \in Attempts |-> "none"]]
    /\ ok = [s \in Streams |-> FALSE]
    /\ left = [s \in Streams |-> FALSE]
    /\ blamed = [s \in Streams |-> {}]

-----------------------------------------------------------------------------
(* The slot. *)

Arrive(s) ==
    /\ pc[s] = "new" /\ held < Slots
    /\ held' = held + 1
    /\ pc' = [pc EXCEPT ![s] = "dial"]
    /\ UNCHANGED <<others, try, conn, attempt, wire, told, cause, ok, left,
                   blamed>>

\* 503 with no slot taken
Refuse(s) ==
    /\ pc[s] = "new" /\ held >= Slots
    /\ pc' = [pc EXCEPT ![s] = "refused"]
    /\ UNCHANGED <<held, others, try, conn, attempt, wire, told, cause, ok, left,
                   blamed>>

\* Mutant: a return that does not give the slot back.
EndsKeepingSlot(s, good, closing) ==
    /\ pc' = [pc EXCEPT ![s] = "ended"]
    /\ conn' = [conn EXCEPT ![s] = "none"]
    /\ ok' = [ok EXCEPT ![s] = good]
    /\ wire' = [wire EXCEPT ![s] = @ \o closing]
    /\ UNCHANGED held

\* the handler returns: the deferred releaseStream, and upResp is closed
Ends(s, good, closing) ==
    /\ pc' = [pc EXCEPT ![s] = "ended"]
    /\ conn' = [conn EXCEPT ![s] = "none"]
    /\ ok' = [ok EXCEPT ![s] = good]
    /\ wire' = [wire EXCEPT ![s] = @ \o closing]
    /\ held' = held - 1

-----------------------------------------------------------------------------
(* callOpenCodeAPIStream. *)

\* a candidate answers 2xx
DialOk(s) ==
    /\ pc[s] = "dial" /\ ~left[s]
    /\ pc' = [pc EXCEPT ![s] = "read"]
    /\ conn' = [conn EXCEPT ![s] = "stream"]
    /\ UNCHANGED <<held, others, try, attempt, wire, told, cause, ok, left,
                   blamed>>

\* the candidate after the one that failed in the given way, if there is one
NextTry(t, how) ==
    IF how = "switch" /\ t.vendor < Vendors
    THEN {[t EXCEPT !.vendor = @ + 1]}
    ELSE IF t.model < Chain THEN {[model |-> t.model + 1, vendor |-> 1]} ELSE {}

DialNext(s) ==
    /\ pc[s] = "dial"
    /\ \E how \in (IF left[s] THEN {"broken"} ELSE Dialled) :
           \E t \in NextTry(try[s], how) : try' = [try EXCEPT ![s] = t]
    /\ UNCHANGED <<pc, held, others, conn, attempt, wire, told, cause, ok, left,
                   blamed>>

\* the first connection fails: a JSON error and no stream
DialRefused(s) ==
    /\ pc[s] = "dial" /\ attempt[s] = 0
    /\ \E how \in (IF left[s] THEN {"broken"} ELSE Dialled) :
           NextTry(try[s], how) = {}
    /\ Ends(s, FALSE, <<Line(s, "error")>>)
    /\ UNCHANGED <<others, try, attempt, told, cause, left, blamed>>

\* Mutant: a failed dial does not count.
SpendNothing(s) == UNCHANGED <<pc, held, conn, ok, wire, attempt>>

\* a reconnection ends with an error value: that attempt is spent
SpendAttempt(s) ==
    /\ attempt' = [attempt EXCEPT ![s] = @ + 1]
    /\ IF attempt[s] < MaxResume THEN UNCHANGED <<pc, held, conn, ok, wire>>
                                  ELSE Ends(s, FALSE, <<Line(s, "error")>>)

ResumeBroken(s) ==
    /\ pc[s] = "dial" /\ attempt[s] > 0
    /\ NextTry(try[s], "broken") = {}
    /\ SpendAttempt(s)
    /\ try' = [try EXCEPT ![s] = FirstTry]
    /\ UNCHANGED <<others, told, cause, left, blamed>>

\* a reconnection ends with a bad status and no error value: its status is
\* dropped and the body of the error is read as the stream
ResumeBadStatus(s) ==
    /\ pc[s] = "dial" /\ attempt[s] > 0 /\ ~left[s]
    /\ \E how \in {"switch", "fatal"} : NextTry(try[s], how) = {}
    /\ pc' = [pc EXCEPT ![s] = "read"]
    /\ conn' = [conn EXCEPT ![s] = "body"]
    /\ UNCHANGED <<held, others, try, attempt, wire, told, cause, ok, left,
                   blamed>>

-----------------------------------------------------------------------------
(* streamWithResume. *)

GotFirst(s) ==
    \E i \in DOMAIN wire[s] :
        wire[s][i].of = attempt[s] /\ wire[s][i].kind \in {"text", "other"}

Forward(s) ==
    /\ pc[s] = "read" /\ FromUpstream(wire[s]) < MaxLines
    /\ \E k \in (IF conn[s] = "stream" THEN {"text", "other", "raw"}
                                        ELSE {"raw"}) :
           wire' = [wire EXCEPT ![s] = Append(@, Line(s, k))]
    /\ UNCHANGED <<pc, held, others, try, conn, attempt, told, cause, ok, left,
                   blamed>>

\* the read loop is left
Leave(s, why, closing) ==
    /\ pc[s] = "read"
    /\ pc' = [pc EXCEPT ![s] = "close"]
    /\ cause' = [cause EXCEPT ![s][attempt[s]] = why]
    /\ wire' = [wire EXCEPT ![s] = @ \o closing]
    /\ UNCHANGED <<held, others, try, conn, attempt, told, ok, left, blamed>>

\* Mutant: [DONE] is forwarded like any line and the loop reads on.
UpstreamDoneReadsOn(s) ==
    /\ pc[s] = "read" /\ conn[s] = "stream" /\ Len(wire[s]) < MaxLines
    /\ wire' = [wire EXCEPT ![s] = Append(@, Line(s, "done"))]
    /\ UNCHANGED <<pc, held, others, try, conn, attempt, told, cause, ok, left,
                   blamed>>

\* [DONE]; or an error line that another key would give too, forwarded and
\* closed in the upstream's place
UpstreamDone(s) ==
    \/ conn[s] = "stream" /\ Leave(s, "done", <<Line(s, "done")>>)
    \/ Leave(s, "done", <<Line(s, "error"), Line(s, "done")>>)

\* the connection breaks, an error line of the kind that another key may not
\* give comes, the stream ends without [DONE]
UpstreamBreaks(s) ==
    \E why \in {"errorLine", "eof"} \cup (IF conn[s] = "stream" THEN {"hard"} ELSE {}) :
        Leave(s, why, << >>)

\* Mutant: silence after text may be resumed, as the wait for a first chunk may.
TimesOutResumes(s) == conn[s] = "stream" /\ Leave(s, "ttft", << >>)

\* no line for the time allowed: TTFT before the first chunk, else silence (the
\* body of an error is in memory and keeps nobody waiting)
TimesOut(s) ==
    conn[s] = "stream" /\ Leave(s, IF GotFirst(s) THEN "silence" ELSE "ttft", << >>)

\* the client is gone: seen as such, or first as a read error, because the
\* upstream's body is read under the same context
ClientGone(s) ==
    left[s] /\ \/ Leave(s, "gone", << >>)
               \/ conn[s] = "stream" /\ Leave(s, "cancelled", << >>)

\* the upstream's connection is closed and, unless the loop saw the client
\* leave, a failure of the stream goes to the vendor
Notified(s) ==
    LET why == cause[s][attempt[s]] IN
    blamed' = [blamed EXCEPT ![s] =
                   IF why \in {"done", "gone"} THEN @ ELSE @ \cup {why}]

\* Mutant: only the first reconnection is told what the client has seen.
AskAgainOnce(s) == told' = [told EXCEPT ![s] =
    IF TextIn(wire[s]) = 0 \/ @ # << >> THEN @ ELSE Append(@, TextIn(wire[s]))]

\* the rest of the reply is asked for, with what the client has been shown
AskAgain(s) == told' = [told EXCEPT ![s] =
    IF TextIn(wire[s]) = 0 THEN @ ELSE Append(@, TextIn(wire[s]))]

Resume(s) ==
    /\ attempt' = [attempt EXCEPT ![s] = @ + 1]
    /\ IF attempt[s] < MaxResume
       THEN /\ AskAgain(s)
            /\ pc' = [pc EXCEPT ![s] = "dial"]
            /\ conn' = [conn EXCEPT ![s] = "none"]
            /\ UNCHANGED <<held, ok, wire>>
       ELSE Ends(s, FALSE, <<Line(s, "error")>>) /\ UNCHANGED told

\* what follows the loop, by the way it was left
Settled(s) ==
    LET why == cause[s][attempt[s]]
        answered == why \in Quiet /\ TextIn(wire[s]) > 0
    IN  \/ /\ why = "done"
           /\ Ends(s, TRUE, << >>) /\ UNCHANGED <<attempt, told>>
        \/ /\ why # "done" /\ (why = "gone" \/ left[s])
           /\ Ends(s, FALSE, <<Line(s, "error")>>) /\ UNCHANGED <<attempt, told>>
        \/ /\ answered /\ ~left[s]
           /\ Ends(s, TRUE, <<Line(s, "done")>>) /\ UNCHANGED <<attempt, told>>
        \/ /\ why \notin {"done", "gone"} /\ ~answered /\ ~left[s]
           /\ Resume(s)

Settle(s) ==
    /\ pc[s] = "close"
    /\ Notified(s)
    /\ Settled(s)
    /\ try' = [try EXCEPT ![s] = FirstTry]
    /\ UNCHANGED <<others, cause, left>>

\* the streams of /v1/messages and /v1/responses come and go
OthersChange ==
    /\ \/ held < Slots /\ others' = others + 1 /\ held' = held + 1
       \/ others > 0 /\ others' = others - 1 /\ held' = held - 1
    /\ UNCHANGED <<pc, try, conn, attempt, wire, told, cause, ok, left,
                   blamed>>

-----------------------------------------------------------------------------
\* the client closes its connection, at any time
ClientLeaves(s) ==
    /\ pc[s] \in {"dial", "read", "close"} /\ ~left[s]
    /\ left' = [left EXCEPT ![s] = TRUE]
    /\ UNCHANGED <<pc, held, others, try, conn, attempt, wire, told, cause, ok, blamed>>

Dial(s) ==
    DialOk(s) \/ DialNext(s) \/ DialRefused(s) \/ ResumeBroken(s)
        \/ ResumeBadStatus(s)
Read(s) ==
    Forward(s) \/ UpstreamDone(s) \/ UpstreamBreaks(s) \/ TimesOut(s)
        \/ ClientGone(s)
Step(s) == Arrive(s) \/ Refuse(s) \/ Dial(s) \/ Read(s) \/ Settle(s)

Next == OthersChange \/ \E s \in Streams : Step(s) \/ ClientLeaves(s)

Spec == Init /\ [][Next]_vars

\* The goroutine of a request goes on: a call to a vendor returns (it has a
\* timeout of its own), and the read loop gets a line or its timer fires.
FairSpec == Spec /\ \A s \in Streams : WF_vars(Step(s))

-----------------------------------------------------------------------------
(* Properties. *)

Kinds == {"text", "other", "raw", "error", "done"}

\* Type correctness of the state of a streamed request.
TypeOK ==
    /\ pc \in [Streams -> {"new", "dial", "read", "close", "ended", "refused"}]
    /\ held \in 0..Slots /\ others \in 0..Slots
    /\ try \in [Streams -> [model : 1..Chain, vendor : 1..Vendors]]
    /\ conn \in [Streams -> {"none", "stream", "body"}]
    /\ attempt \in [Streams -> 0..MaxResume + 1]
    /\ wire \in [Streams -> Seq([kind : Kinds, of : Attempts])]
    /\ told \in [Streams -> Seq(Nat)]
    /\ cause \in [Streams -> [Attempts -> Causes \cup {"none"}]]
    /\ ok \in [Streams -> BOOLEAN] /\ left \in [Streams -> BOOLEAN]
    /\ blamed \in [Streams -> SUBSET Causes]

\* The requests that are being served.
Served == {s \in Streams : pc[s] \in {"dial", "read", "close"}}

\* A slot is held by exactly the requests that are being served, whichever of
\* the handler's returns they leave by.
SlotsMatchStreams == held = others + Cardinality(Served)

\* However many upstreams a reply was put together from, the client sees at
\* most one [DONE] and nothing after it; and a request that ended has either
\* succeeded and closed with [DONE], or failed and closed with an error.
OneEnding ==
    \A s \in Streams :
        LET w == wire[s] IN
        /\ \A i \in DOMAIN w : w[i].kind = "done" => i = Len(w)
        /\ pc[s] = "ended" =>
               /\ w # << >>
               /\ w[Len(w)].kind = IF ok[s] THEN "done" ELSE "error"

\* Every reconnection is told all the text the client has been shown so far,
\* so that the new upstream can go on from there.
ResumeKnowsAll ==
    [][\A s \in Streams :
          pc[s] = "dial" /\ pc'[s] = "read" /\ TextIn(wire[s]) > 0 =>
              told[s] # << >> /\ told[s][Len(told[s])] = TextIn(wire[s])]_vars

\* Text of two upstreams is joined in one reply only where the earlier one
\* broke off: one that ended or fell silent after its text has answered.
NoDoubleReply ==
    \A s \in Streams : \A i, j \in DOMAIN wire[s] :
        LET a == wire[s][i]  b == wire[s][j] IN
        a.kind = "text" /\ b.kind = "text" /\ a.of < b.of =>
            cause[s][a.of] \in Fails

\* A client that stays is refused the rest of its reply only when every
\* reconnection the limit allows has been used.
GivesUpOnlyWhenSpent ==
    \A s \in Streams :
        pc[s] = "ended" /\ ~ok[s] /\ ~left[s] /\ cause[s][0] # "none" =>
            attempt[s] = MaxResume + 1

(* Why these hold: what every step preserves of one request. *)

\* Nothing has been sent before the first connection, and a request is served
\* within the limit of reconnections only.
Begun(s) ==
    /\ pc[s] \in {"new", "refused"} \/ (pc[s] = "dial" /\ attempt[s] = 0) =>
           attempt[s] = 0 /\ wire[s] = << >> /\ cause[s][0] = "none"
    /\ s \in Served => attempt[s] <= MaxResume

NoDone(w) == \A i \in DOMAIN w : w[i].kind # "done"
DoneLast(w) ==
    w # << >> /\ w[Len(w)].kind = "done"
              /\ \A i \in DOMAIN w : w[i].kind = "done" => i = Len(w)
ErrorLast(w) == w # << >> /\ w[Len(w)].kind = "error" /\ NoDone(w)

\* The reply is open until a [DONE] or an error closes it, and the loop that
\* forwarded [DONE] knows it.
Ending(s) ==
    /\ pc[s] \in {"new", "refused", "dial", "read"} => NoDone(wire[s])
    /\ pc[s] = "close" => IF cause[s][attempt[s]] = "done" THEN DoneLast(wire[s])
                                                         ELSE NoDone(wire[s])
    /\ pc[s] = "ended" => IF ok[s] THEN DoneLast(wire[s]) ELSE ErrorLast(wire[s])

\* Lines come from the attempts made so far, the text of earlier ones only from
\* those that broke off; the wait for a first chunk ends before any text; the
\* read is cancelled only by a client that left.
Joined(s) ==
    /\ \A i \in DOMAIN wire[s] :
           LET l == wire[s][i] IN
           /\ l.of <= attempt[s] /\ (pc[s] = "dial" => l.of < attempt[s])
           /\ l.kind = "text" /\ l.of < attempt[s] => cause[s][l.of] \in Fails
           /\ pc[s] = "close" /\ cause[s][attempt[s]] = "ttft" =>
                  ~(l.kind = "text" /\ l.of = attempt[s])
    /\ pc[s] = "close" =>
           /\ cause[s][attempt[s]] # "none"
           /\ cause[s][attempt[s]] \in {"gone", "cancelled"} => left[s]

\* The budget of reconnections is spent when a reply that began is given up.
Spent(s) ==
    pc[s] = "ended" /\ ~ok[s] /\ ~left[s] /\ cause[s][0] # "none" =>
        attempt[s] = MaxResume + 1

\* A reconnection about to be made has been told all the text shown so far.
Told(s) ==
    pc[s] = "dial" /\ TextIn(wire[s]) > 0 =>
        told[s] # << >> /\ told[s][Len(told[s])] = TextIn(wire[s])

\* The conjunction of all of it is inductive.
Safe ==
    /\ TypeOK /\ SlotsMatchStreams
    /\ \A s \in Streams : Begun(s) /\ Ending(s) /\ Joined(s) /\ Spent(s) /\ Told(s)

\* Every request that took a slot ends and gives it back: no chain of broken
\* upstreams and failed dials keeps it for ever.
EveryStreamEnds ==
    \A s \in Streams : pc[s] = "dial" ~> pc[s] = "ended"

\* What custom.go says of NotifyStreamFailure: a client that leaves is not the
\* key's fault.
\* (The code does not keep to this: README, section 3.)
ClientLeavingIsNoKeyFault == \A s \in Streams : "cancelled" \notin blamed[s]

=============================================================================

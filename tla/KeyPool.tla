------------------------------ MODULE KeyPool ------------------------------
(***************************************************************************)
(* The keys of one custom provider: which key a call uses, what its answer *)
(* does to the key, and which key the call tries next.                     *)
(* vendors/custom/keypool.go and custom.go (withKeys, withKeysStream,      *)
(* ListModels, probeKeys, ResetKeys).                                      *)
(*                                                                         *)
(* Every operation of the pool is short and under pool.mu; a call holds no *)
(* lock while it waits for the upstream, so any number of them pick keys,  *)
(* record results and mark keys in between.  Requests ask for one model,   *)
(* of which the catalogue says whether it exists (hasModel) and which keys *)
(* offer it (affinity, a list in the order in which the keys answered).    *)
(* No call of the program carries a preferred key (PreferredKeyIdx is      *)
(* never set), so the sticky branch is left out.                           *)
(***************************************************************************)
EXTENDS Naturals, Sequences, Functions

CONSTANTS
  NumKeys,     \* keys of the pool, numbered from 0
  Setups,      \* configurations of a pool: strategy, and whether 401/403 has a cooling time
  Callers,     \* concurrent requests
  circuitOpenThreshold,  \* failures in a row that open the circuit; 3 in the code
  MaxCalls,    \* bound on requests
  MaxUpkeep,   \* bound on listings, probe rounds and restores
  RRMod,       \* the round robin counter is modulo this (uint64 in the code)
  None         \* no key, no answer

ASSUME PoolAssumption ==
  /\ NumKeys \in Nat \ {0} /\ MaxCalls \in Nat /\ MaxUpkeep \in Nat
  /\ circuitOpenThreshold \in Nat \ {0}
  /\ Setups \subseteq [strategy : {"round_robin", "failover", "health"}, cools403 : BOOLEAN]
  /\ RRMod \in Nat \ {0}
  /\ None \notin Nat

Keys == 0 .. NumKeys - 1
Lister == "lister"
Actors == Callers \cup {Lister}

\* Answers of the upstream: 2xx, 401/403, 429, 404, 5xx, 408 or no connection, other 4xx.
Answers == {"ok", "auth", "limit", "absent", "upstream", "bad"}

VARIABLES
  strategy,  \* p.strategy
  cools403,  \* key403Cooldown > 0
  key,       \* key[k]: disabled, and which of the three cooling times lie ahead
  rr,        \* p.rr, of which the code uses rr % n alone, for n up to NumKeys
  affinity,  \* v.affinity of the model
  listed,    \* hasModel
  call,      \* call[a]: the request or listing of a in progress
  probing,   \* the keys the probe round still has to try
  calls,     \* number of requests and of other calls so far
  streak     \* history: failures of a key recorded in a row since its last success,
             \* restore or 401/403

vars == <<strategy, cools403, key, rr, affinity, listed, call, probing, calls, streak>>

Fresh == [disabled |-> FALSE, cooling |-> FALSE, auth |-> FALSE, circuit |-> FALSE, fails |-> 0]
Idle == [pc |-> "idle", stream |-> FALSE, tried |-> {}, key |-> None, out |-> None,
         got |-> <<>>, some |-> FALSE]

Init ==
  /\ \E s \in Setups : strategy = s.strategy /\ cools403 = s.cools403
  /\ key = [k \in Keys |-> Fresh]
  /\ rr = 0
  /\ affinity = <<>> /\ listed \in BOOLEAN
  /\ call = [a \in Actors |-> Idle]
  /\ probing = {} /\ calls = [requests |-> 0, upkeep |-> 0]
  /\ streak = [k \in Keys |-> 0]

Available(k) == LET s == key[k] IN ~s.disabled /\ ~s.cooling /\ ~s.auth /\ ~s.circuit

CountRequest == calls.requests < MaxCalls /\ calls' = [calls EXCEPT !.requests = @ + 1]
CountUpkeep == calls.upkeep < MaxUpkeep /\ calls' = [calls EXCEPT !.upkeep = @ + 1]

-----------------------------------------------------------------------------
(* Picking a key.                                                          *)

\* The keys of a list that may be picked, by their place in it.
Open(list, tried) == {i \in DOMAIN list : list[i] \notin tried /\ Available(list[i])}

\* The first of them, going round the list from a place on.
FirstFrom(list, tried, start) ==
  LET n == Len(list)
      At(off) == ((start + off) % n) + 1
  IN list[At(CHOOSE off \in 0 .. n - 1 :
               /\ At(off) \in Open(list, tried)
               /\ \A o \in 0 .. off - 1 : At(o) \notin Open(list, tried))]

\* The keys a strategy may pick from a list.  What health knows of the keys beyond
\* their availability is left open.
Picks(list, tried) ==
  IF Open(list, tried) = {} THEN {}
  ELSE CASE strategy = "health" -> {list[i] : i \in Open(list, tried)}
         [] strategy = "failover" -> {FirstFrom(list, tried, 0)}
         [] strategy = "round_robin" -> {FirstFrom(list, tried, rr % Len(list))}

All == [i \in 1 .. NumKeys |-> i - 1]

\* Mutant: only the keys that offer the model are tried when there are any.
ChoicePreferredOnly(preferred, tried) ==
  Picks(IF preferred # <<>> THEN preferred ELSE All, tried)

\* The keys that offer the model come first, then the whole pool.
Choice(preferred, tried) ==
  IF Picks(preferred, tried) # {} THEN Picks(preferred, tried) ELSE Picks(All, tried)

Begin(a) ==
  /\ (IF a = Lister THEN CountUpkeep ELSE CountRequest) /\ call[a].pc = "idle"
  /\ \E s \in IF a # Lister /\ strategy = "health" THEN BOOLEAN ELSE {FALSE} :
       call' = [call EXCEPT ![a] = [Idle EXCEPT !.pc = "pick", !.stream = s]]
  /\ UNCHANGED <<strategy, cools403, key, rr, affinity, listed, probing, streak>>

\* tryAcquirePrefer for a request, tryAcquire for a listing.
Pick(a) ==
  /\ call[a].pc = "pick"
  /\ \E k \in Choice(IF a = Lister THEN <<>> ELSE affinity, call[a].tried) :
       /\ call' = [call EXCEPT ![a].pc = "wait", ![a].key = k, ![a].tried = @ \cup {k}]
       /\ rr' = IF strategy = "round_robin" THEN (rr + 1) % RRMod ELSE rr
  /\ UNCHANGED <<strategy, cools403, key, affinity, listed, probing, calls, streak>>

\* Nothing is left to try: the last answer, or an error, is what the client gets.
GiveUp(r) ==
  /\ r \in Callers /\ call[r].pc = "pick" /\ Choice(affinity, call[r].tried) = {}
  /\ call' = [call EXCEPT ![r] = Idle]
  /\ UNCHANGED <<strategy, cools403, key, rr, affinity, listed, probing, calls, streak>>

-----------------------------------------------------------------------------
(* Results.                                                                *)

\* recordResult: circuitOpenThreshold failures in a row open the circuit, and so does every further
\* one until a success; a success closes nothing that is open.
Recorded(k, ok) ==
  /\ IF ok
     THEN key' = [key EXCEPT ![k].fails = 0]
     ELSE LET n == IF key[k].fails < circuitOpenThreshold THEN key[k].fails + 1
                                                          ELSE key[k].fails
          IN key' = [key EXCEPT ![k].fails = n,
                                ![k].circuit = @ \/ n >= circuitOpenThreshold]
  /\ streak' = [streak EXCEPT ![k] =
       IF ok THEN 0 ELSE IF @ < circuitOpenThreshold THEN @ + 1 ELSE @]

\* A request has its answer.  What is not a success is looked at after it was recorded.
Answered(r, out) ==
  /\ r \in Callers /\ call[r].pc = "wait"
  /\ Recorded(call[r].key, out = "ok")
  /\ call' = [call EXCEPT ![r] =
       CASE out = "ok" -> IF call[r].stream
                          THEN [Idle EXCEPT !.pc = "stream", !.key = call[r].key] ELSE Idle
         [] out = "bad" -> Idle
         [] out = "upstream" -> [@ EXCEPT !.pc = "pick", !.key = None]
         [] OTHER -> [@ EXCEPT !.pc = "mark", !.out = out]]
  /\ UNCHANGED <<strategy, cools403, rr, affinity, listed, probing, calls>>

\* A key failed with 401/403, authFail: it cools down, and whatever else was wrong with
\* it is forgotten, or it is out for good.
AuthFail(k) ==
  IF cools403
  THEN /\ key' = [key EXCEPT ![k] = [Fresh EXCEPT !.disabled = key[k].disabled,
                                                  !.auth = TRUE]]
       /\ streak' = [streak EXCEPT ![k] = 0]
  ELSE key' = [key EXCEPT ![k].disabled = TRUE] /\ UNCHANGED streak

\* Mutant: the cooling time is not looked at.
MarkDisables(a) ==
  /\ call[a].pc = "mark"
  /\ LET c == call[a] IN
       /\ CASE c.out = "auth" -> key' = [key EXCEPT ![c.key].disabled = TRUE]
            [] c.out = "limit" -> key' = [key EXCEPT ![c.key].cooling = TRUE]
            [] c.out = "absent" -> UNCHANGED key
       /\ call' = [call EXCEPT ![a] =
            IF c.out = "absent" /\ ~listed THEN Idle ELSE [@ EXCEPT !.pc = "pick", !.key = None, !.out = None]]
  /\ UNCHANGED <<strategy, cools403, rr, affinity, listed, probing, calls, streak>>

\* Mark the key and try the next.  A model that the catalogue does not have is absent
\* everywhere.
Mark(a) ==
  /\ call[a].pc = "mark"
  /\ LET c == call[a] IN
       /\ CASE c.out = "auth" -> AuthFail(c.key)
            [] c.out = "limit" -> key' = [key EXCEPT ![c.key].cooling = TRUE] /\ UNCHANGED streak
            [] c.out = "absent" -> UNCHANGED <<key, streak>>
       /\ call' = [call EXCEPT ![a] =
            IF c.out = "absent" /\ ~listed THEN Idle ELSE [@ EXCEPT !.pc = "pick", !.key = None, !.out = None]]
  /\ UNCHANGED <<strategy, cools403, rr, affinity, listed, probing, calls>>

\* A stream is followed to its end under the health strategy only: one that breaks counts against its key.
StreamEnds(r, ok) ==
  /\ r \in Callers /\ call[r].pc = "stream"
  /\ IF ok THEN UNCHANGED <<key, streak>> ELSE Recorded(call[r].key, FALSE)
  /\ call' = [call EXCEPT ![r] = Idle]
  /\ UNCHANGED <<strategy, cools403, rr, affinity, listed, probing, calls>>

-----------------------------------------------------------------------------
(* Listing, probing, restoring, time.                                      *)

\* A key's list has the model or not, or the key fails.
ListAnswered(out, has) ==
  /\ call[Lister].pc = "wait" /\ (out # "ok" => ~has)
  /\ LET c == call[Lister] IN
       call' = [call EXCEPT ![Lister] =
         CASE out = "ok" -> [c EXCEPT !.pc = "pick", !.key = None, !.some = TRUE,
                                      !.got = IF has THEN Append(c.got, c.key) ELSE c.got]
           [] out \in {"auth", "limit"} -> [c EXCEPT !.pc = "mark", !.out = out]
           [] OTHER -> [c EXCEPT !.pc = "pick", !.key = None]]
  /\ UNCHANGED <<strategy, cools403, key, rr, affinity, listed, probing, calls, streak>>

\* Every key was asked.  If one of them named a model, the catalogue is theirs;
\* otherwise the one there is stays.
ListEnds ==
  /\ call[Lister].pc = "pick" /\ Choice(<<>>, call[Lister].tried) = {}
  /\ \/ /\ call[Lister].some
        /\ affinity' = call[Lister].got /\ listed' = (call[Lister].got # <<>>)
     \/ call[Lister].got = <<>> /\ UNCHANGED <<affinity, listed>>
  /\ call' = [call EXCEPT ![Lister] = Idle]
  /\ UNCHANGED <<strategy, cools403, key, rr, probing, calls, streak>>

\* A probe round takes the keys that are available as it begins.
ProbeBegin ==
  /\ CountUpkeep /\ strategy = "health" /\ NumKeys > 1 /\ probing = {}
  /\ probing' = {k \in Keys : Available(k)}
  /\ UNCHANGED <<strategy, cools403, key, rr, affinity, listed, call, streak>>

\* An answer that says nothing of the key's health is not recorded.
ProbeKey(k, out) ==
  /\ k \in probing /\ probing' = probing \ {k}
  /\ \/ out = "skipped" /\ UNCHANGED <<key, streak>>
     \/ out \in {"ok", "failed"} /\ Recorded(k, out = "ok")
  /\ UNCHANGED <<strategy, cools403, rr, affinity, listed, call, calls>>

\* Mutant: restoring leaves the count of failures.
ResetKeepsFails ==
  /\ CountUpkeep
  /\ key' = [k \in Keys |-> [Fresh EXCEPT !.fails = key[k].fails]]
  /\ streak' = [k \in Keys |-> 0]
  /\ UNCHANGED <<strategy, cools403, rr, affinity, listed, call, probing>>

ResetKeys ==
  /\ CountUpkeep
  /\ key' = [k \in Keys |-> Fresh]
  /\ streak' = [k \in Keys |-> 0]
  /\ UNCHANGED <<strategy, cools403, rr, affinity, listed, call, probing>>

\* One of a key's times comes.
Expire(k) ==
  /\ \E f \in {"cooling", "auth", "circuit"} : key[k][f] /\ key' = [key EXCEPT ![k][f] = FALSE]
  /\ UNCHANGED <<strategy, cools403, rr, affinity, listed, call, probing, calls, streak>>

-----------------------------------------------------------------------------
RequestStep(r) ==
  \/ Pick(r) \/ GiveUp(r) \/ Mark(r)
  \/ \E out \in Answers : Answered(r, out)
  \/ \E ok \in BOOLEAN : StreamEnds(r, ok)

ListStep ==
  \/ Pick(Lister) \/ Mark(Lister) \/ ListEnds
  \/ \E out \in Answers, has \in BOOLEAN : ListAnswered(out, has)

ProbeStep == \E k \in Keys, out \in {"ok", "failed", "skipped"} : ProbeKey(k, out)

Next ==
  \/ \E a \in Actors : Begin(a)
  \/ \E r \in Callers : RequestStep(r)
  \/ ListStep \/ ProbeBegin \/ ProbeStep \/ ResetKeys
  \/ \E k \in Keys : Expire(k)

Spec == Init /\ [][Next]_vars

-----------------------------------------------------------------------------
(* Properties.                                                             *)

KeyStates == [disabled : BOOLEAN, cooling : BOOLEAN, auth : BOOLEAN, circuit : BOOLEAN,
              fails : 0 .. circuitOpenThreshold]
CallStates == [pc : {"idle", "pick", "wait", "mark", "stream"}, stream : BOOLEAN,
               tried : SUBSET Keys, key : Keys \cup {None}, out : Answers \cup {None},
               got : Seq(Keys), some : BOOLEAN]

\* A call that waits or marks has a key, one that it tries for the first time; it marks what
\* one of three answers says.
CallOK(c) ==
  /\ c.pc \in {"wait", "mark", "stream"} => c.key \in Keys
  /\ c.pc = "wait" => c.key \in c.tried \ Range(c.got)
  /\ c.pc = "mark" => c.out \in {"auth", "limit", "absent"}
  /\ IsInjective(c.got) /\ Range(c.got) \subseteq c.tried

\* The pool as the Go types and the configuration allow it; a list of keys that offer
\* the model names each key once, and only keys the listing has asked.
TypeOK ==
  /\ [strategy |-> strategy, cools403 |-> cools403] \in Setups
  /\ key \in [Keys -> KeyStates]
  /\ rr \in 0 .. RRMod - 1
  /\ affinity \in Seq(Keys) /\ IsInjective(affinity)
  /\ listed \in BOOLEAN /\ (affinity # <<>> => listed)
  /\ call \in [Actors -> CallStates] /\ \A a \in Actors : CallOK(call[a])
  /\ probing \subseteq Keys /\ calls \in [requests : 0 .. MaxCalls, upkeep : 0 .. MaxUpkeep]
  /\ streak \in [Keys -> 0 .. circuitOpenThreshold]

\* No request or listing calls a key twice, so each of them comes to an end, however
\* its keys fail and recover meanwhile.
EachKeyOnce ==
  [][\A a \in Actors : call[a].pc = "pick" /\ call'[a].pc = "wait" =>
       call'[a].key \notin call[a].tried]_vars

\* A request that gives up has tried every key that is available at that moment,
\* whatever the catalogue says about who offers the model.
GiveUpOnlyWhenExhausted ==
  [][\A r \in Callers : call[r].pc = "pick" /\ call'[r].pc = "idle" =>
       \A k \in Keys : Available(k) => k \in call[r].tried]_vars

\* The circuit of a key opens only after the threshold of failures in a row that were recorded
\* since its last success, restore or 401/403 cooling time.
CircuitNeedsFailures ==
  [][\A k \in Keys : ~key[k].circuit /\ key'[k].circuit => streak'[k] = circuitOpenThreshold]_vars

\* With a cooling time configured for 401/403, nothing that happens to a key takes it
\* out for good: every key is available again when its times have come.
EveryKeyRecovers == cools403 => \A k \in Keys : ~key[k].disabled

\* keypool.go:6: failover follows the configured order; the main key is always used
\* while it is available.  A request never picks a key while an earlier one is
\* available, untried and known to offer the model.
\* (The code does not keep to this: README, section 3.)
FailoverKeepsToMain ==
  [][strategy = "failover" =>
       \A r \in Callers : call[r].pc = "pick" /\ call'[r].pc = "wait" =>
         \A k \in 0 .. call'[r].key - 1 :
           ~(Available(k) /\ k \notin call[r].tried /\ (affinity = <<>> \/ k \in Range(affinity)))]_vars
=============================================================================

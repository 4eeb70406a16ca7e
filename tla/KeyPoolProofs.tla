---------------------------- MODULE KeyPoolProofs ----------------------------
(***************************************************************************)
(* Proofs about KeyPool, for every number of keys, every set of requests,  *)
(* every threshold and every configuration: type correctness, that no key  *)
(* is lost for good where 401/403 cools, when a circuit may open, and that *)
(* a request tries every available key, each of them once.                 *)
(***************************************************************************)
EXTENDS KeyPool, SequenceTheorems, WellFoundedInduction, TLAPS

-----------------------------------------------------------------------------
(* Picking from a list.                                                    *)

LEMMA ModSmall == ASSUME NEW m \in Nat, NEW n \in Nat \ {0}, m < n PROVE m % n = m
OBVIOUS

LEMMA ModOnce == ASSUME NEW m \in Nat, NEW n \in Nat \ {0}, n <= m, m < n + n
                 PROVE  m % n = m - n
OBVIOUS

LEMMA ModType == ASSUME NEW m \in Nat, NEW n \in Nat \ {0} PROVE m % n \in 0 .. n - 1
OBVIOUS

\* A set of numbers has a least one.
LEMMA LeastNat ==
  ASSUME NEW S, S \subseteq Nat, S # {}
  PROVE  \E m \in S : \A o \in S : ~(o < m)
<1>1. PICK m \in S : \A o \in S : ~(<<o, m>> \in OpToRel(<, Nat))
  BY NatLessThanWellFounded, WFMin
<1>2. \A o \in S : o < m => <<o, m>> \in OpToRel(<, Nat)
  BY DEF OpToRel
<1>3. QED
  BY <1>1, <1>2

LEMMA NoKeys == <<>> \in Seq(Keys) /\ IsInjective(<<>>) /\ Range(<<>>) = {}
BY DEF IsInjective, Range

\* The whole pool is a list of its keys.
LEMMA AllType == All \in Seq(Keys) /\ \A k \in Keys : k + 1 \in DOMAIN All /\ All[k + 1] = k
<1>1. All \in [1 .. NumKeys -> Keys]
  BY PoolAssumption DEF All, Keys
<1>2. All \in Seq(Keys)
  BY <1>1, PoolAssumption
<1>3. QED
  BY <1>2, PoolAssumption DEF All, Keys

\* Going round a list from any place finds a key that may be picked, if there is one.
LEMMA FirstFromOpen ==
  ASSUME NEW list \in Seq(Keys), NEW tried, NEW start \in Nat, start < Len(list),
         Open(list, tried) # {}
  PROVE  \E i \in Open(list, tried) : FirstFrom(list, tried, start) = list[i]
<1> DEFINE n == Len(list)
           At(off) == ((start + off) % n) + 1
           First(off) == /\ At(off) \in Open(list, tried)
                         /\ \A o \in 0 .. off - 1 : At(o) \notin Open(list, tried)
           S == {off \in 0 .. n - 1 : At(off) \in Open(list, tried)}
<1>1. n \in Nat \ {0} /\ DOMAIN list = 1 .. n
  BY LenProperties
<1> HIDE DEF n
<1>2. PICK i \in Open(list, tried) : i \in 1 .. n
  BY <1>1 DEF Open
<1>3. \E off \in 0 .. n - 1 : At(off) = i
  <2>1. CASE start < i
    <3>1. i - 1 - start \in 0 .. n - 1 /\ start + (i - 1 - start) = i - 1
      BY <1>1, <1>2, <2>1
    <3>2. (i - 1) % n = i - 1
      BY <1>1, <1>2, ModSmall
    <3>3. At(i - 1 - start) = i
      BY <1>2, <3>1, <3>2
    <3>4. QED
      BY <3>1, <3>3
  <2>2. CASE ~(start < i)
    <3>1. /\ i - 1 - start + n \in 0 .. n - 1
          /\ start + (i - 1 - start + n) = i - 1 + n
      BY <1>1, <1>2, <2>2
    <3>2. (i - 1 + n) % n = i - 1
      <4>1. PICK m \in Nat : m = i - 1 + n
        BY <1>1, <1>2
      <4>2. n <= m /\ m < n + n /\ m - n = i - 1
        BY <1>1, <1>2, <4>1
      <4>3. m % n = m - n
        BY <1>1, <4>2, ModOnce
      <4>4. QED
        BY <4>1, <4>2, <4>3
    <3>3. At(i - 1 - start + n) = i
      BY <1>2, <3>1, <3>2
    <3>4. QED
      BY <3>1, <3>3
  <2>3. QED
    BY <2>1, <2>2
<1>4. S \subseteq Nat /\ S # {}
  <2>1. PICK off \in 0 .. n - 1 : At(off) = i
    BY <1>3
  <2>2. off \in S
    BY <1>2, <2>1
  <2>3. S \subseteq Nat
    BY <1>1
  <2>4. QED
    BY <2>2, <2>3
<1>5. PICK m \in S : \A o \in S : ~(o < m)
  BY <1>4, LeastNat
<1>6. m \in 0 .. n - 1 /\ First(m)
  <2>1. m \in 0 .. n - 1 /\ At(m) \in Open(list, tried)
    BY <1>5
  <2>2. ASSUME NEW o \in 0 .. m - 1 PROVE At(o) \notin Open(list, tried)
    <3>1. o \in 0 .. n - 1 /\ o < m
      BY <1>1, <2>1
    <3>2. QED
      BY <1>5, <3>1
  <2>3. QED
    BY <2>1, <2>2
<1> DEFINE c == CHOOSE off \in 0 .. n - 1 : First(off)
<1>7. First(c)
  BY <1>6
<1>8. FirstFrom(list, tried, start) = list[At(c)]
  BY DEF FirstFrom, n
<1>9. QED
  BY <1>7, <1>8

\* The keys a strategy picks from a list are keys of it that are available and not yet
\* tried, and there is one unless there is no such key.
LEMMA PicksOpen ==
  ASSUME strategy \in {"round_robin", "failover", "health"}, rr \in Nat,
         NEW list \in Seq(Keys), NEW tried
  PROVE  /\ \A k \in Picks(list, tried) : k \in Keys \ tried /\ Available(k)
         /\ Picks(list, tried) = {} => Open(list, tried) = {}
<1>1. \A i \in Open(list, tried) : list[i] \in Keys \ tried /\ Available(list[i])
  BY ElementOfSeq, LenProperties DEF Open
<1>2. CASE Open(list, tried) = {}
  BY <1>2 DEF Picks
<1>3. CASE Open(list, tried) # {}
  <2>1. Len(list) \in Nat \ {0}
    BY <1>3, LenProperties DEF Open
  <2>2. CASE strategy = "health"
    BY <1>1, <1>3, <2>2 DEF Picks
  <2>3. CASE strategy = "failover"
    <3>1. \E i \in Open(list, tried) : FirstFrom(list, tried, 0) = list[i]
      BY <1>3, <2>1, FirstFromOpen
    <3>2. Picks(list, tried) = {FirstFrom(list, tried, 0)}
      BY <1>3, <2>3 DEF Picks
    <3>3. QED
      BY <1>1, <3>1, <3>2
  <2>4. CASE strategy = "round_robin"
    <3>1. rr % Len(list) \in Nat /\ rr % Len(list) < Len(list)
      BY <2>1, ModType
    <3>2. \E i \in Open(list, tried) : FirstFrom(list, tried, rr % Len(list)) = list[i]
      BY <1>3, <3>1, FirstFromOpen
    <3>3. Picks(list, tried) = {FirstFrom(list, tried, rr % Len(list))}
      BY <1>3, <2>4 DEF Picks
    <3>4. QED
      BY <1>1, <3>2, <3>3
  <2>5. QED
    BY <2>2, <2>3, <2>4
<1>4. QED
  BY <1>2, <1>3

\* So are the keys a call may pick; if there is none, every available key was tried.
LEMMA ChoiceOpen ==
  ASSUME TypeOK, NEW preferred \in Seq(Keys), NEW tried
  PROVE  /\ \A k \in Choice(preferred, tried) : k \in Keys \ tried /\ Available(k)
         /\ Choice(preferred, tried) = {} => \A k \in Keys : Available(k) => k \in tried
<1>1. strategy \in {"round_robin", "failover", "health"} /\ rr \in Nat
  <2>1. [strategy |-> strategy, cools403 |-> cools403].strategy = strategy
    OBVIOUS
  <2>2. QED
    BY <2>1, PoolAssumption DEF TypeOK
<1>2. \A k \in Choice(preferred, tried) : k \in Keys \ tried /\ Available(k)
  BY <1>1, AllType, PicksOpen DEF Choice
<1>3. ASSUME Choice(preferred, tried) = {}, NEW k \in Keys, Available(k)
      PROVE  k \in tried
  <2>1. Open(All, tried) = {}
    BY <1>1, <1>3, AllType, PicksOpen DEF Choice
  <2>2. k + 1 \in DOMAIN All /\ All[k + 1] = k
    BY AllType
  <2>3. QED
    BY <1>3, <2>1, <2>2 DEF Open
<1>4. QED
  BY <1>2, <1>3

-----------------------------------------------------------------------------
(* What a result does to a key.                                            *)

KeysTyped ==
  key \in [Keys -> KeyStates] /\ streak \in [Keys -> 0 .. circuitOpenThreshold]

\* The count of a key is the count of its failures in a row.
Counted == \A k \in Keys : key[k].fails = streak[k]

\* What a step may do to the keys.
KeyStep ==
  /\ KeysTyped'
  /\ cools403 => \A k \in Keys : key'[k].disabled => key[k].disabled
  /\ Counted => /\ Counted'
                /\ \A k \in Keys : ~key[k].circuit /\ key'[k].circuit
                                     => streak'[k] = circuitOpenThreshold

\* recordResult counts a failure in the key as in the history, and opens the circuit at
\* the threshold; it takes no key out.
LEMMA RecordedKeeps ==
  ASSUME KeysTyped, NEW k \in Keys, NEW ok \in BOOLEAN, Recorded(k, ok)
  PROVE  KeyStep
<1>1. /\ key[k] \in KeyStates /\ key[k].fails \in 0 .. circuitOpenThreshold
      /\ key \in [Keys -> KeyStates] /\ streak \in [Keys -> 0 .. circuitOpenThreshold]
  BY DEF KeysTyped, KeyStates
<1>2. CASE ok
  <2>1. /\ key' = [key EXCEPT ![k].fails = 0] /\ streak' = [streak EXCEPT ![k] = 0]
    BY <1>2 DEF Recorded
  <2>2. [key[k] EXCEPT !.fails = 0] \in KeyStates /\ 0 \in 0 .. circuitOpenThreshold
    BY <1>1, PoolAssumption DEF KeyStates
  <2>3. QED
    BY <1>1, <2>1, <2>2 DEF KeyStates, KeyStep, KeysTyped, Counted
<1>3. CASE ~ok
  <2> DEFINE n == IF key[k].fails < circuitOpenThreshold THEN key[k].fails + 1
                                                         ELSE key[k].fails
             open == key[k].circuit \/ n >= circuitOpenThreshold
  <2>1. /\ key' = [key EXCEPT ![k].fails = n, ![k].circuit = open]
        /\ streak' = [streak EXCEPT ![k] = IF streak[k] < circuitOpenThreshold
                                           THEN streak[k] + 1 ELSE streak[k]]
    BY <1>1, <1>3 DEF Recorded, KeyStates
  <2>2. n \in 0 .. circuitOpenThreshold /\ (n >= circuitOpenThreshold => n = circuitOpenThreshold)
    BY <1>1, PoolAssumption
  <2>3. streak'[k] \in 0 .. circuitOpenThreshold /\ (key[k].fails = streak[k] => n = streak'[k])
    BY <2>1, <1>1, PoolAssumption
  <2>4. open \in BOOLEAN /\ (~key[k].circuit /\ open => n = circuitOpenThreshold)
    BY <2>2
  <2> HIDE DEF n, open
  <2>5. \A j \in Keys : j # k => key'[j] = key[j] /\ streak'[j] = streak[j]
    BY <1>1, <2>1
  <2>6. key'[k] = [key[k] EXCEPT !.fails = n, !.circuit = open]
    BY <1>1, <2>1
  <2>7. /\ key'[k] \in KeyStates /\ key'[k].disabled = key[k].disabled
        /\ key'[k].fails = n /\ key'[k].circuit = open
    BY <1>1, <2>2, <2>4, <2>6 DEF KeyStates
  <2>8. key' \in [Keys -> KeyStates]
    <3>1. DOMAIN key' = Keys /\ key' = [j \in Keys |-> key'[j]]
      BY <1>1, <2>1
    <3>2. QED
      BY <1>1, <2>5, <2>7, <3>1
  <2>9. streak' \in [Keys -> 0 .. circuitOpenThreshold]
    BY <1>1, <2>1, <2>3, <2>5
  <2>10. QED
    BY <2>3, <2>4, <2>5, <2>7, <2>8, <2>9 DEF KeyStep, KeysTyped, Counted
<1>4. QED
  BY <1>2, <1>3

\* A step that leaves the keys alone.
LEMMA KeysAside == ASSUME KeysTyped, UNCHANGED <<key, streak>> PROVE KeyStep
BY DEF KeyStep, KeysTyped, Counted

\* One that sets one of a key's times, or takes it back.
LEMMA KeyTimed ==
  ASSUME KeysTyped, NEW k \in Keys, NEW s \in KeyStates, streak' = streak,
         key' = [key EXCEPT ![k] = s], s.fails = key[k].fails,
         s.disabled = key[k].disabled, s.circuit => key[k].circuit
  PROVE  KeyStep
BY DEF KeyStep, KeysTyped, Counted

\* A key that failed with 401/403 cools down with a clean record, or is taken out; the
\* latter only where 401/403 has no cooling time.
LEMMA AuthFailKeeps == ASSUME KeysTyped, NEW k \in Keys, AuthFail(k) PROVE KeyStep
<1>1. key[k] \in KeyStates
  BY DEF KeysTyped
<1>2. CASE cools403
  <2> DEFINE s == [Fresh EXCEPT !.disabled = key[k].disabled, !.auth = TRUE]
  <2>1. key' = [key EXCEPT ![k] = s] /\ streak' = [streak EXCEPT ![k] = 0]
    BY <1>2 DEF AuthFail
  <2>2. s \in KeyStates /\ s.disabled = key[k].disabled /\ s.fails = 0 /\ ~s.circuit
    <3>1. key[k].disabled \in BOOLEAN /\ 0 \in 0 .. circuitOpenThreshold
      BY <1>1, PoolAssumption DEF KeyStates
    <3>2. CASE key[k].disabled = TRUE
      BY <3>1, <3>2 DEF KeyStates, Fresh
    <3>3. CASE key[k].disabled = FALSE
      BY <3>1, <3>3 DEF KeyStates, Fresh
    <3>4. QED
      BY <3>1, <3>2, <3>3
  <2>3. key' = [key EXCEPT ![k] = s] /\ 0 \in 0 .. circuitOpenThreshold
    BY <2>1, PoolAssumption
  <2> HIDE DEF s
  <2>4. QED
    BY <2>1, <2>2, <2>3 DEF KeyStep, KeysTyped, Counted
<1>3. CASE ~cools403
  <2> DEFINE s == [key[k] EXCEPT !.disabled = TRUE]
  <2>1. s \in KeyStates /\ s.fails = key[k].fails /\ s.circuit = key[k].circuit
    BY <1>1 DEF KeyStates
  <2>2. key' = [key EXCEPT ![k] = s] /\ streak' = streak
    BY <1>1, <1>3 DEF AuthFail, KeysTyped
  <2> HIDE DEF s
  <2>3. QED
    BY <1>3, <2>1, <2>2 DEF KeyStep, KeysTyped, Counted
<1>4. QED
  BY <1>2, <1>3

LEMMA MarkKeeps == ASSUME TypeOK, NEW a \in Actors, Mark(a) PROVE KeyStep
<1> DEFINE k == call[a].key
<1>1. KeysTyped /\ k \in Keys /\ call[a].out \in {"auth", "limit", "absent"}
  BY DEF TypeOK, KeysTyped, CallOK, Mark
<1>2. CASE call[a].out = "auth"
  <2>1. AuthFail(k)
    BY <1>2 DEF Mark
  <2>2. QED
    BY <1>1, <2>1, AuthFailKeeps
<1>3. CASE call[a].out = "limit"
  <2> DEFINE s == [key[k] EXCEPT !.cooling = TRUE]
  <2>1. key[k] \in KeyStates
    BY <1>1 DEF KeysTyped
  <2>2. /\ s \in KeyStates /\ s.fails = key[k].fails /\ s.disabled = key[k].disabled
        /\ s.circuit = key[k].circuit
    BY <2>1 DEF KeyStates
  <2>3. key' = [key EXCEPT ![k] = s] /\ streak' = streak
    BY <1>1, <1>3 DEF Mark, KeysTyped
  <2> HIDE DEF s, k
  <2>4. QED
    BY <1>1, <2>2, <2>3, KeyTimed
<1>4. CASE call[a].out = "absent"
  <2>1. UNCHANGED <<key, streak>>
    BY <1>4 DEF Mark
  <2>2. QED
    BY <1>1, <2>1, KeysAside
<1>5. QED
  BY <1>1, <1>2, <1>3, <1>4

LEMMA ExpireKeeps == ASSUME KeysTyped, NEW k \in Keys, Expire(k) PROVE KeyStep
<1>1. PICK f \in {"cooling", "auth", "circuit"} : key' = [key EXCEPT ![k][f] = FALSE]
  BY DEF Expire
<1> DEFINE s == [key[k] EXCEPT ![f] = FALSE]
<1>2. key[k] \in KeyStates
  BY DEF KeysTyped
<1>3. /\ s \in KeyStates /\ s.fails = key[k].fails /\ s.disabled = key[k].disabled
      /\ s.circuit => key[k].circuit
  BY <1>2 DEF KeyStates
<1>4. key' = [key EXCEPT ![k] = s] /\ streak' = streak
  BY <1>1 DEF Expire, KeysTyped
<1> HIDE DEF s
<1>5. QED
  BY <1>3, <1>4, KeyTimed

\* A restore makes every key new.
LEMMA ResetKeeps == ASSUME KeysTyped, ResetKeys PROVE KeyStep
<1>1. /\ Fresh \in KeyStates /\ Fresh.fails = 0 /\ ~Fresh.disabled /\ ~Fresh.circuit
      /\ 0 \in 0 .. circuitOpenThreshold
  BY PoolAssumption DEF Fresh, KeyStates
<1>2. QED
  BY <1>1 DEF ResetKeys, KeyStep, KeysTyped, Counted

LEMMA KeysStep == TypeOK /\ [Next]_vars => KeyStep
<1> SUFFICES ASSUME TypeOK, [Next]_vars PROVE KeyStep
  OBVIOUS
<1> USE DEF Actors
<1>1. KeysTyped
  BY DEF TypeOK, KeysTyped
<1>2. ASSUME NEW a \in Actors, Begin(a) \/ Pick(a) PROVE KeyStep
  BY <1>1, <1>2, KeysAside DEF Begin, Pick
<1>3. ASSUME NEW a \in Actors, Mark(a) PROVE KeyStep
  BY <1>3, MarkKeeps
<1>4. ASSUME NEW r \in Callers, GiveUp(r) PROVE KeyStep
  BY <1>1, <1>4, KeysAside DEF GiveUp
<1>5. ASSUME NEW r \in Callers, NEW out \in Answers, Answered(r, out) PROVE KeyStep
  <2>1. call[r].key \in Keys /\ Recorded(call[r].key, out = "ok")
    BY <1>5 DEF Answered, TypeOK, CallOK
  <2>2. QED
    BY <1>1, <2>1, RecordedKeeps
<1>6. ASSUME NEW r \in Callers, NEW ok \in BOOLEAN, StreamEnds(r, ok) PROVE KeyStep
  <2>1. call[r].key \in Keys
    BY <1>6 DEF StreamEnds, TypeOK, CallOK
  <2>2. QED
    BY <1>1, <1>6, <2>1, KeysAside, RecordedKeeps DEF StreamEnds
<1>7. ASSUME NEW out \in Answers, NEW has \in BOOLEAN, ListAnswered(out, has) PROVE KeyStep
  BY <1>1, <1>7, KeysAside DEF ListAnswered
<1>8. CASE ListEnds \/ ProbeBegin
  BY <1>1, <1>8, KeysAside DEF ListEnds, ProbeBegin
<1>9. ASSUME NEW k \in Keys, NEW out \in {"ok", "failed", "skipped"}, ProbeKey(k, out)
      PROVE  KeyStep
  BY <1>1, <1>9, KeysAside, RecordedKeeps DEF ProbeKey
<1>10. CASE ResetKeys
  BY <1>1, <1>10, ResetKeeps
<1>11. ASSUME NEW k \in Keys, Expire(k) PROVE KeyStep
  BY <1>1, <1>11, ExpireKeeps
<1>12. CASE UNCHANGED vars
  BY <1>1, <1>12, KeysAside DEF vars
<1>13. QED
  BY <1>2, <1>3, <1>4, <1>5, <1>6, <1>7, <1>8, <1>9, <1>10, <1>11, <1>12
  DEF Next, RequestStep, ListStep, ProbeStep

-----------------------------------------------------------------------------
(* Type correctness.                                                       *)

\* A list of distinct keys grows by one that is not in it.
LEMMA AppendDistinct ==
  ASSUME NEW list \in Seq(Keys), IsInjective(list), NEW k \in Keys, k \notin Range(list)
  PROVE  /\ Append(list, k) \in Seq(Keys) /\ IsInjective(Append(list, k))
         /\ Range(Append(list, k)) = Range(list) \cup {k}
<1> DEFINE new == Append(list, k)
<1>1. /\ new \in Seq(Keys) /\ Len(new) = Len(list) + 1 /\ new[Len(list) + 1] = k
      /\ \A i \in 1 .. Len(list) : new[i] = list[i]
  BY AppendProperties
<1>2. Len(list) \in Nat /\ DOMAIN list = 1 .. Len(list) /\ DOMAIN new = 1 .. Len(list) + 1
  BY <1>1, LenProperties
<1> HIDE DEF new
<1>3. \A i \in DOMAIN list : new[i] # k
  BY <1>1, <1>2 DEF Range
<1>4. \A i \in DOMAIN new : i \in DOMAIN list \/ i = Len(list) + 1
  BY <1>2
<1>5. IsInjective(new)
  BY <1>1, <1>2, <1>3, <1>4 DEF IsInjective
<1>6. Range(new) = Range(list) \cup {k}
  BY <1>1, <1>2, <1>4 DEF Range
<1>7. QED
  BY <1>1, <1>5, <1>6 DEF new

CallsTyped == call \in [Actors -> CallStates] /\ \A a \in Actors : CallOK(call[a])

\* A step of one call.
LEMMA CallMoves ==
  ASSUME TypeOK, NEW a \in Actors, NEW c \in CallStates, CallOK(c),
         call' = [call EXCEPT ![a] = c]
  PROVE  CallsTyped'
<1>1. call' \in [Actors -> CallStates]
  BY DEF TypeOK
<1>2. \A b \in Actors : call'[b] = IF b = a THEN c ELSE call[b]
  BY DEF TypeOK
<1>3. \A b \in Actors : CallOK(call'[b])
  BY <1>2 DEF TypeOK
<1>4. QED
  BY <1>1, <1>3 DEF CallsTyped, CallOK

LEMMA IdleType == Idle \in CallStates /\ CallOK(Idle) /\ Idle.tried = {} /\ Idle.got = <<>>
<1>1. Idle \in CallStates
  BY NoKeys DEF Idle, CallStates
<1>2. QED
  BY <1>1, NoKeys DEF Idle, CallOK

LEMMA TypeInit == Init => TypeOK
<1> SUFFICES ASSUME Init PROVE TypeOK
  OBVIOUS
<1>1. [strategy |-> strategy, cools403 |-> cools403] \in Setups
  <2>1. PICK s \in Setups : strategy = s.strategy /\ cools403 = s.cools403
    BY DEF Init
  <2>2. s = [strategy |-> strategy, cools403 |-> cools403]
    BY <2>1, PoolAssumption
  <2>3. QED
    BY <2>2
<1>2. KeysTyped
  BY PoolAssumption DEF Init, KeysTyped, Fresh, KeyStates
<1>3. rr \in 0 .. RRMod - 1
  BY PoolAssumption DEF Init
<1>4. call \in [Actors -> CallStates] /\ \A a \in Actors : CallOK(call[a])
  BY IdleType DEF Init
<1>5. calls \in [requests : 0 .. MaxCalls, upkeep : 0 .. MaxUpkeep]
  BY PoolAssumption DEF Init
<1>6. QED
  BY <1>1, <1>2, <1>3, <1>4, <1>5, NoKeys DEF Init, TypeOK, KeysTyped

LEMMA BeginTypes == ASSUME TypeOK, NEW a \in Actors, Begin(a) PROVE CallsTyped'
<1>1. PICK s \in BOOLEAN : call' = [call EXCEPT ![a] = [Idle EXCEPT !.pc = "pick", !.stream = s]]
  BY DEF Begin
<1> DEFINE c == [Idle EXCEPT !.pc = "pick", !.stream = s]
<1>2. c \in CallStates /\ c.pc = "pick" /\ c.got = <<>> /\ c.tried = {}
  BY IdleType DEF CallStates, Idle
<1> HIDE DEF c
<1>3. CallOK(c)
  BY <1>2, NoKeys DEF CallOK
<1>4. call' = [call EXCEPT ![a] = c]
  BY <1>1 DEF c
<1>5. QED
  BY <1>2, <1>3, <1>4, CallMoves

\* The key that is picked was not tried before, nor is it among those that named the model.
LEMMA PickTypes ==
  ASSUME TypeOK, NEW a \in Actors, Pick(a)
  PROVE  /\ CallsTyped' /\ rr' \in 0 .. RRMod - 1
         /\ call'[a].pc = "wait" => call'[a].key \notin call[a].tried
<1> DEFINE preferred == IF a = Lister THEN <<>> ELSE affinity
<1>1. PICK k \in Choice(preferred, call[a].tried) :
        /\ call' = [call EXCEPT ![a].pc = "wait", ![a].key = k, ![a].tried = @ \cup {k}]
        /\ rr' = IF strategy = "round_robin" THEN (rr + 1) % RRMod ELSE rr
  BY DEF Pick
<1>2. preferred \in Seq(Keys)
  BY NoKeys DEF TypeOK
<1> HIDE DEF preferred
<1>3. k \in Keys \ call[a].tried
  BY <1>2, ChoiceOpen
<1> DEFINE c == [call[a] EXCEPT !.pc = "wait", !.key = k, !.tried = call[a].tried \cup {k}]
<1>4. call[a] \in CallStates /\ CallOK(call[a])
  BY DEF TypeOK
<1>5. /\ c \in CallStates /\ c.pc = "wait" /\ c.key = k /\ c.tried = call[a].tried \cup {k}
      /\ c.got = call[a].got
  BY <1>3, <1>4 DEF CallStates
<1>6. call' = [call EXCEPT ![a] = c]
  BY <1>1 DEF TypeOK
<1> HIDE DEF c
<1>7. CallOK(c)
  BY <1>3, <1>4, <1>5 DEF CallOK
<1>8. rr' \in 0 .. RRMod - 1
  <2>1. (rr + 1) % RRMod \in 0 .. RRMod - 1
    BY ModType, PoolAssumption DEF TypeOK
  <2>2. QED
    BY <1>1, <2>1 DEF TypeOK
<1>9. call'[a] = c
  BY <1>6 DEF TypeOK
<1>10. QED
  BY <1>3, <1>5, <1>6, <1>7, <1>8, <1>9, CallMoves

\* A call that ends.
LEMMA EndTypes ==
  ASSUME TypeOK, NEW a \in Actors, call' = [call EXCEPT ![a] = Idle]
  PROVE  CallsTyped'
BY IdleType, CallMoves

\* A call that goes on to another key, and one that marks the key it called.
LEMMA AgainTypes ==
  ASSUME NEW c \in CallStates, CallOK(c)
  PROVE  /\ [c EXCEPT !.pc = "pick", !.key = None] \in CallStates
         /\ CallOK([c EXCEPT !.pc = "pick", !.key = None])
         /\ [c EXCEPT !.pc = "pick", !.key = None, !.out = None] \in CallStates
         /\ CallOK([c EXCEPT !.pc = "pick", !.key = None, !.out = None])
BY DEF CallStates, CallOK

LEMMA ToMarkTypes ==
  ASSUME NEW c \in CallStates, CallOK(c), c.pc = "wait",
         NEW out \in {"auth", "limit", "absent"}
  PROVE  /\ [c EXCEPT !.pc = "mark", !.out = out] \in CallStates
         /\ CallOK([c EXCEPT !.pc = "mark", !.out = out])
BY DEF CallStates, CallOK, Answers

LEMMA AnsweredTypes ==
  ASSUME TypeOK, NEW r \in Callers, NEW out \in Answers, Answered(r, out)
  PROVE  CallsTyped'
<1> DEFINE c == call[r]
<1>1. r \in Actors /\ c \in CallStates /\ CallOK(c) /\ c.pc = "wait" /\ c.key \in Keys
  BY DEF Answered, Actors, TypeOK, CallOK
<1>2. CASE out = "ok"
  <2> DEFINE d == [Idle EXCEPT !.pc = "stream", !.key = c.key]
  <2>1. /\ d \in CallStates /\ d.pc = "stream" /\ d.key = c.key /\ d.got = <<>> /\ d.tried = {}
    BY <1>1, IdleType DEF CallStates, Idle
  <2>2. call' = [call EXCEPT ![r] = d] \/ call' = [call EXCEPT ![r] = Idle]
    BY <1>2 DEF Answered
  <2> HIDE DEF d, c
  <2>3. CallOK(d)
    BY <1>1, <2>1, NoKeys DEF CallOK
  <2>4. QED
    BY <1>1, <2>1, <2>2, <2>3, EndTypes, CallMoves
<1>3. CASE out = "bad"
  BY <1>1, <1>3, EndTypes DEF Answered
<1>4. CASE out = "upstream"
  <2>1. call' = [call EXCEPT ![r] = [c EXCEPT !.pc = "pick", !.key = None]]
    BY <1>4 DEF Answered
  <2> HIDE DEF c
  <2>2. QED
    BY <1>1, <2>1, AgainTypes, CallMoves
<1>5. CASE out \in {"auth", "limit", "absent"}
  <2>1. call' = [call EXCEPT ![r] = [c EXCEPT !.pc = "mark", !.out = out]]
    BY <1>5 DEF Answered
  <2> HIDE DEF c
  <2>2. QED
    BY <1>1, <1>5, <2>1, ToMarkTypes, CallMoves
<1>6. QED
  BY <1>2, <1>3, <1>4, <1>5 DEF Answers

LEMMA MarkTypes == ASSUME TypeOK, NEW a \in Actors, Mark(a) PROVE CallsTyped'
<1>1. call[a] \in CallStates /\ CallOK(call[a])
  BY DEF TypeOK
<1>2. \/ call' = [call EXCEPT ![a] = Idle]
      \/ call' = [call EXCEPT ![a] = [call[a] EXCEPT !.pc = "pick", !.key = None, !.out = None]]
  BY DEF Mark
<1>3. QED
  BY <1>1, <1>2, AgainTypes, EndTypes, CallMoves

\* A listing notes a key that named the model; it asked it just now for the first time.
LEMMA ListAnsweredTypes ==
  ASSUME TypeOK, NEW out \in Answers, NEW has \in BOOLEAN, ListAnswered(out, has)
  PROVE  CallsTyped'
<1> DEFINE c == call[Lister]
<1>1. /\ Lister \in Actors /\ c \in CallStates /\ CallOK(c) /\ c.pc = "wait"
      /\ c.key \in Keys /\ c.key \in c.tried \ Range(c.got)
  BY DEF ListAnswered, Actors, TypeOK, CallOK
<1>2. CASE out = "ok"
  <2> DEFINE got == IF has THEN Append(c.got, c.key) ELSE c.got
             d == [c EXCEPT !.pc = "pick", !.key = None, !.some = TRUE, !.got = got]
  <2>1. call' = [call EXCEPT ![Lister] = d]
    BY <1>2 DEF ListAnswered
  <2>2. /\ c.got \in Seq(Keys) /\ IsInjective(c.got) /\ Range(c.got) \subseteq c.tried
    BY <1>1 DEF CallStates, CallOK
  <2> HIDE DEF c
  <2>3. got \in Seq(Keys) /\ IsInjective(got) /\ Range(got) \subseteq c.tried
    BY <1>1, <2>2, AppendDistinct
  <2> HIDE DEF got
  <2>4. d \in CallStates /\ d.pc = "pick" /\ d.got = got /\ d.tried = c.tried
    BY <1>1, <2>3 DEF CallStates
  <2> HIDE DEF d
  <2>5. CallOK(d)
    BY <2>3, <2>4 DEF CallOK
  <2>6. QED
    BY <1>1, <2>1, <2>4, <2>5, CallMoves
<1>3. CASE out \in {"auth", "limit"}
  <2>1. call' = [call EXCEPT ![Lister] = [c EXCEPT !.pc = "mark", !.out = out]]
    BY <1>3 DEF ListAnswered
  <2> HIDE DEF c
  <2>2. QED
    BY <1>1, <1>3, <2>1, ToMarkTypes, CallMoves
<1>4. CASE out \notin {"ok", "auth", "limit"}
  <2>1. call' = [call EXCEPT ![Lister] = [c EXCEPT !.pc = "pick", !.key = None]]
    BY <1>4 DEF ListAnswered
  <2> HIDE DEF c
  <2>2. QED
    BY <1>1, <2>1, AgainTypes, CallMoves
<1>5. QED
  BY <1>2, <1>3, <1>4

\* The catalogue a listing leaves: the keys that named the model.
LEMMA ListEndsTypes ==
  ASSUME TypeOK, ListEnds
  PROVE  /\ CallsTyped' /\ affinity' \in Seq(Keys) /\ IsInjective(affinity')
         /\ listed' \in BOOLEAN /\ (affinity' # <<>> => listed')
<1>1. Lister \in Actors /\ call[Lister].got \in Seq(Keys) /\ IsInjective(call[Lister].got)
  BY DEF Actors, TypeOK, CallStates, CallOK
<1>2. CallsTyped'
  BY <1>1, EndTypes DEF ListEnds
<1>3. CASE affinity' = call[Lister].got /\ listed' = (call[Lister].got # <<>>)
  BY <1>1, <1>2, <1>3
<1>4. CASE UNCHANGED <<affinity, listed>>
  BY <1>2, <1>4 DEF TypeOK
<1>5. QED
  BY <1>3, <1>4 DEF ListEnds

\* What is left for a step to keep, once its keys and its calls are known to be typed.
LEMMA TypeParts ==
  ASSUME TypeOK, KeysTyped', CallsTyped', UNCHANGED <<strategy, cools403>>,
         rr' \in 0 .. RRMod - 1,
         affinity' \in Seq(Keys), IsInjective(affinity'),
         listed' \in BOOLEAN, affinity' # <<>> => listed',
         probing' \subseteq Keys,
         calls' \in [requests : 0 .. MaxCalls, upkeep : 0 .. MaxUpkeep]
  PROVE  TypeOK'
BY DEF TypeOK, KeysTyped, CallsTyped, IsInjective

LEMMA CountTypes ==
  ASSUME TypeOK, CountRequest \/ CountUpkeep
  PROVE  calls' \in [requests : 0 .. MaxCalls, upkeep : 0 .. MaxUpkeep]
<1>1. calls \in [requests : 0 .. MaxCalls, upkeep : 0 .. MaxUpkeep]
  BY DEF TypeOK
<1>2. CASE CountRequest
  <2>1. calls.requests + 1 \in 0 .. MaxCalls /\ calls' = [calls EXCEPT !.requests = calls.requests + 1]
    BY <1>1, <1>2, PoolAssumption DEF CountRequest
  <2>2. QED
    BY <1>1, <2>1
<1>3. CASE CountUpkeep
  <2>1. calls.upkeep + 1 \in 0 .. MaxUpkeep /\ calls' = [calls EXCEPT !.upkeep = calls.upkeep + 1]
    BY <1>1, <1>3, PoolAssumption DEF CountUpkeep
  <2>2. QED
    BY <1>1, <2>1
<1>4. QED
  BY <1>2, <1>3

LEMMA TypeStep == TypeOK /\ [Next]_vars => TypeOK'
<1> SUFFICES ASSUME TypeOK, [Next]_vars PROVE TypeOK'
  OBVIOUS
<1>1. KeysTyped'
  BY KeysStep DEF KeyStep
<1>2. /\ rr \in 0 .. RRMod - 1
      /\ affinity \in Seq(Keys) /\ IsInjective(affinity)
      /\ listed \in BOOLEAN /\ (affinity # <<>> => listed)
      /\ probing \subseteq Keys /\ calls \in [requests : 0 .. MaxCalls, upkeep : 0 .. MaxUpkeep]
      /\ CallsTyped
  BY DEF TypeOK, CallsTyped
<1>3. call' = call => CallsTyped'
  BY <1>2 DEF CallsTyped, CallOK
<1> USE DEF Actors
<1>4. ASSUME NEW a \in Actors, Begin(a) PROVE TypeOK'
  BY <1>1, <1>2, <1>4, BeginTypes, CountTypes, TypeParts DEF Begin
<1>5. ASSUME NEW a \in Actors, Pick(a) PROVE TypeOK'
  BY <1>1, <1>2, <1>5, PickTypes, TypeParts DEF Pick
<1>6. ASSUME NEW a \in Actors, Mark(a) PROVE TypeOK'
  BY <1>1, <1>2, <1>6, MarkTypes, TypeParts DEF Mark
<1>7. ASSUME NEW r \in Callers, GiveUp(r) PROVE TypeOK'
  BY <1>1, <1>2, <1>7, EndTypes, TypeParts DEF GiveUp
<1>8. ASSUME NEW r \in Callers, NEW out \in Answers, Answered(r, out) PROVE TypeOK'
  BY <1>1, <1>2, <1>8, AnsweredTypes, TypeParts DEF Answered
<1>9. ASSUME NEW r \in Callers, NEW ok \in BOOLEAN, StreamEnds(r, ok) PROVE TypeOK'
  BY <1>1, <1>2, <1>9, EndTypes, TypeParts DEF StreamEnds
<1>10. ASSUME NEW out \in Answers, NEW has \in BOOLEAN, ListAnswered(out, has) PROVE TypeOK'
  BY <1>1, <1>2, <1>10, ListAnsweredTypes, TypeParts DEF ListAnswered
<1>11. CASE ListEnds
  BY <1>1, <1>2, <1>11, ListEndsTypes, TypeParts DEF ListEnds
<1>12. CASE ProbeBegin
  BY <1>1, <1>2, <1>3, <1>12, CountTypes, TypeParts DEF ProbeBegin
<1>13. ASSUME NEW k \in Keys, NEW out \in {"ok", "failed", "skipped"}, ProbeKey(k, out)
       PROVE  TypeOK'
  BY <1>1, <1>2, <1>3, <1>13, TypeParts DEF ProbeKey
<1>14. CASE ResetKeys
  BY <1>1, <1>2, <1>3, <1>14, CountTypes, TypeParts DEF ResetKeys
<1>15. ASSUME NEW k \in Keys, Expire(k) PROVE TypeOK'
  BY <1>1, <1>2, <1>3, <1>15, TypeParts DEF Expire
<1>16. CASE UNCHANGED vars
  BY <1>1, <1>2, <1>3, <1>16, TypeParts DEF vars
<1>17. QED
  BY <1>4, <1>5, <1>6, <1>7, <1>8, <1>9, <1>10, <1>11, <1>12, <1>13, <1>14, <1>15, <1>16
  DEF Next, RequestStep, ListStep, ProbeStep

\* The pool keeps its types: in particular a key that is waited for, or whose stream is
\* followed, is a key of the pool, and the keys that offer a model are named once.
THEOREM TypeCorrect == Spec => []TypeOK
BY TypeInit, TypeStep, PTL DEF Spec

-----------------------------------------------------------------------------
(* What happens to the keys.                                               *)

LEMMA CountedInit == Init => Counted
BY DEF Init, Counted, Fresh

\* With a cooling time configured for 401/403 (custom.go:64) no key is ever
\* taken out for good: authFail disables one without it only.
THEOREM KeysRecover == Spec => []EveryKeyRecovers
<1>1. Init => TypeOK /\ EveryKeyRecovers
  BY TypeInit DEF Init, EveryKeyRecovers, Fresh
<1>2. TypeOK /\ EveryKeyRecovers /\ [Next]_vars => (TypeOK /\ EveryKeyRecovers)'
  <2> SUFFICES ASSUME TypeOK, EveryKeyRecovers, [Next]_vars
               PROVE  (TypeOK /\ EveryKeyRecovers)'
    OBVIOUS
  <2>1. TypeOK' /\ KeyStep
    BY TypeStep, KeysStep
  <2>2. cools403' = cools403
    <3>1. [strategy |-> strategy, cools403 |-> cools403].cools403 = cools403
      OBVIOUS
    <3>2. QED
      BY DEF Next, RequestStep, ListStep, ProbeStep, Begin, Pick, GiveUp, Mark, Answered,
             StreamEnds, ListEnds, ListAnswered, ProbeBegin, ProbeKey, ResetKeys, Expire, vars
  <2>3. QED
    BY <2>1, <2>2 DEF KeyStep, EveryKeyRecovers
<1>3. QED
  BY <1>1, <1>2, PTL DEF Spec

\* A circuit opens only after the threshold of failures in a row that were recorded since the
\* key's last success, restore or 401/403 cooling time (recordResult, keypool.go:241-275).
THEOREM CircuitsNeedFailures == Spec => CircuitNeedsFailures
<1>1. Init => TypeOK /\ Counted
  BY TypeInit, CountedInit
<1>2. TypeOK /\ Counted /\ [Next]_vars => (TypeOK /\ Counted)'
  BY TypeStep, KeysStep DEF KeyStep
<1>3. TypeOK /\ Counted /\ [Next]_vars =>
        [\A k \in Keys : ~key[k].circuit /\ key'[k].circuit
                         => streak'[k] = circuitOpenThreshold]_vars
  BY KeysStep DEF KeyStep
<1>4. QED
  BY <1>1, <1>2, <1>3, PTL DEF Spec, CircuitNeedsFailures

-----------------------------------------------------------------------------
(* Which keys a call tries.                                                *)

\* What a step does to a call that is about to pick a key.
CallStep ==
  \A a \in Actors :
    call[a].pc = "pick" =>
      /\ call'[a].pc = "wait" => call'[a].key \notin call[a].tried
      /\ call'[a].pc = "idle" => \A k \in Keys : Available(k) => k \in call[a].tried

\* A step that moves no call, or one that has a key already.
LEMMA CallsAside ==
  ASSUME TypeOK, \A a \in Actors : call'[a] = call[a] \/ call[a].pc # "pick"
  PROVE  CallStep
BY DEF CallStep

LEMMA CallOther ==
  ASSUME TypeOK, NEW a \in Actors, NEW c, call' = [call EXCEPT ![a] = c]
  PROVE  call'[a] = c /\ \A b \in Actors : b # a => call'[b] = call[b]
BY DEF TypeOK

LEMMA PickStep == ASSUME TypeOK, NEW a \in Actors, Pick(a) PROVE CallStep
<1>1. call'[a].pc = "wait" /\ \A b \in Actors : b # a => call'[b] = call[b]
  BY DEF Pick, TypeOK, CallStates
<1>2. call'[a].key \notin call[a].tried
  BY <1>1, PickTypes
<1>3. QED
  BY <1>1, <1>2 DEF CallStep

LEMMA ExhaustedStep ==
  ASSUME TypeOK, NEW a \in Actors, NEW preferred \in Seq(Keys),
         Choice(preferred, call[a].tried) = {}, call' = [call EXCEPT ![a] = Idle]
  PROVE  CallStep
<1>1. call'[a].pc = "idle" /\ \A b \in Actors : b # a => call'[b] = call[b]
  <2>1. Idle.pc = "idle"
    BY DEF Idle
  <2>2. QED
    BY <2>1, CallOther
<1>2. \A k \in Keys : Available(k) => k \in call[a].tried
  BY ChoiceOpen
<1>3. QED
  BY <1>1, <1>2 DEF CallStep

LEMMA CallsStep == TypeOK /\ [Next]_vars => CallStep
<1> SUFFICES ASSUME TypeOK, [Next]_vars PROVE CallStep
  OBVIOUS
<1> USE DEF Actors
<1>1. ASSUME NEW a \in Actors, Begin(a) PROVE CallStep
  BY <1>1, CallsAside, CallOther DEF Begin
<1>2. ASSUME NEW a \in Actors, Pick(a) PROVE CallStep
  BY <1>2, PickStep
<1>3. ASSUME NEW a \in Actors, Mark(a) PROVE CallStep
  BY <1>3, CallsAside, CallOther DEF Mark
<1>4. ASSUME NEW r \in Callers, GiveUp(r) PROVE CallStep
  BY <1>4, ExhaustedStep DEF GiveUp, TypeOK
<1>5. ASSUME NEW r \in Callers, NEW out \in Answers, Answered(r, out) PROVE CallStep
  BY <1>5, CallsAside, CallOther DEF Answered
<1>6. ASSUME NEW r \in Callers, NEW ok \in BOOLEAN, StreamEnds(r, ok) PROVE CallStep
  BY <1>6, CallsAside, CallOther DEF StreamEnds
<1>7. ASSUME NEW out \in Answers, NEW has \in BOOLEAN, ListAnswered(out, has) PROVE CallStep
  BY <1>7, CallsAside, CallOther DEF ListAnswered
<1>8. CASE ListEnds
  BY <1>8, NoKeys, ExhaustedStep DEF ListEnds
<1>9. CASE ProbeBegin \/ ProbeStep \/ ResetKeys
  BY <1>9, CallsAside DEF ProbeBegin, ProbeStep, ProbeKey, ResetKeys
<1>10. ASSUME NEW k \in Keys, Expire(k) PROVE CallStep
  BY <1>10, CallsAside DEF Expire
<1>11. CASE UNCHANGED vars
  BY <1>11, CallsAside DEF vars
<1>12. QED
  BY <1>1, <1>2, <1>3, <1>4, <1>5, <1>6, <1>7, <1>8, <1>9, <1>10, <1>11
  DEF Next, RequestStep, ListStep

\* withKeys (custom.go:538-582): a request gives up only when it has tried every key that is
\* available at that moment, whatever the catalogue says about who offers the model.
THEOREM GivesUpWhenExhausted == Spec => GiveUpOnlyWhenExhausted
<1>1. TypeOK /\ [Next]_vars =>
        [\A r \in Callers : call[r].pc = "pick" /\ call'[r].pc = "idle" =>
           \A k \in Keys : Available(k) => k \in call[r].tried]_vars
  BY CallsStep DEF CallStep, Actors
<1>2. QED
  BY <1>1, TypeCorrect, PTL DEF Spec, GiveUpOnlyWhenExhausted

\* No request or listing calls a key twice, so that each comes to an end after at most as
\* many calls as there are keys.
THEOREM NoKeyTwice == Spec => EachKeyOnce
<1>1. TypeOK /\ [Next]_vars =>
        [\A a \in Actors : call[a].pc = "pick" /\ call'[a].pc = "wait" =>
           call'[a].key \notin call[a].tried]_vars
  BY CallsStep DEF CallStep
<1>2. QED
  BY <1>1, TypeCorrect, PTL DEF Spec, EachKeyOnce
=============================================================================

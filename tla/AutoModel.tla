------------------------------ MODULE AutoModel ------------------------------
(***************************************************************************)
(* The virtual model "auto": which of the models the catalogue shows take  *)
(* part (autoCandidateModels), which of them hold the conversation         *)
(* (effContextLimit), the chain a request walks (buildAutoChain, with the  *)
(* smooth weighted round robin of autoSWRRPick), the walk itself           *)
(* (autoNextModel), and what a refusal for length teaches                  *)
(* (learnContextFailure), while the operator changes the configuration and *)
(* models come and go.                                                     *)
(*                                                                         *)
(* The rate of success and the latency of a model are those of one without *)
(* samples, 1 and 0: no vendor of this version names a node, and without a *)
(* node recordModelFeedback returns at once. So a score is the weight.     *)
(***************************************************************************)
EXTENDS Integers, Sequences, FiniteSets, FiniteSetsExt, SequencesExt

CONSTANTS
    Models,     \* the models' names, as numbers: the order of Display
    ShownAs,    \* displayModelName: an alias, or the name without "-free"
    Strategies, \* the strategies an operator may choose
    Weights,    \* the weights an operator may give, 0 to 10
    Sizes,      \* the estimates of a conversation's length, in tokens
    Windows,    \* the context windows an operator may give
    Default,    \* defaultAutoContextTokens
    MaxSwitches,\* maxAutoSwitches
    MaxChanges, \* bound: changes of the configuration, the catalogue, the limits
    KeepFactor, KeepSlack \* the bound of autoSWRRCur, 3 and 8

ASSUME AutoModelAssumption ==
    /\ Models \subseteq Nat /\ IsFiniteSet(Models)
    /\ ShownAs \in [Models -> Nat]
    /\ Strategies \subseteq {"balanced", "speed", "quality"}
    /\ Weights \subseteq 0..10
    /\ Sizes \subseteq Nat \ {0} /\ Windows \subseteq Nat \ {0}
    /\ Default \in Nat \ {0} /\ MaxSwitches \in Nat
    /\ MaxChanges \in Nat /\ KeepFactor \in Nat \ {0} /\ KeepSlack \in Nat

VARIABLES
    cfg,     \* AutoModelCfg: strategy, the weights and the windows
    visible, \* the models the catalogue shows that the operator has ticked
    cur,     \* autoSWRRCur
    learned, \* autoLearnedUpper, by names as displayModelName gives them
    request, \* the request on its way: its length, its chain, its next model
    refused, \* history: the shortest conversation each model refused
    owed,    \* history: what each model gained since it was last picked or
             \* lost its credit
    changes

autoVars == <<cfg, visible, cur, learned, request, refused, owed, changes>>

NoRequest == [on |-> FALSE, est |-> 0, fallback |-> FALSE, chain |-> << >>, switched |-> 0]

Zero == [m \in Models |-> 0]

AutoInit ==
    /\ cfg \in [strategy : Strategies, weight : [Models -> {5}], window : [Models -> {Default}]]
    /\ visible = Models
    /\ cur = << >> /\ learned = << >>
    /\ request = NoRequest /\ refused = Zero /\ owed = Zero /\ changes = 0

-----------------------------------------------------------------------------
(* Candidates *)

\* A limit is learned under the name displayModelName gives a model, and
\* looked up under the model's own.
effContextLimit(m) ==
    Min({cfg.window[m]} \cup (IF m \in DOMAIN learned THEN {learned[m]} ELSE {}))

Better(m, n) ==
    \/ cfg.weight[m] > cfg.weight[n]
    \/ cfg.weight[m] = cfg.weight[n] /\ m < n

\* The set in order.
Sorted(S, Before(_, _)) ==
    CHOOSE s \in [1..Cardinality(S) -> S] :
        \A i, j \in 1..Cardinality(S) : i < j => Before(s[i], s[j])

ByScore(S) == Sorted(S, Better)

\* The models that take part. Whoever uses them has them in an order.
autoCandidateModels == {m \in visible : cfg.weight[m] > 0}

\* Mutant: no room is left.
HoldsWhole(m, est) == est <= effContextLimit(m)

\* The guard against long conversations leaves a tenth of the window free.
Holds(m, est) == 10 * est <= 9 * effContextLimit(m)
Eligible(est) == ByScore({m \in autoCandidateModels : Holds(m, est)})

\* When none holds the conversation, all of them, the largest window first.
Larger(m, n) ==
    \/ effContextLimit(m) > effContextLimit(n)
    \/ effContextLimit(m) = effContextLimit(n) /\ Better(m, n)
BySize(S) == Sorted(S, Larger)
Fallback == BySize(autoCandidateModels)

-----------------------------------------------------------------------------
(* The chain *)

ToFront(s, i) == <<s[i]>> \o SubSeq(s, 1, i - 1) \o SubSeq(s, i + 1, Len(s))

\* The first model of some weight, and those after it in their order.
autoChainSpeed(s) ==
    LET heavy == {i \in DOMAIN s : cfg.weight[s[i]] >= 5}
    IN ToFront(s, IF heavy = {} THEN 1 ELSE Min(heavy))

\* Smooth weighted round robin: everyone gains its share, and the richest,
\* the first of equals, is picked and pays for all.
Share(m) == 10 * cfg.weight[m] + 1

\* Mutant: the picked one pays what it gained itself.
PaidOwn(total, m) == Share(m)

Paid(total, m) == total

Richer(has, i, j) == has[i] > has[j] \/ (has[i] = has[j] /\ i <= j)

Gained(s) ==
    [m \in DOMAIN cur \cup ToSet(s) |->
        (IF m \in DOMAIN cur THEN cur[m] ELSE 0) + (IF m \in ToSet(s) THEN Share(m) ELSE 0)]

Picked(s) ==
    LET has == [i \in DOMAIN s |-> Gained(s)[s[i]]]
    IN CHOOSE i \in DOMAIN s : \A j \in DOMAIN s : Richer(has, i, j)

Total(s) == MapThenSumSet(Share, ToSet(s))

\* What is left of models that take no part is dropped when there are many.
autoSWRRPick(s) ==
    LET after == [Gained(s) EXCEPT ![s[Picked(s)]] = @ - Paid(Total(s), s[Picked(s)])]
    IN IF Cardinality(DOMAIN after) > KeepFactor * Len(s) + KeepSlack
       THEN [m \in ToSet(s) |-> after[m]]
       ELSE after

buildAutoChain(s) ==
    CASE cfg.strategy = "speed"    -> autoChainSpeed(s)
      [] cfg.strategy = "quality"  -> s
      [] cfg.strategy = "balanced" -> ToFront(s, Picked(s))

-----------------------------------------------------------------------------
(* Requests *)

\* A request for "auto" when models take part: without one it is refused.
prepareAuto ==
    /\ ~request.on /\ autoCandidateModels # {}
    /\ \E est \in Sizes :
        LET elig == Eligible(est)
            s == IF elig = << >> THEN Fallback ELSE elig
            chain == buildAutoChain(s)
        IN /\ request' = [on |-> TRUE, est |-> est, fallback |-> elig = << >>,
                          chain |-> chain, switched |-> 0]
           /\ IF cfg.strategy = "balanced"
              THEN /\ cur' = autoSWRRPick(s)
                   /\ owed' = [m \in Models |->
                                   IF m = chain[1] \/ m \notin DOMAIN cur' THEN 0
                                   ELSE IF m \in ToSet(s) THEN owed[m] + Share(m)
                                   ELSE owed[m]]
              ELSE UNCHANGED <<cur, owed>>
    /\ UNCHANGED <<cfg, visible, learned, refused, changes>>

Model == request.chain[1 + request.switched]

AttemptSucceeds ==
    /\ request.on
    /\ request' = NoRequest
    /\ UNCHANGED <<cfg, visible, cur, learned, refused, owed, changes>>

\* autoNextModel: the next of the chain, until it or the switches end.
HasNext == request.switched < MaxSwitches /\ 1 + request.switched < Len(request.chain)

AttemptFails ==
    /\ request.on /\ HasNext
    /\ request' = [request EXCEPT !.switched = @ + 1]
    /\ UNCHANGED <<cfg, visible, cur, learned, refused, owed, changes>>

\* The shortest conversation that was refused counts.
learnContextFailure(name, est) ==
    IF name \in DOMAIN learned /\ learned[name] <= est
    THEN learned
    ELSE [n \in DOMAIN learned \cup {name} |-> IF n = name THEN est ELSE learned[n]]

\* The last attempt fails; the handler learns from it when the vendor's
\* answer speaks of the length of the conversation and was not a stream.
LastAttemptFails ==
    /\ request.on /\ ~HasNext
    /\ \/ /\ changes < MaxChanges /\ changes' = changes + 1
          /\ learned' = learnContextFailure(ShownAs[Model], request.est)
          /\ refused' = [refused EXCEPT ![Model] =
                           IF @ = 0 THEN request.est ELSE Min({@, request.est})]
       \/ UNCHANGED <<learned, refused, changes>>
    /\ request' = NoRequest
    /\ UNCHANGED <<cfg, visible, cur, owed>>

-----------------------------------------------------------------------------
(* The operator and the catalogue *)

setAutoConfig ==
    /\ changes < MaxChanges /\ changes' = changes + 1
    /\ \E m \in Models :
          \/ \E w \in Weights \cup {5} : cfg' = [cfg EXCEPT !.weight[m] = w]
          \/ \E n \in Windows \cup {Default} : cfg' = [cfg EXCEPT !.window[m] = n]
          \/ \E strategy \in Strategies : cfg' = [cfg EXCEPT !.strategy = strategy]
    /\ cfg' # cfg
    /\ UNCHANGED <<visible, cur, learned, request, refused, owed>>

CatalogueChanges ==
    /\ changes < MaxChanges /\ changes' = changes + 1
    /\ \E m \in Models :
          visible' = IF m \in visible THEN visible \ {m} ELSE visible \cup {m}
    /\ UNCHANGED <<cfg, cur, learned, request, refused, owed>>

AutoNext ==
    \/ prepareAuto \/ AttemptSucceeds \/ AttemptFails \/ LastAttemptFails
    \/ setAutoConfig \/ CatalogueChanges

AutoSpec == AutoInit /\ [][AutoNext]_autoVars

-----------------------------------------------------------------------------
(* Properties *)

Requests ==
    [on : {TRUE}, est : Sizes, fallback : BOOLEAN, chain : Seq(Models), switched : 0..MaxSwitches]

AutoTypeOK ==
    /\ cfg \in [strategy : Strategies, weight : [Models -> Nat], window : [Models -> Nat \ {0}]]
    /\ visible \subseteq Models
    /\ DOMAIN cur \subseteq Models /\ cur \in [DOMAIN cur -> Int]
    /\ learned \in [DOMAIN learned -> Nat \ {0}] /\ refused \in [Models -> Nat]
    /\ request \in Requests \cup {NoRequest}
    /\ request.on => request.switched < Len(request.chain)

(* A model that takes part has its turn, or loses its credit, before it    *)
(* has gained as much as two rounds of the heaviest models hold, though    *)
(* requests of different lengths meet different candidates, models come    *)
(* and go, the weights change under a debt, and others lose theirs. (One   *)
(* whose credit autoSWRRPick drops again and again may wait for ever.)     *)
NoStarvation ==
    \A m \in Models : owed[m] <= 2 * Cardinality(Models) * (10 * Max(Weights \cup {5}) + 1)

(* A model that could not hold a conversation is not asked again to hold   *)
(* one as long while another can, if it is shown under its own name        *)
(* (learnContextFailure learns under displayModelName's, effContextLimit   *)
(* looks under the model's own).                                           *)
OutgrownIsAvoided ==
    \A m \in ToSet(request.chain) :
        ShownAs[m] = m /\ refused[m] > 0 /\ refused[m] <= request.est => request.fallback

\* Why this holds: what was refused is in the limits, which no other name loosens.
Remembered ==
    \A m \in Models :
        ShownAs[m] = m /\ refused[m] > 0 => m \in DOMAIN learned /\ learned[m] <= refused[m]

AutoSafe == AutoTypeOK /\ Remembered /\ OutgrownIsAvoided
=============================================================================

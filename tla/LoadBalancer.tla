----------------------------- MODULE LoadBalancer -----------------------------
(***************************************************************************)
(* 09-load-balancer above the byte streams: the pool of backends, the four *)
(* strategies, the health checker's thread, SIGHUP reloads and the drain   *)
(* at SIGTERM.  The event loop selects, reloads and closes; the checker    *)
(* runs beside it and shares the pool with it.  The backends' services,    *)
(* the clients and the operator are external.                              *)
(***************************************************************************)
EXTENDS Integers, Sequences, SequencesExt, FiniteSets

CONSTANTS
  Labels,       \* addresses of backends
  Malformed,    \* those of them that do not parse
  Configs,      \* backend lists a configuration file may hold
  Threshold,    \* health_check.threshold
  Unsteady,     \* bound: addresses whose service comes and goes
  MaxConns,     \* bound: connections open at once
  MaxEdits,     \* bound: edits of the configuration file
  Cycle         \* the strategy's counter is kept modulo this

\* Configurations as from_string returns them: a list without backends is an error.
\* Cycle is a multiple of every number of turns a strategy can have.
ASSUME BalancerAssumption ==
  /\ Malformed \subseteq Labels /\ Unsteady \subseteq Labels \ Malformed
  /\ \A c \in Configs : c # << >> /\ c \in Seq([label : Labels, weight : Nat])
  /\ Threshold \in Nat \ {0} /\ MaxConns \in Nat /\ MaxEdits \in Nat
  /\ Cycle \in Nat \ {0}

Broken == << >>   \* a file from_file cannot load
NoPicks == [from |-> << >>, chosen |-> << >>]

VARIABLES
  strategy,
  backends,     \* every Backend object made so far, by number
  pool,         \* numbers of the objects in the pool, in order
  counter,      \* counter_ of round robin and weighted
  loop,         \* what the event loop is at: "idle", "retire", "admit"
  todo,         \* backends the loop still has to look at for retirement
  entries,      \* configured backends the loop still has to admit
  current,      \* the configuration applied last
  file,         \* the configuration file
  reloadFlag,   \* SIGHUP received
  phase,        \* "serving", "draining" after SIGTERM, "stopped"
  round,        \* backends the checker still has to probe
  answering,    \* labels whose service answers
  edits,
  picks         \* history: the last choices made from one list of candidates

loopVars == <<loop, todo, entries>>
configVars == <<current, file, reloadFlag, edits>>
balancerVars == <<strategy, backends, pool, counter, loopVars, configVars, phase, round, answering, picks>>

LabelsIn(config) == {config[i].label : i \in DOMAIN config}
Weight(entry) == IF entry.weight < 1 THEN 1 ELSE entry.weight
Sum(numbers) == SumFunction(numbers)

\* The elements of a sequence that are in a set, in their order.
Kept(seq, set) ==
  LET kept[i \in 0..Len(seq)] ==
        IF i = 0 THEN << >> ELSE IF seq[i] \in set THEN Append(kept[i - 1], seq[i]) ELSE kept[i - 1]
  IN kept[Len(seq)]

-----------------------------------------------------------------------------
(* Health checks.                                                          *)

Backend(label, weight) ==
  [label |-> label, weight |-> weight, healthy |-> FALSE, fails |-> 0,
   draining |-> FALSE, active |-> 0,
   outcomes |-> << >>]   \* history: its probes since the last success, at most Threshold

Recorded(outcomes, ok) ==
  LET all == Append(outcomes, "failed") IN
  IF ok THEN <<"ok">> ELSE IF Len(all) > Threshold THEN Tail(all) ELSE all

\* Mutant: one failure too many is forgiven.
EvaluatedLate(b, ok) ==
  IF ok
  THEN [b EXCEPT !.healthy = TRUE, !.fails = 0, !.outcomes = Recorded(@, ok)]
  ELSE LET fails == IF b.fails < Threshold THEN b.fails + 1 ELSE b.fails IN
       [b EXCEPT !.fails = fails, !.healthy = @ /\ b.fails < Threshold, !.outcomes = Recorded(@, ok)]

\* evaluate: one success brings a backend up, Threshold failures in a row take it
\* down.  Failures are counted up to Threshold only: the code compares with >=.
Evaluated(b, ok) ==
  IF ok
  THEN [b EXCEPT !.healthy = TRUE, !.fails = 0, !.outcomes = Recorded(@, ok)]
  ELSE LET fails == IF b.fails < Threshold THEN b.fails + 1 ELSE b.fails IN
       [b EXCEPT !.fails = fails, !.healthy = @ /\ fails < Threshold, !.outcomes = Recorded(@, ok)]

\* main: the pool holds the configured backends and each has been probed once.
Init ==
  /\ strategy \in {"round_robin", "least_connections", "weighted", "ip_hash"}
  /\ answering \in SUBSET (Labels \ Malformed)
  /\ current \in Configs /\ file = current
  /\ LET valid == Kept(current, {e \in Range(current) : e.label \notin Malformed}) IN
       /\ backends = [i \in DOMAIN valid |->
            Evaluated(Backend(valid[i].label, Weight(valid[i])), valid[i].label \in answering)]
       /\ pool = [i \in DOMAIN valid |-> i]
  /\ counter = 0
  /\ loop = "idle" /\ todo = << >> /\ entries = << >>
  /\ reloadFlag = FALSE /\ phase = "serving" /\ round = << >> /\ edits = 0
  /\ picks = NoPicks

\* Mutant: only the backends that are up are probed.
RoundOfHealthy == Kept(pool, {o \in Range(pool) : backends[o].healthy})

\* check_once works on a snapshot of the pool.
Snapshot == pool

StartRound ==
  /\ phase # "stopped" /\ round = << >>
  /\ round' = Snapshot
  /\ UNCHANGED <<strategy, backends, pool, counter, loopVars, configVars, phase, answering, picks>>

Evaluate ==
  /\ round # << >>
  /\ round' = Tail(round)
  /\ LET o == Head(round) IN
     backends' = [backends EXCEPT ![o] = Evaluated(@, @.label \in answering)]
  /\ UNCHANGED <<strategy, pool, counter, loopVars, configVars, phase, answering, picks>>

-----------------------------------------------------------------------------
(* The event loop: selection.                                              *)

Active == SumFunction([o \in DOMAIN backends |-> backends[o].active])

\* Mutant: draining is not looked at.
UpAtAll(b) == b.healthy

\* The condition of BackendPool::healthy.
Eligible(b) == b.healthy /\ ~ b.draining

\* BackendPool::healthy.  The checker may set healthy between two reads of the
\* loop's scan; a probe takes much longer, and the scan counts as one moment.
Candidates == Kept(pool, {o \in Range(pool) : Eligible(backends[o])})

\* How many turns of a cycle each candidate gets.
Turns(seen) == [i \in DOMAIN seen |-> IF strategy = "weighted" THEN backends[seen[i]].weight ELSE 1]

\* Mutant: a slot on the border belongs to both neighbours.
TurnOfBorder(seen, slot) ==
  seen[SelectInSeq([i \in DOMAIN seen |-> slot <= Sum(SubSeq(Turns(seen), 1, i))], LAMBDA x : x)]

\* The candidate whose share of the slots 0..total-1 holds this slot.
TurnOf(seen, slot) ==
  seen[SelectInSeq([i \in DOMAIN seen |-> slot < Sum(SubSeq(Turns(seen), 1, i))], LAMBDA x : x)]

InTurn == strategy \in {"round_robin", "weighted"}

\* select of each strategy, for a client with this hash.
Selected(seen, hash) ==
  CASE InTurn -> TurnOf(seen, counter % Sum(Turns(seen)))
    [] strategy = "ip_hash" -> seen[(hash % Len(seen)) + 1]
    [] strategy = "least_connections" ->
         seen[SelectInSeq(seen, LAMBDA o : \A p \in Range(seen) : backends[o].active <= backends[p].active)]

Picked(seen, o) ==
  LET from == [i \in DOMAIN seen |-> [backend |-> seen[i], turns |-> Turns(seen)[i]]]
      chosen == Append(IF picks.from = from THEN picks.chosen ELSE << >>, o)
  IN [from |-> from, chosen |-> IF Len(chosen) > Sum(Turns(seen)) THEN Tail(chosen) ELSE chosen]

\* accept_clients, establish_backend: without a candidate, or if connect fails at
\* once, the client is dropped; a connection counts as active while it exists.
Accept(hash) ==
  /\ phase # "stopped" /\ loop = "idle" /\ Active < MaxConns
  /\ Candidates # << >>
  /\ LET o == Selected(Candidates, hash) IN
       /\ counter' = IF InTurn THEN (counter + 1) % Cycle ELSE counter
       /\ picks' = IF InTurn THEN Picked(Candidates, o) ELSE picks
       /\ \/ UNCHANGED backends
          \/ backends' = [backends EXCEPT ![o].active = @ + 1]
  /\ UNCHANGED <<strategy, pool, loopVars, configVars, phase, round, answering>>

\* close_connection
Close(o) ==
  /\ phase # "stopped" /\ loop = "idle" /\ backends[o].active > 0
  /\ backends' = [backends EXCEPT ![o].active = @ - 1]
  /\ UNCHANGED <<strategy, pool, counter, loopVars, configVars, phase, round, answering, picks>>

-----------------------------------------------------------------------------
(* The event loop: reload.                                                 *)

\* Mutant: the flag is cleared when the file has been applied.
FlagClearedAtEnd == FALSE

\* The flag was cleared at the start: set again meanwhile, it stays set.
FlagAfter == reloadFlag

\* reload: a file that cannot be loaded changes nothing.
StartReload ==
  /\ phase = "serving" /\ loop = "idle" /\ reloadFlag
  /\ reloadFlag' = FALSE
  /\ IF file = Broken
     THEN UNCHANGED <<loop, todo, current>>
     ELSE loop' = "retire" /\ todo' = pool /\ current' = file
  /\ UNCHANGED <<strategy, backends, pool, counter, entries, file, edits, phase, round, answering, picks>>

\* BackendPool::remove: the first with this label goes.
Removed(label) == RemoveAt(pool, SelectInSeq(pool, LAMBDA o : backends[o].label = label))

\* Mutant: open connections do not keep a backend.
IdleEnough(b) == TRUE

\* Only a backend without connections is removed at once.
Idle(b) == b.active = 0

\* apply, first loop: a backend that is not configured any more.
Retire ==
  /\ loop = "retire" /\ todo # << >>
  /\ todo' = Tail(todo)
  /\ LET b == backends[Head(todo)] IN
     IF b.label \in LabelsIn(current)
     THEN UNCHANGED <<backends, pool>>
     ELSE /\ backends' = [backends EXCEPT ![Head(todo)].draining = TRUE]
          /\ pool' = IF Idle(b) THEN Removed(b.label) ELSE pool
  /\ UNCHANGED <<strategy, counter, loop, entries, configVars, phase, round, answering, picks>>

NewNumber == Cardinality(DOMAIN backends) + 1
With(new, b) == [o \in DOMAIN backends \union {new} |-> IF o = new THEN b ELSE backends[o]]

StartAdmitting ==
  /\ loop = "retire" /\ todo = << >>
  /\ loop' = "admit" /\ entries' = current
  /\ UNCHANGED <<strategy, backends, pool, counter, todo, configVars, phase, round, answering, picks>>

\* apply, second loop: a configured backend is updated and taken back, or made anew.
Admit ==
  /\ loop = "admit"
  /\ entries' = Tail(entries)
  /\ IF entries' = << >> THEN loop' = "idle" /\ reloadFlag' = FlagAfter
                         ELSE UNCHANGED <<loop, reloadFlag>>
  /\ LET e == Head(entries)
         found == SelectInSeq(pool, LAMBDA o : backends[o].label = e.label)
     IN IF found # 0
        THEN /\ backends' = [backends EXCEPT ![pool[found]].weight = Weight(e), ![pool[found]].draining = FALSE]
             /\ UNCHANGED pool
        ELSE IF e.label \in Malformed
        THEN UNCHANGED <<backends, pool>>
        ELSE /\ backends' = With(NewNumber, Backend(e.label, Weight(e)))
             /\ pool' = Append(pool, NewNumber)
  /\ UNCHANGED <<strategy, counter, todo, current, file, edits, phase, round, answering, picks>>

-----------------------------------------------------------------------------
(* The operator, the services, and the end.                                *)

\* The file is rewritten, perhaps badly, and SIGHUP sent, whatever the loop is at.
OperatorReloads(config) ==
  /\ phase # "stopped" /\ edits < MaxEdits /\ config # file
  /\ edits' = edits + 1 /\ file' = config /\ reloadFlag' = TRUE
  /\ UNCHANGED <<strategy, backends, pool, counter, loopVars, current, phase, round, answering, picks>>

ServiceChanges(label) ==
  /\ phase # "stopped"
  /\ answering' = IF label \in answering THEN answering \ {label} ELSE answering \union {label}
  /\ UNCHANGED <<strategy, backends, pool, counter, loopVars, configVars, phase, round, picks>>

\* SIGTERM: the loop goes on, new clients included, but reloads no more ...
Terminate ==
  /\ phase = "serving" /\ loop = "idle"
  /\ phase' = "draining"
  /\ UNCHANGED <<strategy, backends, pool, counter, loopVars, configVars, round, answering, picks>>

\* ... until no connection is left, or drain_timeout; then the program ends and what
\* it held is gone.
Stop ==
  /\ phase = "draining" /\ loop = "idle"
  /\ phase' = "stopped"
  /\ backends' = << >> /\ pool' = << >> /\ round' = << >> /\ counter' = 0
  /\ picks' = NoPicks
  /\ UNCHANGED <<strategy, loopVars, configVars, answering>>

Next ==
  \/ StartRound \/ Evaluate
  \/ \E hash \in IF strategy = "ip_hash" THEN 0..1 ELSE {0} : Accept(hash)
  \/ \E o \in DOMAIN backends : Close(o)
  \/ StartReload \/ Retire \/ StartAdmitting \/ Admit
  \/ \E config \in Configs \union {Broken} : OperatorReloads(config)
  \/ \E label \in Unsteady : ServiceChanges(label)
  \/ Terminate \/ Stop

Spec == Init /\ [][Next]_balancerVars

\* The checker's thread runs for as long as the program does, its probes end by
\* their timeout, and the event loop does not block.
Fairness ==
  /\ WF_balancerVars(StartRound) /\ WF_balancerVars(Evaluate)
  /\ WF_balancerVars(StartReload \/ Retire \/ StartAdmitting \/ Admit)

FairSpec == Spec /\ Fairness

-----------------------------------------------------------------------------
\* The state is well formed; in particular a backend in the rotation has fewer than
\* Threshold failures behind it, and one that is down has as many as its probes
\* since it came up (evaluate), and no object is in the pool twice (apply).
TypeOK ==
  /\ \A o \in DOMAIN backends :
       LET b == backends[o] IN
       /\ b.label \in Labels \ Malformed /\ b.weight \in Nat \ {0}
       /\ b.fails \in 0..Threshold /\ (b.healthy => b.fails < Threshold)
       /\ b.active \in 0..MaxConns
  /\ IsInjective(pool) /\ Range(pool) \subseteq DOMAIN backends
  /\ Range(todo) \union Range(round) \subseteq DOMAIN backends
  /\ counter \in 0..(Cycle - 1)
  /\ loop \in {"idle", "retire", "admit"}
  /\ phase \in {"serving", "draining", "stopped"} /\ reloadFlag \in BOOLEAN

\* Once a SIGHUP has been dealt with, the newest loadable file is in force: clients
\* can be sent to each of its backends, with a weight it gives, and to no others,
\* however edits, reloads and drained backends that return interleave (apply, main).
ConfigInForce ==
  phase # "stopped" /\ loop = "idle" /\ ~ reloadFlag =>
    LET inForce == {backends[o] : o \in {p \in Range(pool) : ~ backends[p].draining}}
        configured == LabelsIn(current) \ Malformed
    IN /\ file # Broken => current = file
       /\ {b.label : b \in inForce} = configured
       /\ \A label \in configured : \E b \in inForce, i \in DOMAIN current :
            /\ b.label = label
            /\ current[i].label = label /\ b.weight = Weight(current[i])

\* The pool is well formed and, once a SIGHUP has been dealt with, the configured one.
ConfigApplied == TypeOK /\ ConfigInForce

\* A backend with open connections stays in the pool, where it is checked and can be
\* taken back, while the program runs and no other bears its label (apply, BackendPool::remove).
RemovedWhenIdle ==
  [][\A o \in Range(pool) \ Range(pool') :
       \/ backends[o].active = 0 \/ phase' = "stopped"
       \/ \E p \in DOMAIN backends \ {o} : backends[p].label = backends[o].label]_balancerVars

\* No new connection goes to a backend that is being drained or is gone from the
\* configuration, at any moment of a reload (BackendPool::healthy, apply).
NeverToRetired ==
  [][\A o \in DOMAIN backends \intersect DOMAIN backends' :
       backends'[o].active > backends[o].active =>
         /\ o \in Range(pool) /\ ~ backends[o].draining
         /\ backends[o].label \in LabelsIn(current)]_balancerVars

\* Clients chosen for one after the other from the same candidates are shared out
\* exactly: in a full cycle each candidate gets one turn, or its weight in turns,
\* wherever the cycle starts (RoundRobinStrategy, WeightedStrategy).
FairShares ==
  Len(picks.chosen) = Sum([i \in DOMAIN picks.from |-> picks.from[i].turns]) =>
    \A i \in DOMAIN picks.from :
      Cardinality({n \in DOMAIN picks.chosen : picks.chosen[n] = picks.from[i].backend}) = picks.from[i].turns

\* A backend is up exactly if one of its last Threshold probes succeeded, through
\* reloads, drains and returns: what came before its last success does not count
\* against it, and failures before it first came up do not delay it (evaluate).
HealthIsRecentOutcome ==
  \A o \in DOMAIN backends : backends[o].healthy <=> "ok" \in Range(backends[o].outcomes)

\* A service that stays up gets its backends into the rotation and one that stays
\* down out of it, whatever is reloaded meanwhile (run, check_once).
HealthConverges ==
  \A label \in Labels \ Malformed :
    /\ <>[](phase # "stopped" /\ label \in answering)
         => <>[](\A o \in Range(pool) : backends[o].label = label => backends[o].healthy)
    /\ <>[](phase # "stopped" /\ label \notin answering)
         => <>[](\A o \in Range(pool) : backends[o].label = label => ~ backends[o].healthy)
=============================================================================

------------------------------ MODULE Reports ------------------------------
(***************************************************************************)
(* Report requests of one address in project 07 (internal/api/handlers.go, *)
(* internal/llm/client.go, internal/redis/cache.go), with the generator    *)
(* that writes the tables (internal/mockdata) and the text service         *)
(* (ml/app.py) beside them.  What a report contains is module              *)
(* PortfolioMetrics; here a table is the number of its last rewrite and a  *)
(* report the numbers it was computed from.                                *)
(***************************************************************************)
EXTENDS Integers, FiniteSets

CONSTANTS Asks,          \* requests for reports, the items of batches
          Retries,       \* retries of the text client
          BatchLimit,    \* 4 in the code: items of a batch worked on at once
          MaxRewrites    \* bound on the rewrites of the tables

ASSUME ReportsAssumption ==
    IsFiniteSet(Asks) /\ Retries \in Nat /\ BatchLimit \in Nat /\ MaxRewrites \in Nat

VARIABLES tables, reportCache, asks, modelUp, lateWrite

reportVars == <<tables, reportCache, asks, modelUp, lateWrite>>

NoReport == [balances |-> 0, pnl |-> 0, source |-> "none"]
Unasked == [at |-> "new", began |-> 0, report |-> NoReport, tries |-> 0, batch |-> FALSE]

ReportsIdle ==
    /\ tables = [balances |-> 0, pnl |-> 0]
    /\ reportCache = NoReport
    /\ asks = [a \in Asks |-> Unasked]
    /\ modelUp = TRUE /\ lateWrite = FALSE

ReportsInit == ReportsIdle

\* Run of the generator: the balances of the address, then its PnL.
UpsertTokenBalances ==
    /\ tables.balances = tables.pnl /\ tables.balances < MaxRewrites
    /\ tables' = [tables EXCEPT !.balances = @ + 1]
    /\ UNCHANGED <<reportCache, asks, modelUp, lateWrite>>

UpsertPnL ==
    /\ tables.pnl < tables.balances
    /\ tables' = [tables EXCEPT !.pnl = @ + 1]
    /\ UNCHANGED <<reportCache, asks, modelUp, lateWrite>>

Busy == {a \in Asks : asks[a].batch /\ asks[a].at \notin {"new", "served", "failed"}}

Proceeds(a, fields) == asks' = [asks EXCEPT ![a] = fields]

\* generateOne begins: in a batch under its semaphore, alone for the others.
\* A report found in the cache is served as it is.
Begin(a, batch) ==
    /\ asks[a].at = "new"
    /\ batch => Cardinality(Busy) < BatchLimit
    /\ LET r == [Unasked EXCEPT !.batch = batch, !.began = tables.balances]
       IN Proceeds(a, IF reportCache = NoReport THEN [r EXCEPT !.at = "balances"]
                  ELSE [r EXCEPT !.at = "served", !.report = [reportCache EXCEPT !.source = "cache"]])
    /\ UNCHANGED <<tables, reportCache, modelUp, lateWrite>>

\* Mutant: an address without balances gets a report, too.
GetTokenBalancesUnchecked(a) ==
    /\ asks[a].at = "balances"
    /\ Proceeds(a, [asks[a] EXCEPT !.at = "pnl", !.report.balances = tables.balances])
    /\ UNCHANGED <<tables, reportCache, modelUp, lateWrite>>

\* An address without balances is refused, and nothing is cached for it.
GetTokenBalances(a) ==
    /\ asks[a].at = "balances"
    /\ Proceeds(a, IF tables.balances = 0 THEN [asks[a] EXCEPT !.at = "failed"]
               ELSE [asks[a] EXCEPT !.at = "pnl", !.report.balances = tables.balances])
    /\ UNCHANGED <<tables, reportCache, modelUp, lateWrite>>

GetPnLByToken(a) ==
    /\ asks[a].at = "pnl"
    /\ Proceeds(a, [asks[a] EXCEPT !.at = "text", !.report.pnl = tables.pnl])
    /\ UNCHANGED <<tables, reportCache, modelUp, lateWrite>>

\* One attempt of callLLM; the service answers with its text, with an error, or
\* not at all, and after the last attempt the template answers.
CallLLM(a) ==
    /\ asks[a].at = "text"
    /\ \/ modelUp /\ Proceeds(a, [asks[a] EXCEPT !.at = "store", !.report.source = "llm"])
       \/ ~modelUp /\ Proceeds(a, IF asks[a].tries < Retries THEN [asks[a] EXCEPT !.tries = @ + 1]
                              ELSE [asks[a] EXCEPT !.at = "store", !.report.source = "template"])
    /\ UNCHANGED <<tables, reportCache, modelUp, lateWrite>>

ModelChanges ==
    /\ modelUp' = ~modelUp
    /\ UNCHANGED <<tables, reportCache, asks, lateWrite>>

\* SetReport replaces whatever is cached, a newer report included.
SetReport(a) ==
    /\ asks[a].at = "store"
    /\ reportCache' = asks[a].report
    /\ lateWrite' = (lateWrite \/ asks[a].report.balances < reportCache.balances)
    /\ Proceeds(a, [asks[a] EXCEPT !.at = "served"])
    /\ UNCHANGED <<tables, modelUp>>

\* A client that leaves, or a batch item whose time is up, ends the context: the
\* queries fail, callLLM gives up at once, the template is rendered all the same
\* and the cache refuses it.
ContextEnds(a) ==
    /\ asks[a].at \in {"balances", "pnl", "text", "store"}
    /\ Proceeds(a, IF asks[a].at \in {"balances", "pnl"} THEN [asks[a] EXCEPT !.at = "failed"]
               ELSE [asks[a] EXCEPT !.at = "served",
                        !.report.source = IF asks[a].at = "text" THEN "template" ELSE @])
    /\ UNCHANGED <<tables, reportCache, modelUp, lateWrite>>

\* The time to live of the cached report is over.
Expire ==
    /\ reportCache # NoReport
    /\ reportCache' = NoReport
    /\ UNCHANGED <<tables, asks, modelUp, lateWrite>>

ReportsNext ==
    \/ UpsertTokenBalances \/ UpsertPnL \/ ModelChanges \/ Expire
    \/ \E a \in Asks : \/ \E batch \in BOOLEAN : Begin(a, batch)
                       \/ GetTokenBalances(a) \/ GetPnLByToken(a) \/ CallLLM(a)
                       \/ SetReport(a) \/ ContextEnds(a)

ReportsSpec == ReportsInit /\ [][ReportsNext]_reportVars

(***************************************************************************)
(* Properties.                                                             *)
(***************************************************************************)
ReportsTypeOK ==
    /\ tables.pnl \in tables.balances - 1 .. tables.balances
    /\ tables.balances \in 0 .. MaxRewrites
    /\ \A a \in Asks : asks[a].tries \in 0 .. Retries

\* A report computed for a request is of data not older than the request, and
\* its PnL is at most one rewrite behind its balances, whatever is rewritten
\* while it is computed (the generator's write order is the calculator's read
\* order); one taken from the cache is at least whole in the same sense.
ReportConsistent ==
    \A a \in Asks :
        LET r == asks[a].report
        IN asks[a].at \in {"text", "store", "served"} =>
              /\ r.balances - 1 <= r.pnl /\ r.pnl <= tables.pnl
              /\ 1 <= r.balances /\ r.balances <= tables.balances
              /\ r.source # "cache" => asks[a].began <= r.balances

\* Nothing is cached for an address that could not be computed, a text that took
\* every attempt to fail is marked as the template's, and only a slower request
\* that began earlier takes the cache back to older data.
CacheHonest ==
    /\ reportCache # NoReport =>
          /\ reportCache.balances >= 1
          /\ reportCache.source \in {"llm", "template"}
    /\ lateWrite => Cardinality({a \in Asks : asks[a].at = "served"}) >= 2
    /\ \A a \in Asks : asks[a].at = "store" /\ asks[a].report.source = "template" => asks[a].tries = Retries

\* A batch works on at most four addresses at a time.
BatchBounded == Cardinality(Busy) <= BatchLimit

\* What the run checks of report requests (api/handlers.go, llm/client.go, redis/cache.go).
ReportsSound == ReportsTypeOK /\ ReportConsistent /\ CacheHonest /\ BatchBounded
=============================================================================

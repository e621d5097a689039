---------------------------- MODULE SignalEngine ----------------------------
(***************************************************************************)
(* SignalEngineClass of src/signal.py and the calls the agent makes to the  *)
(* CMC client around it: BNB alone in setup, every token for the prices of  *)
(* a cycle, every token again for the scan.  The prices themselves are not  *)
(* kept here (Agent has its own); asking for them is, since it renews the   *)
(* client's cache.                                                          *)
(***************************************************************************)
EXTENDS Scoring, QuoteClient, FiniteSets, FiniteSetsExt

CONSTANTS
    Baskets,    \* NARRATIVE_BASKETS: sequence of [name, tokens], in dict order
    MaxDay      \* bound: evaluations of one process

Narrative == 1 .. Len(Baskets)

ASSUME BasketAssumption ==
    /\ Len(Baskets) \in Nat \ {0}
    /\ \A n \in Narrative : IsFiniteSet(Baskets[n].tokens)
    /\ MaxDay \in Nat

(* the two AI narratives come first in config.py *)
ASSUME OrderAssumption ==
    \A m, n \in Narrative :
        m < n /\ Baskets[n].name \in AINarratives => Baskets[m].name \in AINarratives

(* the other tokens the calls name are read by nobody *)
BasketTokens == UNION {Baskets[n].tokens : n \in Narrative}

VARIABLES
    phase,      \* "off", "setup", "ready", "prices", "evaluate", "quotes", "trending"
    day,        \* SignalEngineClass.day
    lastDay,    \* last_day of conviction_history, 0 for a missing entry
    tries,      \* failed attempts to get the trending list
    scan,       \* what the last evaluation returned: [top, conviction]
    missed      \* history: evaluations that raised since the last scan

engineVars == <<day, lastDay, tries, scan, missed>>
vars == <<clientVars, phase, engineVars>>

NoScan == [top |-> 0, conviction |-> 0]
NoDays == [n \in Narrative |-> 0]

Init ==
    /\ ClientInit
    /\ phase = "off"
    /\ day = 0 /\ lastDay = NoDays /\ tries = 0 /\ scan = NoScan /\ missed = 0

(* Agent.setup tests the connection with BNB *)
Start ==
    /\ phase = "off"
    /\ Ask({"BNB"})
    /\ phase' = "setup"
    /\ UNCHANGED engineVars

SetupEnds ==
    /\ phase = "setup" /\ call = "answered"
    /\ TakeOutcome
    /\ phase' = "ready"
    /\ UNCHANGED <<cached, age, trueAge, engineVars>>

(* the process is gone, and what it remembered *)
Forget ==
    /\ ClientRestart
    /\ phase' = "off"
    /\ day' = 0 /\ lastDay' = NoDays /\ tries' = 0 /\ scan' = NoScan /\ missed' = 0

(* "Cannot start without CMC data" *)
SetupFails == phase = "setup" /\ call = "raised" /\ Forget

ProcessDies == phase # "off" /\ Forget

(* a cycle begins with the prices *)
BeginCycle ==
    /\ phase = "ready" /\ day < MaxDay
    /\ Ask(BasketTokens)
    /\ phase' = "prices"
    /\ UNCHANGED engineVars

PricesTaken ==
    /\ phase = "prices" /\ call \in {"answered", "raised"}
    /\ TakeOutcome
    /\ phase' = "evaluate"
    /\ UNCHANGED <<cached, age, trueAge, engineVars>>

(* evaluate: the day is counted before anything is fetched *)
Evaluate ==
    /\ phase = "evaluate"
    /\ day' = day + 1
    /\ Ask(BasketTokens)
    /\ phase' = "quotes"
    /\ UNCHANGED <<lastDay, tries, scan, missed>>

(* mutant: a failed evaluation gives its day back *)
QuotesRaiseUncounted ==
    /\ phase = "quotes" /\ call = "raised"
    /\ TakeOutcome
    /\ phase' = "ready"
    /\ day' = day - 1
    /\ scan' = NoScan
    /\ missed' = missed + 1
    /\ UNCHANGED <<cached, age, trueAge, lastDay, tries>>

(* the exception leaves evaluate; run_cycle logs it *)
QuotesRaise ==
    /\ phase = "quotes" /\ call = "raised"
    /\ TakeOutcome
    /\ phase' = "ready"
    /\ scan' = NoScan
    /\ missed' = missed + 1
    /\ UNCHANGED <<cached, age, trueAge, day, lastDay, tries>>

QuotesCome ==
    /\ phase = "quotes" /\ call = "answered"
    /\ phase' = "trending"
    /\ tries' = 0
    /\ UNCHANGED <<clientVars, day, lastDay, scan, missed>>

(* mutant: after the last attempt the count starts over *)
TrendingRestarts ==
    /\ phase = "trending" /\ tries <= Retries
    /\ tries' = IF tries < Retries THEN tries + 1 ELSE 0
    /\ UNCHANGED <<clientVars, phase, day, lastDay, scan, missed>>

(* retry_async: one attempt and Retries more *)
TrendingFails ==
    /\ phase = "trending" /\ tries <= Retries
    /\ tries' = tries + 1
    /\ UNCHANGED <<clientVars, phase, day, lastDay, scan, missed>>

(* _fetch_narrative_data: of the figures of a basket only two come from     *)
(* CMC, its 7-day return and whether one of its tokens trends.              *)
FiguresOf(ret, hot) ==
    [ret |-> ret, rank |-> IF hot THEN 1 ELSE 50,
     rs |-> 100, dd |-> 15, rsi |-> 50, volume |-> 0, liquidity |-> 10, spread |-> 5,
     social |-> 0, holders |-> 0, volatility |-> 50, kaito |-> FALSE,
     first |-> FALSE, second |-> FALSE]

Regime == MarketRegime(45, 50, 0)

LiveScore == [n \in Narrative |-> [ret \in Changes \cup {0} |-> [hot \in BOOLEAN |->
                 Fresh(Baskets[n].name, FiguresOf(ret, hot), Regime)]]]

(* A token in error counts as unchanged, one the answer does not name is    *)
(* left out, and an empty basket has no return.                             *)
Quoted(n) == Baskets[n].tokens \cap DOMAIN answer
Change(t) == IF answer[t] = Error THEN 0 ELSE answer[t]
Return7d(n) == IF Quoted(n) = {} THEN 0 ELSE Max({Change(t) : t \in Quoted(n)})

FreshScore(n, trending) ==
    LiveScore[n][Return7d(n)][Baskets[n].tokens \cap trending # {}]

Conviction(n, trending) ==
    Decayed(FreshScore(n, trending), IF lastDay[n] = 0 THEN 0 ELSE day - lastDay[n])

(* global_scan, without an await after the trending list is there *)
Scan(trending) ==
    LET convictions == [n \in Narrative |-> Conviction(n, trending)]
        top == Top(convictions)
    IN  /\ phase = "trending"
        /\ scan' = [top |-> top, conviction |-> convictions[top]]
        /\ lastDay' = [n \in Narrative |-> day]
        /\ missed' = 0 /\ tries' = 0
        /\ TakeOutcome
        /\ phase' = "ready"
        /\ UNCHANGED <<cached, age, trueAge, day>>

TrendingComes(trending) == tries <= Retries /\ Scan(trending)
TrendingGivenUp == tries > Retries /\ Scan({})

(* a null where a number should be: max() or sum() raises, after the await *)
FiguresRaise ==
    /\ phase = "trending"
    /\ TakeOutcome
    /\ phase' = "ready"
    /\ scan' = NoScan
    /\ missed' = missed + 1 /\ tries' = 0
    /\ UNCHANGED <<cached, age, trueAge, day, lastDay>>

ProcessStep ==
    \/ ClientStep /\ UNCHANGED <<phase, engineVars>>
    \/ SetupEnds \/ SetupFails \/ BeginCycle \/ PricesTaken \/ Evaluate
    \/ QuotesRaise \/ QuotesCome \/ TrendingFails
    \/ \E trending \in SUBSET BasketTokens : TrendingComes(trending)
    \/ TrendingGivenUp \/ FiguresRaise

Next ==
    \/ Start \/ ProcessStep \/ ProcessDies
    \/ Tick /\ UNCHANGED <<phase, engineVars>>

Spec == Init /\ [][Next]_vars

(* A running process keeps running: every attempt ends with an answer, an   *)
(* exception or CMC_TIMEOUT, and the pauses between them are bounded.       *)
FairSpec == Spec /\ WF_vars(ProcessStep)

(***************************************************************************)
(* Properties.                                                              *)
(***************************************************************************)
Quotes == UNION {[tokens -> Quote] : tokens \in {{}, {"BNB"}, BasketTokens}}

(* Every variable has the type its declaration says. *)
MarketTypeOK ==
    /\ call \in {"idle", "asking", "answered", "raised"}
    /\ asked \in {{}, {"BNB"}, BasketTokens}
    /\ attempt \in 0 .. Retries
    /\ answer \in Quotes /\ cached \in Quotes
    /\ age \in 0 .. Ttl /\ trueAge \in 0 .. Ttl
    /\ phase \in {"off", "setup", "ready", "prices", "evaluate", "quotes", "trending"}
    /\ day \in 0 .. MaxDay
    /\ lastDay \in [Narrative -> 0 .. day]
    /\ tries \in 0 .. Retries + 1
    /\ scan \in [top : Narrative, conviction : 0 .. 100] \cup {NoScan}
    /\ missed \in 0 .. day

(* Whatever a call returns was sent by CMC less than the time to live ago,  *)
(* however often the cache has stood in since (cmc_client.py:173).          *)
ServedInTime ==
    [][call = "asking" /\ call' = "answered" => trueAge' < Ttl]_vars

(* A conviction that is traded on belongs to a narrative no other one beat  *)
(* by its fresh score: outages decay all convictions, truncate them and     *)
(* make ties of them, but never hand the buy to a weaker narrative.         *)
Scans(trending) ==
    /\ phase = "trending" /\ scan' # NoScan
    /\ TrendingComes(trending) \/ (trending = {} /\ TrendingGivenUp)
IsLong(conviction) == Verdict(conviction) \in {"LONG", "STRONG_LONG"}

BestIsBought ==
    [][\A trending \in SUBSET BasketTokens :
          Scans(trending) /\ IsLong(scan'.conviction) =>
              \A n \in Narrative :
                  FreshScore(n, trending) <= FreshScore(scan'.top, trending)]_vars

(* Convictions decay by the evaluations that failed since the last scan, of *)
(* whatever kind their failures were, and by nothing else; a scan after a   *)
(* scan is fresh.                                                           *)
OutagesDecay ==
    [][\A trending \in SUBSET BasketTokens :
          Scans(trending) /\ lastDay # NoDays =>
              scan'.conviction = Decayed(FreshScore(scan'.top, trending), missed + 1)]_vars

(* A cycle that begins comes back, with a scan or without. *)
ScanReturns == phase = "prices" ~> phase \in {"ready", "off"}

(* A narrative is bought into only when its 7-day change is positive        *)
(* (signal.py:59).                                                          *)
DriftIsPositive ==
    [][\A trending \in SUBSET BasketTokens :
          Scans(trending) /\ IsLong(scan'.conviction) =>
              Return7d(scan'.top) > 0]_vars
=============================================================================

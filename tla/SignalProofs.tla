---------------------------- MODULE SignalProofs ----------------------------
(***************************************************************************)
(* Proofs about the signal engine and the client it asks, for any           *)
(* narratives, tokens, quotes, time to live and number of retries.          *)
(*                                                                         *)
(* What a call of the client returns left CMC less than the time to live    *)
(* ago (QuotesInTime).  The guard of the fallback looks at the client's own *)
(* clock; what the property needs besides is that nothing ever sets that    *)
(* clock back without new data, which is AgesAgree.                         *)
(*                                                                         *)
(* Every variable has its type (MarketTypes), which for the conviction of a *)
(* scan takes the bounds of the scoring and of its powers, and convictions  *)
(* decay by the evaluations that raised (DecayIsOfOutages).  The invariant  *)
(* behind both is MarketInv: it accounts for every day counted.             *)
(*                                                                         *)
(* A scan that is traded on names a narrative with a best fresh score       *)
(* (TheBestIsBought).  Truncation makes decayed scores tie; of those worth  *)
(* a buy only 26 and 27 can, and 27 is earned only by the AI narratives,    *)
(* which OrderAssumption puts before the others.                            *)
(***************************************************************************)
EXTENDS SignalEngine, Induction

AgesAgree == age = trueAge

LEMMA AgesAgreeInit == Init => AgesAgree
BY DEF Init, ClientInit, AgesAgree

(* The steps that are not a return or a tick of the client: they leave both *)
(* ages alone, or begin a new process.                                      *)
EngineOnly ==
    \/ Start \/ SetupEnds \/ BeginCycle \/ PricesTaken \/ Evaluate
    \/ QuotesRaise \/ QuotesCome \/ TrendingFails
    \/ \E trending \in SUBSET BasketTokens : TrendingComes(trending)
    \/ TrendingGivenUp \/ FiguresRaise

Dies == SetupFails \/ ProcessDies

LEMMA EngineLeavesAges ==
    ASSUME EngineOnly
    PROVE  /\ age' = age /\ trueAge' = trueAge
           /\ call' = "answered" => call = "answered"
<1>1. CASE Start \/ BeginCycle \/ Evaluate
  BY <1>1 DEF Start, BeginCycle, Evaluate, Ask
<1>2. CASE SetupEnds \/ PricesTaken \/ QuotesRaise \/ FiguresRaise
  BY <1>2 DEF SetupEnds, PricesTaken, QuotesRaise, FiguresRaise, TakeOutcome
<1>3. CASE QuotesCome \/ TrendingFails
  BY <1>3 DEF QuotesCome, TrendingFails, clientVars
<1>4. ASSUME NEW trending \in SUBSET BasketTokens, TrendingComes(trending)
      PROVE  age' = age /\ trueAge' = trueAge /\ call' = "idle"
  BY <1>4 DEF TrendingComes, Scan, TakeOutcome
<1>5. CASE TrendingGivenUp
  BY <1>5 DEF TrendingGivenUp, Scan, TakeOutcome
<1> QED
  BY <1>1, <1>2, <1>3, <1>4, <1>5 DEF EngineOnly

LEMMA DyingForgets ==
    ASSUME Dies
    PROVE  age' = Ttl /\ trueAge' = Ttl /\ call' = "idle"
BY DEF Dies, SetupFails, ProcessDies, Forget, ClientRestart

(* A return hands out what just came, or what the fallback's guard allows. *)
LEMMA ReturnInTime ==
    ASSUME AgesAgree, ClientStep
    PROVE  age' = trueAge' /\ (call' = "answered" /\ call = "asking" => trueAge' < Ttl)
<1> USE DEF AgesAgree
<1>1. ASSUME NEW quotes \in [asked -> Quote], Answers(quotes)
      PROVE  age' = trueAge' /\ trueAge' < Ttl
  BY <1>1, ClientAssumption DEF Answers
<1>2. CASE AttemptFails
  BY <1>2 DEF AttemptFails
<1>3. CASE AttemptAborts \/ GiveUp
  BY <1>3 DEF AttemptAborts, GiveUp, Return
<1>4. CASE FallBack
  BY <1>4 DEF FallBack, FallbackAllowed
<1> QED
  BY <1>1, <1>2, <1>3, <1>4 DEF ClientStep

LEMMA NextCases ==
    ASSUME Next
    PROVE  ClientStep \/ EngineOnly \/ Dies \/ Tick
BY DEF Next, ProcessStep, EngineOnly, Dies

LEMMA StepInTime ==
    ASSUME AgesAgree, [Next]_vars
    PROVE  AgesAgree' /\ (call = "asking" /\ call' = "answered" => trueAge' < Ttl)
<1>1. CASE ClientStep
  BY <1>1, ReturnInTime DEF AgesAgree
<1>2. CASE EngineOnly
  BY <1>2, EngineLeavesAges DEF AgesAgree
<1>3. CASE Dies
  BY <1>3, DyingForgets DEF AgesAgree
<1>4. CASE Tick
  BY <1>4 DEF Tick, AgesAgree
<1>5. CASE UNCHANGED vars
  BY <1>5 DEF vars, clientVars, AgesAgree
<1> QED
  BY <1>1, <1>2, <1>3, <1>4, <1>5, NextCases

(* Whatever get_bulk_quotes returns was sent by CMC less than the time to   *)
(* live ago (cmc_client.py:173), however long the outage lasts.             *)
THEOREM QuotesInTime == Spec => ServedInTime
<1>1. AgesAgree /\ [Next]_vars => AgesAgree'
  BY StepInTime
<1>2. AgesAgree /\ [Next]_vars
        => [call = "asking" /\ call' = "answered" => trueAge' < Ttl]_vars
  BY StepInTime
<1> QED
  BY <1>1, <1>2, AgesAgreeInit, PTL DEF Spec, ServedInTime

(***************************************************************************)
(* Scores and decay.                                                        *)
(***************************************************************************)
(* Powers of nine are amounts, and those of ten are larger. *)
LEMMA PowerFacts ==
    ASSUME NEW n \in Nat
    PROVE  Power(9, n) \in Nat /\ Power(10, n) \in Nat \ {0} /\ Power(9, n) <= Power(10, n)
<1> DEFINE low == CHOOSE p : Multiplies(9, n, p)
           high == CHOOSE p : Multiplies(10, n, p)
           Good == {i \in 0 .. n : low[i] \in Nat /\ high[i] \in Nat \ {0} /\ low[i] <= high[i]}
<1>1. Power(9, n) = low[n] /\ Power(10, n) = high[n]
    BY DEF Power, Multiplies
<1>2. Multiplies(9, n, low) /\ Multiplies(10, n, high)
    BY PowersExist
<1> HIDE DEF low, high
<1>3. \A i \in 0 .. n : /\ low[i] = IF i = 0 THEN 1 ELSE 9 * low[i - 1]
                        /\ high[i] = IF i = 0 THEN 1 ELSE 10 * high[i - 1]
    BY <1>2 DEF Multiplies
<1>4. 0 \in Good
    BY <1>3
<1>5. ASSUME NEW i \in 1 .. n, i - 1 \in Good PROVE i \in Good
  <2>1. i \in 0 .. n /\ i # 0
      OBVIOUS
  <2>2. low[i] = 9 * low[i - 1] /\ high[i] = 10 * high[i - 1]
      BY <1>3, <2>1
  <2> QED
      BY <1>5, <2>1, <2>2
<1>6. 0 .. n \subseteq Good
  <2> HIDE DEF Good
  <2> QED
      BY <1>4, <1>5, BoundedInduction
<1>7. n \in Good
    BY <1>6
<1> QED
    BY <1>1, <1>7

(* A score only falls, and not below zero. *)
LEMMA DecayedType ==
    ASSUME NEW score \in Nat, NEW days \in Nat
    PROVE  Decayed(score, days) \in 0 .. score
<1> DEFINE a == Power(9, days)
           b == Power(10, days)
<1>1. a \in Nat /\ b \in Nat \ {0} /\ a <= b
    BY PowerFacts
<1> HIDE DEF a, b
<1>2. (score * a) \div b \in Nat /\ (score * a) \div b <= score
  <2> DEFINE top == score * a
             q == top \div b
  <2>1. top \in Nat /\ top <= score * b
    <3>1. b - a \in Nat /\ score * (b - a) \in Nat /\ score * a \in Nat
        BY <1>1
    <3>2. score * (b - a) = score * b - score * a
        BY <1>1
    <3> QED
        BY <1>1, <3>1, <3>2
  <2> HIDE DEF top
  <2>2. q \in Nat /\ b * q <= top
      BY <1>1, <2>1
  <2> HIDE DEF q
  <2>3. q <= score
    <3> SUFFICES ASSUME q > score PROVE FALSE
        BY <2>2
    <3>1. q - score \in Nat /\ q - score >= 1
        BY <2>2
    <3>2. b * (q - score) >= b
        BY <1>1, <3>1
    <3>3. b * (q - score) = b * q - score * b
        BY <1>1, <2>2
    <3> QED
        BY <1>1, <2>1, <2>2, <3>2, <3>3
  <2> QED
      BY <2>2, <2>3 DEF q, top
<1> QED
    BY <1>2 DEF Decayed, a, b

(* The score of live figures, before any decay. *)
LEMMA LiveScoreType ==
    ASSUME NEW n, NEW ret \in Int, NEW hot \in BOOLEAN
    PROVE  Fresh(n, FiguresOf(ret, hot), Regime) \in 0 .. 75
<1> DEFINE d == FiguresOf(ret, hot)
<1>1. /\ d.rs = 100 /\ d.ret = ret /\ d.dd = 15 /\ d.rsi = 50 /\ d.volume = 0
      /\ d.liquidity = 10 /\ d.spread = 5 /\ d.social = 0 /\ d.holders = 0
      /\ d.volatility = 50 /\ d.kaito = FALSE /\ d.first = FALSE /\ d.second = FALSE
      /\ d.rank \in {1, 50}
    BY DEF FiguresOf
<1> HIDE DEF d
<1>2. Momentum(d) \in Nat /\ Liquidity(d) \in Nat /\ Attention(d) \in Nat
    BY <1>1 DEF Momentum, Liquidity, Attention, When, Clamp, Greater, Lesser
<1>3. Fundamental(n, d) \in Nat
    BY <1>1 DEF Fundamental, When
<1>4. RiskScore(d) \in Nat
    BY <1>1 DEF RiskScore, Exhaustion, When, Clamp, Greater, Lesser
<1>5. RawScore(n, d) \in Nat
    BY <1>2, <1>3, <1>4 DEF RawScore
<1>6. Regime = "TRANSITION"
    BY DEF Regime, MarketRegime
<1>7. Adjusted(n, d, Regime) \in Nat
  <2>1. Adjusted(n, d, Regime) = (RawScore(n, d) * 9) \div 1000
      BY <1>6 DEF Adjusted, RegimeMult
  <2> QED
      BY <1>5, <2>1
<1>8. Fresh(n, d, Regime) = Lesser(Adjusted(n, d, Regime), 75)
    BY <1>6 DEF Fresh, ConvictionCap
<1> QED
    BY <1>7, <1>8 DEF Lesser, d

(* The return of a basket is one the tokens may have. *)
LEMMA ReturnType ==
    ASSUME MarketTypeOK, NEW n \in Narrative
    PROVE  Return7d(n) \in Changes \cup {0}
<1>1. \A t \in Quoted(n) : Change(t) \in Changes \cup {0}
  <2>1. \A t \in DOMAIN answer : answer[t] \in Quote
      BY DEF MarketTypeOK, Quotes
  <2> QED
      BY <2>1 DEF Quoted, Change, Quote
<1>2. IsFiniteSet(Quoted(n))
    BY BasketAssumption, FS_Subset DEF Quoted
<1>3. CASE Quoted(n) = {}
    BY <1>3 DEF Return7d
<1>4. CASE Quoted(n) # {}
  <2> DEFINE f == [t \in Quoted(n) |-> Change(t)]
             all == {Change(t) : t \in Quoted(n)}
  <2>0. \A c \in Changes \cup {0} : c \in Int
      BY ClientAssumption
  <2>1. \A t \in Quoted(n) : f[t] = Change(t) /\ f[t] \in Int
      BY <1>1, <2>0
  <2> HIDE DEF f
  <2>2. PICK m \in Quoted(n) : \A t \in Quoted(n) : f[t] <= f[m]
      BY <1>2, <1>4, <2>1, GreatestExists
  <2>3. Change(m) \in all /\ \A c \in all : Change(m) >= c
      BY <2>1, <2>2
  <2>4. Max(all) \in all
    <3> HIDE DEF all
    <3> QED
        BY <2>3 DEF Max
  <2> QED
      BY <1>1, <1>4, <2>4 DEF Return7d
<1> QED
    BY <1>3, <1>4

(* So is every fresh score, and every conviction, a percentage. *)
LEMMA ConvictionType ==
    ASSUME MarketTypeOK, NEW n \in Narrative, NEW trending
    PROVE  FreshScore(n, trending) \in 0 .. 100 /\ Conviction(n, trending) \in 0 .. 100
<1> DEFINE ret == Return7d(n)
           hot == Baskets[n].tokens \cap trending # {}
           days == IF lastDay[n] = 0 THEN 0 ELSE day - lastDay[n]
<1>1. ret \in Changes \cup {0} /\ ret \in Int
  <2>1. \A c \in Changes \cup {0} : c \in Int
      BY ClientAssumption
  <2> QED
      BY <2>1, ReturnType
<1>2. hot \in BOOLEAN
    OBVIOUS
<1> HIDE DEF ret, hot
<1>3. LiveScore[n][ret][hot] = Fresh(Baskets[n].name, FiguresOf(ret, hot), Regime)
    BY <1>1, <1>2 DEF LiveScore
<1>4. FreshScore(n, trending) \in 0 .. 75
    BY <1>1, <1>2, <1>3, LiveScoreType DEF FreshScore, ret, hot
<1>5. lastDay[n] \in 0 .. day /\ day \in Nat
    BY DEF MarketTypeOK
<1>6. days \in Nat
    BY <1>5
<1>7. Conviction(n, trending) = Decayed(FreshScore(n, trending), days)
    BY DEF Conviction
<1> HIDE DEF days
<1>8. FreshScore(n, trending) \in Nat
    BY <1>4
<1>9. Decayed(FreshScore(n, trending), days) \in 0 .. FreshScore(n, trending)
    BY <1>6, <1>8, DecayedType
<1> QED
    BY <1>4, <1>7, <1>8, <1>9

(* There is a narrative of the highest conviction that comes first. *)
LEMMA TopExists ==
    ASSUME NEW convictions \in [Narrative -> Int]
    PROVE  LET top == Top(convictions)
           IN  /\ top \in Narrative
               /\ \A m \in Narrative : IF m < top THEN convictions[m] < convictions[top]
                                                 ELSE convictions[m] <= convictions[top]
<1>1. Narrative \subseteq Nat /\ Narrative # {} /\ IsFiniteSet(Narrative)
  <2> DEFINE size == Len(Baskets)
  <2>1. size \in Nat \ {0} /\ Narrative = 1 .. size
      BY BasketAssumption DEF Narrative
  <2> HIDE DEF size
  <2>2. 1 \in 1 .. size /\ 1 .. size \subseteq Nat /\ IsFiniteSet(1 .. size)
      BY <2>1, FS_Interval
  <2> QED
      BY <2>1, <2>2
<1>2. PICK b \in Narrative : \A m \in Narrative : convictions[m] <= convictions[b]
    BY <1>1, GreatestExists
<1> DEFINE Best == {n \in Narrative : convictions[n] = convictions[b]}
<1>3. PICK n \in Best : \A m \in Best : n <= m
    BY <1>1, <1>2, LeastExists
<1>4. \A m \in Narrative : IF m < n THEN convictions[m] < convictions[n]
                                    ELSE convictions[m] <= convictions[n]
    BY <1>1, <1>2, <1>3
<1>5. n \in DOMAIN convictions /\ DOMAIN convictions = Narrative
    BY <1>3
<1> QED
    BY <1>4, <1>5 DEF Top

(***************************************************************************)
(* The invariant.  An evaluation that has counted its day and is not over   *)
(* is pending: until it ends, its day belongs neither to the scans nor to   *)
(* the evaluations that raised.                                             *)
(***************************************************************************)
Counting == phase \in {"prices", "evaluate"}
Pending == IF phase \in {"quotes", "trending"} THEN 1 ELSE 0

(* A cycle is begun only below the bound, and its day is not counted yet. *)
DaysLeft == Counting => day < MaxDay

(* Every day counted is that of a scan, of an evaluation that raised since, *)
(* or of the pending one; the days before the first scan are of the last    *)
(* two kinds.                                                               *)
DaysKnown ==
    /\ missed + Pending <= day
    /\ lastDay # NoDays =>
          \A n \in Narrative : lastDay[n] > 0 /\ lastDay[n] + missed + Pending = day

MarketInv == MarketTypeOK /\ DaysLeft /\ DaysKnown

(* the types of the client's variables, and of the engine's *)
ClientTypes ==
    /\ call \in {"idle", "asking", "answered", "raised"}
    /\ asked \in {{}, {"BNB"}, BasketTokens}
    /\ attempt \in 0 .. Retries
    /\ answer \in Quotes /\ cached \in Quotes
    /\ age \in 0 .. Ttl /\ trueAge \in 0 .. Ttl

EngineTypes ==
    /\ phase \in {"off", "setup", "ready", "prices", "evaluate", "quotes", "trending"}
    /\ day \in 0 .. MaxDay
    /\ lastDay \in [Narrative -> 0 .. day]
    /\ tries \in 0 .. Retries + 1
    /\ scan \in [top : Narrative, conviction : 0 .. 100] \cup {NoScan}
    /\ missed \in 0 .. day

EngineInv == EngineTypes /\ DaysLeft /\ DaysKnown

LEMMA InvSplits == MarketInv <=> ClientTypes /\ EngineInv
BY DEF MarketInv, MarketTypeOK, ClientTypes, EngineTypes, EngineInv

LEMMA NoQuotesType == NoQuotes \in Quotes
<1>1. NoQuotes \in [{} -> Quote]
    BY DEF NoQuotes
<1> QED
    BY <1>1 DEF Quotes

LEMMA NoDaysType ==
    ASSUME NEW d \in Nat
    PROVE  NoDays \in [Narrative -> 0 .. d]
BY DEF NoDays

LEMMA MarketInvInit == Init => MarketInv
<1> SUFFICES ASSUME Init PROVE MarketInv
    OBVIOUS
<1> USE ClientAssumption, BasketAssumption DEF Init, ClientInit
<1>1. ClientTypes
    BY NoQuotesType DEF ClientTypes
<1>2. EngineTypes
    BY NoDaysType DEF EngineTypes
<1>3. DaysLeft /\ DaysKnown
    BY DEF DaysLeft, DaysKnown, Counting, Pending
<1> QED
    BY <1>1, <1>2, <1>3, InvSplits DEF EngineInv

(* The client alone, between a question and its outcome. *)
LEMMA ClientKeepsTypes ==
    ASSUME ClientTypes, ClientStep
    PROVE  ClientTypes'
<1> USE ClientAssumption DEF ClientTypes
<1>1. ASSUME NEW quotes \in [asked -> Quote], Answers(quotes) PROVE ClientTypes'
  <2>1. quotes \in Quotes
      BY DEF Quotes
  <2> QED
      BY <1>1, <2>1 DEF Answers, Return
<1>2. CASE AttemptFails
    BY <1>2 DEF AttemptFails
<1>3. CASE AttemptAborts
    BY <1>3, NoQuotesType DEF AttemptAborts, Return
<1>4. CASE FallBack
    BY <1>4 DEF FallBack, Return
<1>5. CASE GiveUp
    BY <1>5, NoQuotesType DEF GiveUp, Return
<1> QED
    BY <1>1, <1>2, <1>3, <1>4, <1>5 DEF ClientStep

(* A question and the taking of its outcome keep the client's types. *)
LEMMA AskTypes ==
    ASSUME ClientTypes, NEW tokens \in {{"BNB"}, BasketTokens}, Ask(tokens)
    PROVE  ClientTypes'
BY ClientAssumption DEF ClientTypes, Ask

LEMMA TakeTypes ==
    ASSUME ClientTypes, TakeOutcome, UNCHANGED <<cached, age, trueAge>>
    PROVE  ClientTypes'
BY ClientAssumption, NoQuotesType DEF ClientTypes, TakeOutcome

LEMMA RestartTypes == ClientRestart => ClientTypes'
BY ClientAssumption, NoQuotesType DEF ClientTypes, ClientRestart

(* What a scan leaves is a narrative and a conviction of it. *)
LEMMA ScanType ==
    ASSUME MarketInv, NEW trending, Scan(trending)
    PROVE  /\ scan' \in [top : Narrative, conviction : 0 .. 100]
           /\ scan'.conviction = Conviction(scan'.top, trending)
<1> DEFINE convictions == [n \in Narrative |-> Conviction(n, trending)]
           top == Top(convictions)
<1>1. \A n \in Narrative : Conviction(n, trending) \in 0 .. 100
    BY ConvictionType DEF MarketInv
<1>2. convictions \in [Narrative -> Int] /\ convictions \in [Narrative -> 0 .. 100]
    BY <1>1
<1>3. scan' = [top |-> top, conviction |-> convictions[top]]
    BY DEF Scan
<1>4. top \in Narrative
  <2> HIDE DEF convictions
  <2> QED
      BY <1>2, TopExists
<1> HIDE DEF top
<1>5. convictions[top] \in 0 .. 100 /\ convictions[top] = Conviction(top, trending)
    BY <1>2, <1>4
<1> QED
    BY <1>3, <1>4, <1>5

(* After a scan every narrative has the day of the scan. *)
LEMMA ScanKeepsInv ==
    ASSUME MarketInv, NEW trending, Scan(trending)
    PROVE  MarketInv'
<1> USE ClientAssumption, BasketAssumption
<1>0. ClientTypes /\ EngineTypes /\ DaysKnown
    BY InvSplits DEF EngineInv
<1>1. phase = "trending" /\ TakeOutcome /\ UNCHANGED <<cached, age, trueAge, day>>
    BY DEF Scan
<1>2. ClientTypes'
    BY <1>0, <1>1, TakeTypes
<1>3. /\ lastDay' = [n \in Narrative |-> day] /\ missed' = 0 /\ tries' = 0
      /\ phase' = "ready" /\ day' = day
    BY DEF Scan
<1>4. day \in Nat /\ day >= 1
    BY <1>0, <1>1 DEF EngineTypes, DaysKnown, Pending
<1>5. EngineTypes'
    BY <1>0, <1>3, <1>4, ScanType DEF EngineTypes
<1>6. DaysLeft' /\ DaysKnown'
    BY <1>3, <1>4 DEF DaysLeft, DaysKnown, Counting, Pending
<1> QED
    BY <1>2, <1>5, <1>6, InvSplits, PTL DEF EngineInv

LEMMA MarketInvStep ==
    ASSUME MarketInv, [Next]_vars
    PROVE  MarketInv'
<1> USE ClientAssumption, BasketAssumption
<1>0. ClientTypes /\ EngineInv
    BY InvSplits
<1>a. ASSUME ClientTypes', EngineInv' PROVE MarketInv'
    BY <1>a, InvSplits, PTL
<1>1. CASE ClientStep /\ UNCHANGED <<phase, engineVars>>
  <2>1. ClientTypes'
      BY <1>0, <1>1, ClientKeepsTypes
  <2>2. EngineInv'
      BY <1>0, <1>1 DEF engineVars, EngineInv, EngineTypes, DaysLeft, DaysKnown, Counting, Pending
  <2> QED
      BY <1>a, <2>1, <2>2
<1>2. CASE Start
  <2>1. ClientTypes'
      BY <1>0, <1>2, AskTypes DEF Start
  <2>2. EngineInv'
      BY <1>0, <1>2 DEF Start, engineVars, EngineInv, EngineTypes, DaysLeft, DaysKnown,
                        Counting, Pending
  <2> QED
      BY <1>a, <2>1, <2>2
<1>3. CASE SetupEnds
  <2>1. ClientTypes'
      BY <1>0, <1>3, TakeTypes DEF SetupEnds
  <2>2. EngineInv'
      BY <1>0, <1>3 DEF SetupEnds, engineVars, EngineInv, EngineTypes, DaysLeft, DaysKnown,
                        Counting, Pending
  <2> QED
      BY <1>a, <2>1, <2>2
<1>4. CASE SetupFails \/ ProcessDies
  <2>1. Forget
      BY <1>4 DEF SetupFails, ProcessDies
  <2>2. ClientTypes'
      BY <2>1, RestartTypes DEF Forget
  <2>3. EngineInv'
      BY <2>1, NoDaysType DEF Forget, EngineInv, EngineTypes, DaysLeft, DaysKnown,
                              Counting, Pending
  <2> QED
      BY <1>a, <2>2, <2>3
<1>5. CASE BeginCycle
  <2>1. ClientTypes'
      BY <1>0, <1>5, AskTypes DEF BeginCycle
  <2>2. EngineInv'
      BY <1>0, <1>5 DEF BeginCycle, engineVars, EngineInv, EngineTypes, DaysLeft, DaysKnown,
                        Counting, Pending
  <2> QED
      BY <1>a, <2>1, <2>2
<1>6. CASE PricesTaken
  <2>1. ClientTypes'
      BY <1>0, <1>6, TakeTypes DEF PricesTaken
  <2>2. EngineInv'
      BY <1>0, <1>6 DEF PricesTaken, engineVars, EngineInv, EngineTypes, DaysLeft, DaysKnown,
                        Counting, Pending
  <2> QED
      BY <1>a, <2>1, <2>2
<1>7. CASE Evaluate
  <2>1. ClientTypes'
      BY <1>0, <1>7, AskTypes DEF Evaluate
  <2>2. phase = "evaluate" /\ phase' = "quotes" /\ day' = day + 1
        /\ UNCHANGED <<lastDay, tries, scan, missed>>
      BY <1>7 DEF Evaluate
  <2>3. day \in Nat /\ day < MaxDay
      BY <1>0, <2>2 DEF EngineInv, EngineTypes, DaysLeft, Counting
  <2>4. lastDay' \in [Narrative -> 0 .. day']
      BY <1>0, <2>2, <2>3 DEF EngineInv, EngineTypes
  <2>5. EngineInv'
      BY <1>0, <2>2, <2>3, <2>4 DEF EngineInv, EngineTypes, DaysLeft, DaysKnown, Counting, Pending
  <2> QED
      BY <1>a, <2>1, <2>5
<1>8. CASE QuotesRaise \/ FiguresRaise
  <2>1. ClientTypes'
      BY <1>0, <1>8, TakeTypes DEF QuotesRaise, FiguresRaise
  <2>2. /\ phase \in {"quotes", "trending"} /\ phase' = "ready"
        /\ missed' = missed + 1 /\ scan' = NoScan /\ tries' \in {tries, 0}
        /\ UNCHANGED <<day, lastDay>>
      BY <1>8 DEF QuotesRaise, FiguresRaise
  <2>3. EngineInv'
      BY <1>0, <2>2 DEF EngineInv, EngineTypes, DaysLeft, DaysKnown, Counting, Pending
  <2> QED
      BY <1>a, <2>1, <2>3
<1>9. CASE QuotesCome \/ TrendingFails
  <2>1. ClientTypes'
      BY <1>0, <1>9 DEF QuotesCome, TrendingFails, clientVars, ClientTypes
  <2>2. /\ phase \in {"quotes", "trending"} /\ phase' = "trending"
        /\ UNCHANGED <<day, lastDay, scan, missed>>
      BY <1>9 DEF QuotesCome, TrendingFails
  <2>3. tries' \in 0 .. Retries + 1
      BY <1>0, <1>9 DEF QuotesCome, TrendingFails, EngineInv, EngineTypes
  <2>4. EngineInv'
      BY <1>0, <2>2, <2>3 DEF EngineInv, EngineTypes, DaysLeft, DaysKnown, Counting, Pending
  <2> QED
      BY <1>a, <2>1, <2>4
<1>10. ASSUME NEW trending \in SUBSET BasketTokens, TrendingComes(trending) PROVE MarketInv'
    BY <1>10, ScanKeepsInv DEF TrendingComes
<1>11. CASE TrendingGivenUp
    BY <1>11, ScanKeepsInv DEF TrendingGivenUp
<1>12. CASE Tick /\ UNCHANGED <<phase, engineVars>>
  <2>1. ClientTypes'
      BY <1>0, <1>12 DEF Tick, ClientTypes
  <2>2. EngineInv'
      BY <1>0, <1>12 DEF engineVars, EngineInv, EngineTypes, DaysLeft, DaysKnown, Counting, Pending
  <2> QED
      BY <1>a, <2>1, <2>2
<1>13. CASE UNCHANGED vars
  <2>1. ClientTypes'
      BY <1>0, <1>13 DEF vars, clientVars, ClientTypes
  <2>2. EngineInv'
      BY <1>0, <1>13 DEF vars, engineVars, EngineInv, EngineTypes, DaysLeft, DaysKnown,
                         Counting, Pending
  <2> QED
      BY <1>a, <2>1, <2>2
<1> QED
    BY <1>1, <1>2, <1>3, <1>4, <1>5, <1>6, <1>7, <1>8, <1>9, <1>10, <1>11, <1>12, <1>13
       DEF Next, ProcessStep

(* Every variable of the client and of the engine has its type, the score   *)
(* of a scan among them: truncated, decayed and capped, it is a percentage, *)
(* and the narrative a scan puts on top exists (signal.py:253).             *)
THEOREM MarketTypes == Spec => []MarketTypeOK
<1>1. MarketInv => MarketTypeOK
    BY DEF MarketInv
<1> QED
    BY <1>1, MarketInvInit, MarketInvStep, PTL DEF Spec

(* The number of days a scan decays by is that of the evaluations that      *)
(* raised since the last scan, and its own.                                 *)
LEMMA ScanDecays ==
    ASSUME MarketInv, NEW trending, Scan(trending), lastDay # NoDays
    PROVE  scan'.conviction = Decayed(FreshScore(scan'.top, trending), missed + 1)
<1> DEFINE n == scan'.top
<1>1. n \in Narrative /\ scan'.conviction = Conviction(n, trending)
    BY ScanType
<1> HIDE DEF n
<1>2. phase = "trending"
    BY DEF Scan
<1>3. lastDay[n] > 0 /\ lastDay[n] + missed + 1 = day
    BY <1>1, <1>2 DEF MarketInv, DaysKnown, Pending
<1>4. lastDay[n] \in Nat /\ missed \in Nat /\ day \in Nat
    BY <1>1 DEF MarketInv, MarketTypeOK
<1>5. lastDay[n] # 0 /\ day - lastDay[n] = missed + 1
    BY <1>3, <1>4
<1>6. Conviction(n, trending) = Decayed(FreshScore(n, trending), missed + 1)
    BY <1>5 DEF Conviction
<1> QED
    BY <1>1, <1>6 DEF n

(* Convictions decay by the evaluations that raised since the last scan and *)
(* by nothing else (signal.py:259), for any narratives and any failures.    *)
THEOREM DecayIsOfOutages == Spec => OutagesDecay
<1> DEFINE P == \A trending \in SUBSET BasketTokens :
                  Scans(trending) /\ lastDay # NoDays =>
                      scan'.conviction = Decayed(FreshScore(scan'.top, trending), missed + 1)
<1>1. ASSUME MarketInv, NEW trending \in SUBSET BasketTokens, Scans(trending), lastDay # NoDays
      PROVE  scan'.conviction = Decayed(FreshScore(scan'.top, trending), missed + 1)
  <2>1. Scan(trending)
      BY <1>1 DEF Scans, TrendingComes, TrendingGivenUp
  <2> QED
      BY <1>1, <2>1, ScanDecays
<1>2. MarketInv /\ [Next]_vars => [P]_vars
    BY <1>1
<1>3. MarketInv /\ [Next]_vars => MarketInv'
    BY MarketInvStep
<1> QED
    BY <1>2, <1>3, MarketInvInit, PTL DEF Spec, OutagesDecay

(***************************************************************************)
(* Ties.  Of decayed scores that are still worth a buy only two can become  *)
(* equal, and the better of them is one of an AI narrative, which comes     *)
(* before the others.                                                       *)
(***************************************************************************)
LEMMA SmallPowers ==
    /\ Power(9, 2) = 81 /\ Power(10, 2) = 100
    /\ \A k \in Nat : k >= 3 => 27 * Power(9, k) < 20 * Power(10, k)
<1>1. ASSUME NEW k \in Nat, k >= 2
      PROVE  /\ k = 2 => Power(9, k) = 81 /\ Power(10, k) = 100
             /\ k >= 3 => 27 * Power(9, k) < 20 * Power(10, k)
  <2> DEFINE low == CHOOSE p : Multiplies(9, k, p)
             high == CHOOSE p : Multiplies(10, k, p)
             Good == {i \in 0 .. k :
                         /\ low[i] \in Nat /\ high[i] \in Nat
                         /\ i = 0 => low[i] = 1 /\ high[i] = 1
                         /\ i = 1 => low[i] = 9 /\ high[i] = 10
                         /\ i = 2 => low[i] = 81 /\ high[i] = 100
                         /\ i >= 3 => 27 * low[i] < 20 * high[i]}
  <2>1. Power(9, k) = low[k] /\ Power(10, k) = high[k]
      BY DEF Power, Multiplies
  <2>2. Multiplies(9, k, low) /\ Multiplies(10, k, high)
      BY PowersExist
  <2> HIDE DEF low, high
  <2>3. \A i \in 0 .. k : /\ low[i] = IF i = 0 THEN 1 ELSE 9 * low[i - 1]
                          /\ high[i] = IF i = 0 THEN 1 ELSE 10 * high[i - 1]
      BY <2>2 DEF Multiplies
  <2>4. 0 \in Good
      BY <2>3
  <2>5. ASSUME NEW i \in 1 .. k, i - 1 \in Good PROVE i \in Good
    <3>1. i \in 0 .. k /\ i # 0
        OBVIOUS
    <3>2. low[i] = 9 * low[i - 1] /\ high[i] = 10 * high[i - 1]
        BY <2>3, <3>1
    <3>3. low[i] \in Nat /\ high[i] \in Nat
        BY <2>5, <3>2
    <3>4. CASE i \in {1, 2, 3}
        BY <2>5, <3>2, <3>3, <3>4
    <3>5. CASE i > 3
      <4>1. 27 * low[i - 1] < 20 * high[i - 1] /\ low[i - 1] \in Nat /\ high[i - 1] \in Nat
          BY <2>5, <3>5
      <4> QED
          BY <3>2, <3>3, <3>5, <4>1
    <3> QED
        BY <3>4, <3>5
  <2>6. 0 .. k \subseteq Good
    <3> HIDE DEF Good
    <3> QED
        BY <2>4, <2>5, BoundedInduction
  <2>7. k \in Good
      BY <2>6
  <2> QED
      BY <1>1, <2>1, <2>7
<1> QED
    BY <1>1

(* The scores live figures earn in the regime there always is. *)
LEMMA LiveScores ==
    ASSUME NEW n, NEW ret \in Int, NEW hot \in BOOLEAN
    PROVE  LET score == Fresh(n, FiguresOf(ret, hot), Regime)
           IN  /\ score \in 0 .. 27
               /\ n \in AINarratives => score # 26
               /\ n \notin AINarratives => score # 27
<1> DEFINE d == FiguresOf(ret, hot)
<1>1. /\ d.rs = 100 /\ d.ret = ret /\ d.dd = 15 /\ d.rsi = 50 /\ d.volume = 0
      /\ d.liquidity = 10 /\ d.spread = 5 /\ d.social = 0 /\ d.holders = 0
      /\ d.volatility = 50 /\ d.kaito = FALSE /\ d.first = FALSE /\ d.second = FALSE
      /\ d.rank \in {1, 50}
    BY DEF FiguresOf
<1> HIDE DEF d
<1>2. Momentum(d) \in {5, 15, 25, 40}
    BY <1>1 DEF Momentum, When, Clamp, Greater, Lesser
<1>3. Liquidity(d) = 0 /\ Attention(d) \in {0, 30}
    BY <1>1 DEF Liquidity, Attention, When, Clamp, Greater, Lesser
<1>4. RiskScore(d) = 100
    BY <1>1 DEF RiskScore, Exhaustion, When, Clamp, Greater, Lesser
<1>5. IF n \in AINarratives THEN Fundamental(n, d) = 15 ELSE Fundamental(n, d) \in {0, 10}
    BY <1>1 DEF Fundamental, When, Tested
<1>6. Regime = "TRANSITION"
    BY DEF Regime, MarketRegime
<1>7. Adjusted(n, d, Regime) = (RawScore(n, d) * 9) \div 1000
    BY <1>6 DEF Adjusted, RegimeMult
<1>8. Fresh(n, d, Regime) = Lesser(Adjusted(n, d, Regime), 75)
    BY <1>6 DEF Fresh, ConvictionCap
<1>9. PICK m \in {5, 15, 25, 40}, a \in {0, 30}, f \in {0, 10, 15} :
          /\ RawScore(n, d) = 30 * m + 20 * a + 15 * f + 1000
          /\ n \in AINarratives <=> f = 15
  <2>1. Fundamental(n, d) \in {0, 10, 15} /\ (n \in AINarratives <=> Fundamental(n, d) = 15)
      BY <1>5
  <2>2. \A x, y, z \in Int : 30 * x + 25 * 0 + 20 * y + 15 * z + 10 * 100
                                 = 30 * x + 20 * y + 15 * z + 1000
      OBVIOUS
  <2>3. RawScore(n, d) = 30 * Momentum(d) + 20 * Attention(d) + 15 * Fundamental(n, d) + 1000
      BY <1>2, <1>3, <1>4, <2>1, <2>2 DEF RawScore
  <2> QED
      BY <1>2, <1>3, <2>1, <2>3
<1> DEFINE raw == 30 * m + 20 * a + 15 * f + 1000
           score == (raw * 9) \div 1000
<1>10. score \in 0 .. 27 /\ (f = 15 => score # 26) /\ (f # 15 => score # 27)
  <2>1. raw \in 1150 .. 3025 /\ (f # 15 => raw <= 2950)
      OBVIOUS
  <2>2. f = 15 => raw <= 2575 \/ raw = 3025
      OBVIOUS
  <2> HIDE DEF raw
  <2>3. score \in 0 .. 27 /\ (f # 15 => score <= 26) /\ (raw <= 2575 => score <= 23)
        /\ (raw = 3025 => score = 27)
      BY <2>1
  <2> QED
      BY <2>2, <2>3
<1> QED
    BY <1>7, <1>8, <1>9, <1>10 DEF Lesser, d

(* What a better score loses to a worse one in decaying. *)
LEMMA DecayedTies ==
    ASSUME NEW a \in 0 .. 27, NEW b \in 0 .. 27, a < b, NEW days \in Nat,
           Decayed(b, days) <= Decayed(a, days), 20 <= Decayed(a, days)
    PROVE  a = 26 /\ b = 27 /\ Decayed(a, days) = Decayed(b, days)
<1>1. days > 1
    BY DEF Decayed
<1>2. CASE days = 2
  <2>1. Decayed(a, days) = (a * 81) \div 100 /\ Decayed(b, days) = (b * 81) \div 100
      BY <1>2, SmallPowers DEF Decayed
  <2> QED
      BY <2>1
<1>3. CASE days >= 3
  <2> DEFINE low == Power(9, days)
             high == Power(10, days)
  <2>1. low \in Nat /\ high \in Nat \ {0} /\ 27 * low < 20 * high
      BY <1>3, PowerFacts, SmallPowers
  <2> HIDE DEF low, high
  <2>2. a * low <= 27 * low /\ a * low \in Nat
    <3>1. 27 - a \in Nat /\ (27 - a) * low \in Nat /\ a * low \in Nat
        BY <2>1
    <3>2. (27 - a) * low = 27 * low - a * low
        BY <2>1
    <3> QED
        BY <2>1, <3>1, <3>2
  <2> DEFINE top == a * low
             q == top \div high
  <2>3. top \in Nat /\ top < 20 * high
      BY <2>1, <2>2
  <2> HIDE DEF top
  <2>4. q < 20
      BY <2>1, <2>3
  <2>5. Decayed(a, days) = q
      BY <1>1 DEF Decayed, q, top, low, high
  <2> QED
      BY <2>1, <2>3, <2>4, <2>5
<1> QED
    BY <1>1, <1>2, <1>3

LEMMA FreshScores ==
    ASSUME MarketInv, NEW n \in Narrative, NEW trending
    PROVE  LET score == FreshScore(n, trending)
           IN  /\ score \in 0 .. 27
               /\ Baskets[n].name \in AINarratives => score # 26
               /\ Baskets[n].name \notin AINarratives => score # 27
<1> DEFINE ret == Return7d(n)
           hot == Baskets[n].tokens \cap trending # {}
<1>1. ret \in Changes \cup {0} /\ ret \in Int
  <2>1. \A c \in Changes \cup {0} : c \in Int
      BY ClientAssumption
  <2> QED
      BY <2>1, ReturnType DEF MarketInv
<1>2. hot \in BOOLEAN
    OBVIOUS
<1> HIDE DEF ret, hot
<1>3. LiveScore[n][ret][hot] = Fresh(Baskets[n].name, FiguresOf(ret, hot), Regime)
    BY <1>1, <1>2 DEF LiveScore
<1>4. FreshScore(n, trending) = LiveScore[n][ret][hot]
    BY DEF FreshScore, ret, hot
<1> QED
    BY <1>1, <1>2, <1>3, <1>4, LiveScores

(* All narratives decay by the same days. *)
LEMMA DecayTogether ==
    ASSUME MarketInv, phase = "trending", NEW trending
    PROVE  \E days \in Nat : \A n \in Narrative :
               Conviction(n, trending) = Decayed(FreshScore(n, trending), days)
<1>1. CASE lastDay = NoDays
  <2>1. \A n \in Narrative : lastDay[n] = 0
      BY <1>1 DEF NoDays
  <2>2. \A n \in Narrative : Conviction(n, trending) = Decayed(FreshScore(n, trending), 0)
      BY <2>1 DEF Conviction
  <2> QED
      BY <2>2
<1>2. CASE lastDay # NoDays
  <2>1. missed + 1 \in Nat
      BY DEF MarketInv, MarketTypeOK
  <2>2. \A n \in Narrative : lastDay[n] # 0 /\ day - lastDay[n] = missed + 1
    <3> SUFFICES ASSUME NEW n \in Narrative
                 PROVE  lastDay[n] # 0 /\ day - lastDay[n] = missed + 1
        OBVIOUS
    <3>1. lastDay[n] > 0 /\ lastDay[n] + missed + 1 = day
        BY <1>2 DEF MarketInv, DaysKnown, Pending
    <3>2. lastDay[n] \in Nat /\ missed \in Nat /\ day \in Nat
        BY DEF MarketInv, MarketTypeOK
    <3> QED
        BY <3>1, <3>2
  <2>3. \A n \in Narrative : Conviction(n, trending) = Decayed(FreshScore(n, trending), missed + 1)
      BY <2>2 DEF Conviction
  <2> QED
      BY <2>1, <2>3
<1> QED
    BY <1>1, <1>2

LEMMA BestOnTop ==
    ASSUME MarketInv, NEW trending, Scan(trending), IsLong(scan'.conviction), NEW m \in Narrative
    PROVE  FreshScore(m, trending) <= FreshScore(scan'.top, trending)
<1> DEFINE convictions == [n \in Narrative |-> Conviction(n, trending)]
           top == Top(convictions)
           fresh(n) == FreshScore(n, trending)
<1>1. \A n \in Narrative : Conviction(n, trending) \in 0 .. 100
    BY ConvictionType DEF MarketInv
<1>2. convictions \in [Narrative -> Int]
    BY <1>1
<1>3. scan' = [top |-> top, conviction |-> convictions[top]] /\ phase = "trending"
    BY DEF Scan
<1>4. /\ top \in Narrative
      /\ \A n \in Narrative : IF n < top THEN convictions[n] < convictions[top]
                                         ELSE convictions[n] <= convictions[top]
  <2> HIDE DEF convictions
  <2> QED
      BY <1>2, TopExists
<1>5. PICK days \in Nat : \A n \in Narrative : convictions[n] = Decayed(fresh(n), days)
    BY <1>3, DecayTogether
<1>6. \A n \in Narrative : /\ fresh(n) \in 0 .. 27
                           /\ Baskets[n].name \in AINarratives => fresh(n) # 26
                           /\ Baskets[n].name \notin AINarratives => fresh(n) # 27
    BY FreshScores
<1>7. convictions[top] >= 20
    BY <1>2, <1>3, <1>4 DEF IsLong, Verdict
<1> HIDE DEF convictions, top, fresh
<1>8. SUFFICES ASSUME fresh(top) < fresh(m)
               PROVE  FALSE
  <2>1. scan'.top = top /\ fresh(m) \in Nat /\ fresh(top) \in Nat
      BY <1>3, <1>4, <1>6
  <2> QED
      BY <1>8, <2>1 DEF fresh
<1>9. convictions[m] <= convictions[top] /\ convictions[m] \in Int /\ convictions[top] \in Int
    BY <1>2, <1>4
<1>10. /\ Decayed(fresh(m), days) <= Decayed(fresh(top), days)
       /\ 20 <= Decayed(fresh(top), days)
    BY <1>4, <1>5, <1>7, <1>9
<1>11. fresh(top) = 26 /\ fresh(m) = 27 /\ Decayed(fresh(top), days) = Decayed(fresh(m), days)
    BY <1>4, <1>6, <1>8, <1>10, DecayedTies
<1>12. Baskets[m].name \in AINarratives /\ Baskets[top].name \notin AINarratives
    BY <1>4, <1>6, <1>11
<1>13. m < top
  <2>1. m \in Int /\ top \in Int
      BY <1>4 DEF Narrative
  <2>2. ~(top < m) /\ top # m
      BY <1>4, <1>8, <1>12, OrderAssumption
  <2> QED
      BY <2>1, <2>2
<1>14. convictions[m] < convictions[top] /\ convictions[m] = convictions[top]
    BY <1>4, <1>5, <1>11, <1>13
<1> QED
    BY <1>9, <1>14

(* A conviction that is traded on belongs to a narrative no other one beat  *)
(* by its fresh score (signal.py:285): for any tokens, quotes and outages,  *)
(* and any narratives of which those of AI come first.                      *)
THEOREM TheBestIsBought == Spec => BestIsBought
<1> DEFINE P == \A trending \in SUBSET BasketTokens :
                  Scans(trending) /\ IsLong(scan'.conviction) =>
                      \A n \in Narrative :
                          FreshScore(n, trending) <= FreshScore(scan'.top, trending)
<1>1. ASSUME MarketInv, NEW trending \in SUBSET BasketTokens, Scans(trending),
             IsLong(scan'.conviction), NEW n \in Narrative
      PROVE  FreshScore(n, trending) <= FreshScore(scan'.top, trending)
  <2>1. Scan(trending)
      BY <1>1 DEF Scans, TrendingComes, TrendingGivenUp
  <2> QED
      BY <1>1, <2>1, BestOnTop
<1>2. MarketInv /\ [Next]_vars => [P]_vars
    BY <1>1
<1>3. MarketInv /\ [Next]_vars => MarketInv'
    BY MarketInvStep
<1> QED
    BY <1>2, <1>3, MarketInvInit, PTL DEF Spec, BestIsBought

=============================================================================

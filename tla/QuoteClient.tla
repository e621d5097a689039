---------------------------- MODULE QuoteClient ----------------------------
(***************************************************************************)
(* CMCClient.get_bulk_quotes of src/cmc_client.py: up to Retries attempts   *)
(* with a pause after each that fails, and, when all of them fail, the last *)
(* answer of an earlier call if it is young enough.  Its callers take       *)
(* turns, so there is one call at a time.                                   *)
(*                                                                         *)
(* A quote is the 7-day change of a token, or Error: the dict with an       *)
(* "error" key that _extract_quote makes of a token the answer lacks, or of *)
(* every token when the answer is an error with status 200.  Time is the    *)
(* age of what is cached, which stops counting at the time to live.         *)
(***************************************************************************)
EXTENDS Integers, Functions

CONSTANTS
    Changes,    \* the 7-day changes a token may have, in percent
    Error,      \* the quote of a token CMC has no data for
    Retries,    \* CMC_RETRIES
    Ttl         \* CACHE_TTL_SECONDS, in ticks of the clock

ASSUME ClientAssumption ==
    /\ Changes \subseteq Int /\ Error \notin Changes
    /\ Retries \in Nat \ {0} /\ Ttl \in Nat \ {0}

Quote == Changes \cup {Error}
NoQuotes == [t \in {} |-> Error]

VARIABLES
    call,       \* "idle", "asking", "answered" or "raised"
    asked,      \* the tokens the call is about
    attempt,    \* attempts of the call that have failed
    answer,     \* what the call returned
    cached,     \* _cached_result
    age,        \* time since _last_success, as far as the client knows
    trueAge     \* history: time since CMC sent what is cached

clientVars == <<call, asked, attempt, answer, cached, age, trueAge>>

ClientInit ==
    /\ call = "idle" /\ asked = {} /\ attempt = 0 /\ answer = NoQuotes
    /\ cached = NoQuotes /\ age = Ttl /\ trueAge = Ttl

(* get_bulk_quotes(symbol_map) *)
Ask(tokens) ==
    /\ call = "idle"
    /\ call' = "asking" /\ asked' = tokens /\ attempt' = 0
    /\ UNCHANGED <<answer, cached, age, trueAge>>

(* the caller takes the outcome *)
TakeOutcome == call' = "idle" /\ asked' = {} /\ attempt' = 0 /\ answer' = NoQuotes

Return(outcome, quotes) == call' = outcome /\ answer' = quotes

(* status 200: whatever the body says, it is cached *)
Answers(quotes) ==
    /\ call = "asking" /\ attempt < Retries
    /\ quotes \in [asked -> Quote]
    /\ Return("answered", quotes)
    /\ cached' = quotes
    /\ age' = 0 /\ trueAge' = 0
    /\ UNCHANGED <<asked, attempt>>

(* mutant: one attempt too many *)
AttemptFailsOnceMore ==
    /\ call = "asking" /\ attempt <= Retries
    /\ attempt' = attempt + 1
    /\ UNCHANGED <<call, asked, answer, cached, age, trueAge>>

(* another status, a timeout, a connection error: wait, then try again *)
AttemptFails ==
    /\ call = "asking" /\ attempt < Retries
    /\ attempt' = attempt + 1
    /\ UNCHANGED <<call, asked, answer, cached, age, trueAge>>

(* an exception the loop does not catch: a body that is no JSON or no       *)
(* object, a Retry-After that is no number                                  *)
AttemptAborts ==
    /\ call = "asking" /\ attempt < Retries
    /\ Return("raised", NoQuotes)
    /\ UNCHANGED <<asked, attempt, cached, age, trueAge>>

AllFailed == call = "asking" /\ attempt = Retries
FallbackAllowed == cached # NoQuotes /\ age < Ttl

(* mutant: serving the cache counts as a success *)
FallBackRenewing ==
    /\ AllFailed /\ FallbackAllowed
    /\ Return("answered", cached)
    /\ age' = 0
    /\ UNCHANGED <<asked, attempt, cached, trueAge>>

(* the last answer, whichever tokens it was about *)
FallBack ==
    /\ AllFailed /\ FallbackAllowed
    /\ Return("answered", cached)
    /\ UNCHANGED <<asked, attempt, cached, age, trueAge>>

GiveUp ==
    /\ AllFailed /\ ~FallbackAllowed
    /\ Return("raised", NoQuotes)
    /\ UNCHANGED <<asked, attempt, cached, age, trueAge>>

(* time passes, in a pause between attempts as well as between calls *)
Tick ==
    /\ age < Ttl \/ trueAge < Ttl
    /\ age' = IF age < Ttl THEN age + 1 ELSE age
    /\ trueAge' = IF trueAge < Ttl THEN trueAge + 1 ELSE trueAge
    /\ UNCHANGED <<call, asked, attempt, answer, cached>>

ClientStep ==
    \/ \E quotes \in [asked -> Quote] : Answers(quotes)
    \/ AttemptFails \/ AttemptAborts \/ FallBack \/ GiveUp

(* a new process: a new client *)
ClientRestart ==
    /\ call' = "idle" /\ asked' = {} /\ attempt' = 0 /\ answer' = NoQuotes
    /\ cached' = NoQuotes /\ age' = Ttl /\ trueAge' = Ttl
=============================================================================

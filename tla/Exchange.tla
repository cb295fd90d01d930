------------------------------ MODULE Exchange ------------------------------
(***************************************************************************)
(* What execute_inner() takes for granted of a request between the lookup  *)
(* of its name and the status it judges: the name is resolved once, the    *)
(* attempts are few enough, and what answers is the request's own URL, or, *)
(* after a redirect that is followed, another one that does not redirect.  *)
(***************************************************************************)
EXTENDS Naturals

CONSTANTS
    Urls, Statuses,
    None            \* the answer, as long as there is none

VARIABLES
    asked,      \* the request: its url, its budget of attempts, and if it follows
    stage, retries, answer

exchangeVars == <<asked, stage, retries, answer>>

Redirects == (300 .. 399) \ {304}

ExchangeInit ==
    /\ asked.url \in Urls
    /\ stage = "resolve" /\ retries = 0 /\ answer = None

Fail ==
    /\ stage \in {"resolve", "attempt", "chain"}
    /\ stage' = "failed"
    /\ UNCHANGED <<asked, retries, answer>>

FindName ==
    /\ stage = "resolve" /\ stage' = "attempt"
    /\ UNCHANGED <<asked, retries, answer>>

TryAgain ==
    /\ stage = "attempt" /\ retries + 1 < asked.budget
    /\ retries' = retries + 1
    /\ UNCHANGED <<asked, stage, answer>>

Answer(statuses, urls) ==
    /\ stage' = "answered" /\ answer' \in [status : statuses, url : urls]
    /\ UNCHANGED <<asked, retries>>

Reply ==
    /\ stage = "attempt"
    /\ IF asked.follows THEN Answer(Statuses \ Redirects, {asked.url})
       ELSE Answer(Statuses, {asked.url})

BeginChain ==
    /\ stage = "attempt" /\ asked.follows
    /\ stage' = "chain"
    /\ UNCHANGED <<asked, retries, answer>>

\* However long the chain is, what ends it is no redirect, and not an answer of
\* the URL that was asked for.
EndChain ==
    /\ stage = "chain"
    /\ Answer(Statuses \ Redirects, Urls \ {asked.url})

ExchangeNext == Fail \/ FindName \/ TryAgain \/ Reply \/ BeginChain \/ EndChain

ExchangeSpec == ExchangeInit /\ [][ExchangeNext]_exchangeVars
=============================================================================

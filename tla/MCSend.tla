------------------------------- MODULE MCSend -------------------------------
(***************************************************************************)
(* Requests that share one cache, one limiter and one abort signal. URL U  *)
(* is u in a spelling that is not its canonical form. Replies hold one     *)
(* status of each class the code tells apart.                              *)
(***************************************************************************)
EXTENDS Send, TLC

CONSTANTS r1, r2, r3, s1, u, v, U

MCSpellings == {u, v, U}
MCCanonical == u :> u @@ v :> v @@ U :> u

Full == [method |-> "GET", url |-> u, limited |-> TRUE, cached |-> TRUE,
         signal |-> s1, attempts |-> 2,
         retryOn |-> {"NetworkTimeout", "ServerError", "RateLimited"},
         follows |-> FALSE, progress |-> FALSE, intercepted |-> FALSE]

\* A GET that may be aborted, redirected to v and intercepted; a POST that is retried,
\* also on what is not transient; and a GET whose answer is stored under the key that
\* the first one looks up.
MCConfig ==
    r1 :> [Full EXCEPT !.attempts = 0, !.follows = TRUE, !.intercepted = TRUE]
 @@ r2 :> [Full EXCEPT !.method = "POST", !.retryOn = {"RateLimited", "Connection", "Other"},
                       !.signal = Nobody]
 @@ r3 :> [Full EXCEPT !.url = U, !.attempts = 0, !.progress = TRUE, !.signal = Nobody]

MCReplies ==
    [status : {200}, headers : {{"set-cookie", "etag"}, {"no-store"}}]
    \cup [status : {302, 304, 429, 503}, headers : {{"set-cookie"}}]

MCSpaced == {r1}
MCInterval == [r \in MCSpaced |-> 1]
=============================================================================

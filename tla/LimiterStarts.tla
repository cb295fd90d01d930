---------------------------- MODULE LimiterStarts ----------------------------
(***************************************************************************)
(* When requests start, as seen by somebody who watches acquire() return   *)
(* (rate_limit.rs:76-96).  The limiter decides by last_started, an instant *)
(* that it writes itself and that a clone without min_interval neither     *)
(* reads nor writes; the clock of this module is restarted by the starts   *)
(* themselves.  It is history: no step of the limiter depends on it.       *)
(***************************************************************************)
EXTENDS RateLimiter

VARIABLE
    ago     \* ticks since a clone with an interval returned from acquire(), at
            \* most Longest, which is also "never"

startVars == <<limiterVars, ago>>

\* acquire() returns its guard to t in this step; try_acquire() is not meant.
Starts(t) == stage[t] \in {"granted", "spacing"} /\ stage'[t] = "held"

StartsInit == LimiterInit /\ ago = Longest

\* A step of a task, which restarts the clock if it is a start.
TaskStep ==
    /\ \E t \in Tasks : LimiterStep(t)
    /\ ago' = IF \E t \in Spaced : Starts(t) THEN 0 ELSE ago

\* Time passes, also when the limiter's own clock has come to its end.
TimePasses ==
    /\ \/ Tick
       \/ /\ sinceLast = Longest
          /\ UNCHANGED limiterVars
    /\ ago' = IF ago < Longest THEN ago + 1 ELSE Longest

StartsNext == TaskStep \/ TimePasses

StartsSpec == StartsInit /\ [][StartsNext]_startVars

FairStartsSpec == StartsSpec /\ LimiterFairness
-----------------------------------------------------------------------------
AgoIsTyped == ago \in 0 .. Longest

\* Of two starts through acquire() by clones that have an interval, the later
\* comes at least its own interval after the earlier, whoever waits, starts
\* without an interval or is cancelled in between (rate_limit.rs:84-93).  That
\* is less than "the next start waits until the interval has elapsed since the
\* previous one" (:55-56): a start by a clone without an interval is recorded
\* nowhere (:84), and one that is to be spaced may follow it at once.
StartsAreSpaced ==
    [][\A t \in Spaced : Starts(t) => ago >= Interval[t]]_startVars
=============================================================================

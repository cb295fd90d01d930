----------------------------- MODULE PermitPool -----------------------------
(***************************************************************************)
(* What a RateLimiter promises about permits, whatever it does inside: at  *)
(* most Permits tasks are in, one comes in at once only when nobody is     *)
(* waiting, the others come in in the order they asked, and no place stays *)
(* empty while somebody waits.                                             *)
(***************************************************************************)
EXTENDS Naturals, Sequences, FiniteSets, SequencesExt

CONSTANTS Tasks, Permits

VARIABLES
    holders,    \* the tasks that are in
    line        \* the tasks that wait, in order of arrival

poolVars == <<holders, line>>

PoolInit == holders = {} /\ line = <<>>

Enter(t) ==
    /\ t \notin holders \cup Range(line)
    /\ \/ /\ line = <<>>
          /\ Cardinality(holders) < Permits
          /\ holders' = holders \cup {t}
          /\ UNCHANGED line
       \/ /\ Cardinality(holders) = Permits
          /\ line' = Append(line, t)
          /\ UNCHANGED holders

Leave(t) ==
    /\ t \in holders
    /\ \/ /\ line = <<>>
          /\ holders' = holders \ {t}
          /\ UNCHANGED line
       \/ /\ line # <<>>
          /\ holders' = (holders \ {t}) \cup {Head(line)}
          /\ line' = Tail(line)

GiveUp(t) ==
    /\ \E i \in DOMAIN line : line[i] = t /\ line' = RemoveAt(line, i)
    /\ UNCHANGED holders

PoolNext == \E t \in Tasks : Enter(t) \/ Leave(t) \/ GiveUp(t)

PoolSpec == PoolInit /\ [][PoolNext]_poolVars
=============================================================================

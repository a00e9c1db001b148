------------------------------ MODULE MCClient ------------------------------
(* Client with two bounds for TLC.  The actors of a layer start in one      *)
(* order: they are alike, so that of the behaviours that differ only in     *)
(* their names one is enough, for what the properties say of all of them.   *)
(* And the calls through the pool are of different kinds.                   *)
EXTENDS Client

FirstIsFirst(S, Started(_)) == (\E x \in S : Started(x)) => Started(One(S))

Begun(f)     == begun[f] > 0 \/ \E i \in DOMAIN issued : issued[i].flow = f
Submitted(c) == source[c] # "none"
Entered(s)   == loopAt[s] # "new"
IsHandled(r) == where[r] # "new"
Called(c)    == attempt[c] > 0

InOrder ==
  /\ FirstIsFirst(Flows, Begun)
  /\ FirstIsFirst(Samplings, Submitted)
  /\ FirstIsFirst(Samples, Entered)
  /\ FirstIsFirst(Handled, IsHandled)
  /\ FirstIsFirst(Calls, Called)

MCInit == Init /\ (layer = "requests" => \A c, d \in Calls : c # d => kind[c] # kind[d])
MCNext == Next /\ InOrder'
MCSpec == MCInit /\ [][MCNext]_vars /\ Fairness

=============================================================================

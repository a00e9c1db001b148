----------------------------- MODULE ClientProofs -----------------------------
(***************************************************************************)
(* The layers of Client, for any calls, flows, threads, samples, samplings *)
(* and bodies and any bounds.  The invariant of each layer is one of Spec, *)
(* by a lemma that a step of Client is a step of the layer or leaves it as *)
(* it is.                                                                  *)
(***************************************************************************)
EXTENDS Client, SumTheorems

(***************************************************************************)
(* Custom losses: the gradients belong to the weights that the flow knows  *)
(* of, for any flows and any number of calls.                              *)
(***************************************************************************)
PassKinds    == {"forward", "backward", "optim"}
LossPlaces   == {"free", "check", "forward", "result", "loss", "gradients", "backward", "dispatch"}
LossRequests == [flow : Flows, kind : PassKinds, call : Nat, ok : BOOLEAN]

LossTypeOK == /\ issued \in Seq(LossRequests) /\ dispatched \in 0..Len(issued)
              /\ lossAt \in [Flows -> LossPlaces] /\ begun \in [Flows -> Nat]
              /\ asked \in [Flows -> Asks \cup {Nothing}]

(* No optimizer step of the flow was issued after request i, up to request n. *)
Fresh(i, f, n) == \A k \in i+1..n : issued[k].kind = "optim" => issued[k].flow # f

(* A pass that the server has not seen is the one its flow waits for, and *)
(* the flow has issued nothing since.                                     *)
Awaited(i) ==
  /\ issued[i].kind = "forward" =>
       /\ lossAt[issued[i].flow] = "forward" /\ issued[i].call = begun[issued[i].flow]
       /\ issued[i].ok /\ Fresh(i, issued[i].flow, Len(issued))
  /\ issued[i].kind = "backward" => lossAt[issued[i].flow] = "dispatch"
PassesAreAwaited == \A i \in dispatched+1..Len(issued) : Awaited(i)

OnePassEach ==
  \A i, j \in dispatched+1..Len(issued) :
    i # j /\ issued[i].kind # "optim" /\ issued[j].kind # "optim" => issued[i].flow # issued[j].flow

(* From the result to the backward pass, the forward pass of the call is *)
(* executed and still the last word of the flow.                         *)
ForwardIsCurrent ==
  \A f \in Flows :
    lossAt[f] \in {"result", "loss", "gradients", "backward"} /\ asked[f].data # "empty" =>
      \E i \in 1..dispatched :
        /\ issued[i].kind = "forward" /\ issued[i].flow = f /\ issued[i].call = begun[f]
        /\ issued[i].ok /\ Fresh(i, f, Len(issued))

LossInv == /\ LossTypeOK /\ PassesAreAwaited /\ OnePassEach /\ ForwardIsCurrent
           /\ GradientsAreCurrent

LEMMA LossInitially == LossInit => LossInv
  BY DEF LossInit, LossInv, LossTypeOK, PassesAreAwaited, OnePassEach, ForwardIsCurrent,
         GradientsAreCurrent, LossPlaces

LEMMA IssuedRequests ==
  ASSUME LossTypeOK
  PROVE  /\ Len(issued) \in Nat /\ dispatched \in Nat /\ dispatched <= Len(issued)
         /\ \A i \in 1..Len(issued) :
              issued[i] \in LossRequests /\ issued[i].flow \in Flows /\ issued[i].kind \in PassKinds
         /\ \A i \in dispatched+1..Len(issued) : i \in 1..Len(issued)
<1>1. Len(issued) \in Nat /\ dispatched \in Nat /\ dispatched <= Len(issued)
  BY DEF LossTypeOK
<1>2. ASSUME NEW i \in 1..Len(issued) PROVE issued[i] \in LossRequests
  BY DEF LossTypeOK
<1> QED
  BY <1>1, <1>2 DEF LossRequests

(* What issuing one more request leaves as it was. *)
LEMMA Issuing ==
  ASSUME LossTypeOK, NEW f \in Flows, NEW pass \in PassKinds, Issue(f, pass)
  PROVE  /\ issued' \in Seq(LossRequests) /\ Len(issued') = Len(issued) + 1 /\ Len(issued) \in Nat
         /\ \A i \in 1..Len(issued) : issued'[i] = issued[i]
         /\ LET r == issued'[Len(issued) + 1]
            IN  r.flow = f /\ r.kind = pass /\ r.call = begun[f] /\ r.ok
  BY DEF LossTypeOK, Issue, LossRequests

(* A step of a flow that issues nothing and asks for nothing. *)
LEMMA Quiet ==
  ASSUME LossInv, NEW f \in Flows, NEW at \in LossPlaces,
         lossAt[f] \notin {"forward", "dispatch"},
         lossAt' = [lossAt EXCEPT ![f] = at], UNCHANGED <<issued, dispatched>>,
         \/ at \in {"free", "check"}
         \/ at \in {"loss", "gradients", "backward"} /\ asked'[f] = asked[f]
              /\ (lossAt[f] \in {"result", "loss", "gradients"} \/ asked[f].data = "empty"),
         asked' \in [Flows -> Asks \cup {Nothing}], begun' \in [Flows -> Nat],
         \A g \in Flows \ {f} : asked'[g] = asked[g] /\ begun'[g] = begun[g],
         lossAt[f] # "free" => begun' = begun
  PROVE  LossInv'
<1> USE DEF LossInv
<1>1. LossTypeOK'
  BY DEF LossTypeOK
<1>2. PassesAreAwaited' /\ OnePassEach'
  <2>1. OnePassEach'
    BY DEF OnePassEach
  <2>2. ASSUME NEW i \in dispatched+1..Len(issued) PROVE Awaited(i)'
    <3>1. issued[i].flow \in Flows /\ issued[i].kind \in PassKinds
      BY IssuedRequests
    <3>2. Awaited(i)
      BY DEF PassesAreAwaited
    <3>3. issued[i].kind # "optim" => issued[i].flow # f
      BY <3>1, <3>2 DEF Awaited, PassKinds
    <3> QED
      BY <3>1, <3>2, <3>3 DEF Awaited, LossTypeOK, Fresh
  <2> QED
    BY <2>1, <2>2 DEF PassesAreAwaited
<1>3. ForwardIsCurrent'
  <2> SUFFICES ASSUME NEW g \in Flows, lossAt'[g] \in {"result", "loss", "gradients", "backward"},
                      asked'[g].data # "empty"
               PROVE  \E i \in 1..dispatched :
                        /\ issued[i].kind = "forward" /\ issued[i].flow = g
                        /\ issued[i].call = begun'[g] /\ issued[i].ok /\ Fresh(i, g, Len(issued))
    BY DEF ForwardIsCurrent, Fresh
  <2>1. /\ lossAt[g] \in {"result", "loss", "gradients", "backward"} /\ asked[g].data # "empty"
        /\ begun'[g] = begun[g]
    BY DEF LossTypeOK
  <2> QED
    BY <2>1 DEF ForwardIsCurrent
<1>4. GradientsAreCurrent'
  BY DEF GradientsAreCurrent
<1> QED
  BY <1>1, <1>2, <1>3, <1>4

(* The three steps that issue a request. *)
LEMMA IssueKeeps ==
  ASSUME LossInv, NEW f \in Flows, NEW pass \in PassKinds, NEW at \in LossPlaces, Issue(f, pass),
         \/ pass = "optim" /\ lossAt[f] = "free" /\ at = "free"
         \/ pass = "forward" /\ lossAt[f] = "check" /\ at = "forward"
         \/ pass = "backward" /\ lossAt[f] = "backward" /\ at = "dispatch" /\ asked[f].data # "empty",
         lossAt' = [lossAt EXCEPT ![f] = at], UNCHANGED <<asked, begun, dispatched>>
  PROVE  LossInv'
<1> DEFINE n == Len(issued)
<1>1. /\ issued' \in Seq(LossRequests) /\ Len(issued') = n + 1 /\ n \in Nat
      /\ \A i \in 1..n : issued'[i] = issued[i]
      /\ issued'[n + 1].flow = f /\ issued'[n + 1].kind = pass
      /\ issued'[n + 1].call = begun[f] /\ issued'[n + 1].ok
  BY Issuing DEF LossInv
<1>2. /\ dispatched \in Nat /\ dispatched <= n
      /\ \A i \in 1..n : issued[i].flow \in Flows /\ issued[i].kind \in PassKinds
  BY IssuedRequests DEF LossInv
<1>3. /\ lossAt'[f] = at /\ lossAt[f] \in {"free", "check", "backward"}
      /\ \A g \in Flows \ {f} : lossAt'[g] = lossAt[g]
  BY DEF LossInv, LossTypeOK
<1>4. ASSUME NEW i \in dispatched+1..n, issued[i].flow = f PROVE issued[i].kind = "optim"
  <2>1. Awaited(i) /\ issued[i].kind \in PassKinds
    BY <1>2, IssuedRequests DEF LossInv, PassesAreAwaited
  <2> QED
    BY <1>3, <1>4, <2>1 DEF Awaited, PassKinds
<1>5. LossTypeOK'
  BY <1>1, <1>2 DEF LossInv, LossTypeOK
<1>6. ASSUME NEW g \in Flows \ {f}, NEW i \in 1..n, Fresh(i, g, n)
      PROVE  Fresh(i, g, Len(issued))'
  <2> SUFFICES ASSUME NEW k \in i+1..n+1, issued'[k].kind = "optim" PROVE issued'[k].flow # g
    BY <1>1 DEF Fresh
  <2>1. CASE k = n + 1
    BY <1>1, <2>1
  <2>2. CASE k # n + 1
    <3>1. k \in i+1..n /\ k \in 1..n
      BY <1>1, <2>2
    <3> QED
      BY <1>1, <1>6, <3>1 DEF Fresh
  <2> QED
    BY <2>1, <2>2
<1>7. PassesAreAwaited'
  <2> SUFFICES ASSUME NEW i \in dispatched+1..n+1 PROVE Awaited(i)'
    BY <1>1 DEF PassesAreAwaited
  <2>1. CASE i = n + 1
    BY <1>1, <1>3, <2>1 DEF Awaited, Fresh
  <2>2. CASE i # n + 1
    <3>1. i \in dispatched+1..n /\ i \in 1..n
      BY <1>1, <1>2, <2>2
    <3>2. Awaited(i) /\ issued'[i] = issued[i] /\ issued[i].flow \in Flows
      BY <1>1, <1>2, <3>1 DEF LossInv, PassesAreAwaited
    <3> QED
      BY <1>1, <1>3, <1>4, <1>6, <3>1, <3>2 DEF Awaited
  <2> QED
    BY <2>1, <2>2
<1>8. OnePassEach'
  <2> SUFFICES ASSUME NEW i \in dispatched+1..n+1, NEW j \in dispatched+1..n+1, i # j,
                      issued'[i].kind # "optim", issued'[j].kind # "optim"
               PROVE  issued'[i].flow # issued'[j].flow
    BY <1>1 DEF OnePassEach
  <2>1. CASE i # n + 1 /\ j # n + 1
    BY <1>1, <1>2, <2>1 DEF LossInv, OnePassEach
  <2>2. CASE i = n + 1
    BY <1>1, <1>2, <1>4, <2>2
  <2>3. CASE j = n + 1
    BY <1>1, <1>2, <1>4, <2>3
  <2> QED
    BY <2>1, <2>2, <2>3
<1>9. ForwardIsCurrent'
  <2> SUFFICES ASSUME NEW g \in Flows, lossAt'[g] \in {"result", "loss", "gradients", "backward"},
                      asked[g].data # "empty"
               PROVE  \E i \in 1..dispatched :
                        /\ issued'[i].kind = "forward" /\ issued'[i].flow = g
                        /\ issued'[i].call = begun[g] /\ issued'[i].ok /\ Fresh(i, g, Len(issued))'
    BY <1>1 DEF ForwardIsCurrent
  <2>1. g # f /\ lossAt[g] = lossAt'[g]
    BY <1>3
  <2>2. PICK i \in 1..dispatched :
          /\ issued[i].kind = "forward" /\ issued[i].flow = g /\ issued[i].call = begun[g]
          /\ issued[i].ok /\ Fresh(i, g, n)
    BY <2>1 DEF LossInv, ForwardIsCurrent
  <2>3. i \in 1..n
    BY <1>1, <1>2
  <2> QED
    BY <1>1, <1>6, <2>1, <2>2, <2>3
<1>10. GradientsAreCurrent'
  <2> SUFFICES ASSUME NEW j \in 1..n+1, issued'[j].kind = "backward"
               PROVE  \E i \in 1..j-1 :
                        /\ issued'[i].kind = "forward" /\ issued'[i].flow = issued'[j].flow
                        /\ issued'[i].call = issued'[j].call /\ issued'[i].ok /\ i <= dispatched
                        /\ \A k \in i+1..j-1 : issued'[k].kind = "optim" =>
                                                 issued'[k].flow # issued'[j].flow
    BY <1>1 DEF GradientsAreCurrent
  <2>1. CASE j = n + 1
    <3>1. lossAt[f] = "backward" /\ asked[f].data # "empty"
      BY <1>1, <2>1
    <3>2. PICK i \in 1..dispatched :
            /\ issued[i].kind = "forward" /\ issued[i].flow = f /\ issued[i].call = begun[f]
            /\ issued[i].ok /\ Fresh(i, f, n)
      BY <3>1 DEF LossInv, ForwardIsCurrent
    <3>3. i \in 1..n /\ j - 1 = n
      BY <1>1, <1>2, <2>1
    <3> QED
      BY <1>1, <1>2, <2>1, <3>2, <3>3 DEF Fresh
  <2>2. CASE j # n + 1
    <3>1. j \in 1..n /\ issued'[j] = issued[j]
      BY <1>1, <2>2
    <3>2. PICK i \in 1..j-1 :
            /\ issued[i].kind = "forward" /\ issued[i].flow = issued[j].flow
            /\ issued[i].call = issued[j].call /\ issued[i].ok /\ i <= dispatched
            /\ \A k \in i+1..j-1 : issued[k].kind = "optim" => issued[k].flow # issued[j].flow
      BY <3>1 DEF LossInv, GradientsAreCurrent
    <3>3. \A k \in 1..j-1 : issued'[k] = issued[k]
      BY <1>1, <3>1
    <3> QED
      BY <3>1, <3>2, <3>3
  <2> QED
    BY <2>1, <2>2
<1> QED
  BY <1>5, <1>7, <1>8, <1>9, <1>10 DEF LossInv

(* The server takes the next request, which may fail for good. *)
LEMMA DispatchKeeps ==
  ASSUME LossInv, Dispatch
  PROVE  LossInv'
<1> DEFINE n == Len(issued)
           d == dispatched + 1
           f == issued[d].flow
<1>1. /\ n \in Nat /\ dispatched \in Nat /\ d \in 1..n /\ dispatched' = d /\ begun' = begun
      /\ \A i \in 1..n : issued[i] \in LossRequests /\ issued[i].flow \in Flows /\ issued[i].kind \in PassKinds
  BY IssuedRequests DEF LossInv, Dispatch
<1>2. /\ issued' \in Seq(LossRequests) /\ Len(issued') = n
      /\ \A i \in 1..n \ {d} : issued'[i] = issued[i]
      /\ issued'[d].flow = f /\ issued'[d].kind = issued[d].kind /\ issued'[d].call = issued[d].call
  <2>1. issued' = issued \/ issued' = [issued EXCEPT ![d].ok = FALSE]
    BY DEF Dispatch
  <2>2. CASE issued' = issued
    BY <2>2 DEF LossInv, LossTypeOK
  <2>3. CASE issued' = [issued EXCEPT ![d].ok = FALSE]
    <3>1. [issued[d] EXCEPT !.ok = FALSE] \in LossRequests
      BY <1>1 DEF LossRequests
    <3>2. issued' = [issued EXCEPT ![d] = [issued[d] EXCEPT !.ok = FALSE]]
      BY <2>3
    <3> QED
      BY <1>1, <3>1, <3>2 DEF LossInv, LossTypeOK, LossRequests
  <2> QED
    BY <2>1, <2>2, <2>3
<1>3. /\ lossAt' \in [Flows -> LossPlaces] /\ asked' \in [Flows -> Asks \cup {Nothing}]
      /\ \A g \in Flows : g # f \/ issued[d].kind = "optim" =>
                            lossAt'[g] = lossAt[g] /\ asked'[g] = asked[g]
      /\ issued[d].kind # "optim" => lossAt'[f] \in {"result", "free"}
      /\ issued[d].kind # "optim" /\ lossAt'[f] = "result" =>
           issued[d].kind = "forward" /\ issued' = issued
  BY <1>1 DEF Dispatch, Goes, GoesFree, LossInv, LossTypeOK, PassKinds, LossPlaces
<1>4. issued[d].kind # "optim" =>
        \A i \in d+1..n : issued[i].kind # "optim" => issued[i].flow # f
  BY <1>1 DEF LossInv, OnePassEach
<1>5. LossTypeOK'
  BY <1>1, <1>2, <1>3 DEF LossInv, LossTypeOK
<1>6. ASSUME NEW i \in 1..n, NEW g, Fresh(i, g, n) PROVE Fresh(i, g, Len(issued))'
  BY <1>1, <1>2, <1>6 DEF Fresh
<1>7. PassesAreAwaited'
  <2> SUFFICES ASSUME NEW i \in d+1..n PROVE Awaited(i)'
    BY <1>1, <1>2 DEF PassesAreAwaited
  <2>1. i \in 1..n /\ i # d /\ i \in dispatched+1..n
    BY <1>1
  <2>2. Awaited(i) /\ issued'[i] = issued[i] /\ issued[i].flow \in Flows
    BY <1>1, <1>2, <2>1 DEF LossInv, PassesAreAwaited
  <2>3. issued[i].kind # "optim" => lossAt'[issued[i].flow] = lossAt[issued[i].flow]
    BY <1>3, <1>4, <2>2
  <2> QED
    BY <1>1, <1>6, <2>1, <2>2, <2>3 DEF Awaited
<1>8. OnePassEach'
  BY <1>1, <1>2 DEF LossInv, OnePassEach
<1>9. ForwardIsCurrent'
  <2> SUFFICES ASSUME NEW g \in Flows, lossAt'[g] \in {"result", "loss", "gradients", "backward"},
                      asked'[g].data # "empty"
               PROVE  \E i \in 1..d :
                        /\ issued'[i].kind = "forward" /\ issued'[i].flow = g
                        /\ issued'[i].call = begun[g] /\ issued'[i].ok
                        /\ Fresh(i, g, Len(issued))'
    BY <1>1 DEF ForwardIsCurrent
  <2>1. CASE g # f \/ issued[d].kind = "optim"
    <3>1. PICK i \in 1..dispatched :
            /\ issued[i].kind = "forward" /\ issued[i].flow = g /\ issued[i].call = begun[g]
            /\ issued[i].ok /\ Fresh(i, g, n)
      BY <1>3, <2>1 DEF LossInv, ForwardIsCurrent
    <3>2. i \in 1..n /\ i # d /\ i \in 1..d
      BY <1>1
    <3> QED
      BY <1>2, <1>6, <3>1, <3>2
  <2>2. CASE g = f /\ issued[d].kind # "optim"
    <3>1. issued[d].kind = "forward" /\ issued' = issued
      BY <1>3, <2>2
    <3>2. Awaited(d)
      BY <1>1 DEF LossInv, PassesAreAwaited
    <3> QED
      BY <1>1, <1>6, <2>2, <3>1, <3>2 DEF Awaited
  <2> QED
    BY <2>1, <2>2
<1>10. GradientsAreCurrent'
  <2> SUFFICES ASSUME NEW j \in 1..n, issued'[j].kind = "backward"
               PROVE  \E i \in 1..j-1 :
                        /\ issued'[i].kind = "forward" /\ issued'[i].flow = issued'[j].flow
                        /\ issued'[i].call = issued'[j].call /\ issued'[i].ok /\ i <= d
                        /\ \A k \in i+1..j-1 : issued'[k].kind = "optim" =>
                                                 issued'[k].flow # issued'[j].flow
    BY <1>1, <1>2 DEF GradientsAreCurrent
  <2>1. \A k \in 1..n : /\ issued'[k].kind = issued[k].kind /\ issued'[k].flow = issued[k].flow
                         /\ issued'[k].call = issued[k].call
    BY <1>2
  <2>2. PICK i \in 1..j-1 :
          /\ issued[i].kind = "forward" /\ issued[i].flow = issued[j].flow
          /\ issued[i].call = issued[j].call /\ issued[i].ok /\ i <= dispatched
          /\ \A k \in i+1..j-1 : issued[k].kind = "optim" => issued[k].flow # issued[j].flow
    BY <2>1 DEF LossInv, GradientsAreCurrent
  <2>3. i \in 1..n /\ i # d /\ i <= d /\ issued'[i].ok
    BY <1>1, <1>2, <2>2
  <2>4. \A k \in i+1..j-1 : k \in 1..n
    BY <1>1
  <2> QED
    BY <2>1, <2>2, <2>3, <2>4
<1> QED
  BY <1>5, <1>7, <1>8, <1>9, <1>10 DEF LossInv

LEMMA FlowKeeps ==
  ASSUME LossInv, NEW f \in Flows, Begin(f) \/ OptimStep(f) \/ LossStep(f)
  PROVE  LossInv'
<1> USE DEF LossInv
<1>1. /\ lossAt \in [Flows -> LossPlaces] /\ begun \in [Flows -> Nat]
      /\ asked \in [Flows -> Asks \cup {Nothing}]
  BY DEF LossTypeOK
<1>2. ASSUME lossAt[f] \notin {"free", "forward", "dispatch"}, GoesFree(f),
             UNCHANGED <<begun, issued, dispatched>>
      PROVE  LossInv'
  BY <1>1, <1>2, Quiet DEF GoesFree, LossPlaces
<1>3. ASSUME NEW at \in {"loss", "gradients", "backward"}, Goes(f, at),
             lossAt[f] \in {"result", "loss", "gradients"} \/ asked[f].data = "empty",
             lossAt[f] \notin {"free", "forward", "dispatch"},
             UNCHANGED <<begun, issued, dispatched>>
      PROVE  LossInv'
  BY <1>1, <1>3, Quiet DEF Goes, LossPlaces
<1>4. CASE Begin(f)
  <2>1. /\ lossAt[f] = "free" /\ lossAt' = [lossAt EXCEPT ![f] = "check"]
        /\ UNCHANGED <<issued, dispatched>>
    BY <1>4 DEF Begin
  <2>2. /\ asked' \in [Flows -> Asks \cup {Nothing}] /\ begun' \in [Flows -> Nat]
        /\ \A g \in Flows \ {f} : asked'[g] = asked[g] /\ begun'[g] = begun[g]
    BY <1>1, <1>4 DEF Begin
  <2> QED
    BY <2>1, <2>2, Quiet DEF LossPlaces
<1>5. CASE OptimStep(f)
  <2>1. lossAt' = [lossAt EXCEPT ![f] = "free"] /\ lossAt[f] = "free"
    BY <1>1, <1>5 DEF OptimStep, Waits
  <2> QED
    BY <1>5, <2>1, IssueKeeps DEF OptimStep, PassKinds, LossPlaces
<1>6. CASE ForwardPass(f)
  <2>1. lossAt[f] = "check" /\ UNCHANGED <<begun, dispatched>>
    BY <1>6 DEF ForwardPass
  <2>2. CASE GoesFree(f) /\ UNCHANGED issued
    BY <1>2, <2>1, <2>2
  <2>3. CASE asked[f].data = "empty" /\ UNCHANGED issued /\ Goes(f, "loss")
    BY <1>3, <2>1, <2>3
  <2>4. CASE Issue(f, "forward") /\ Goes(f, "forward")
    BY <2>1, <2>4, IssueKeeps DEF Goes, PassKinds, LossPlaces
  <2> QED
    BY <1>6, <2>2, <2>3, <2>4 DEF ForwardPass
<1>7. CASE ForwardResult(f)
  <2>1. lossAt[f] = "result" /\ UNCHANGED <<begun, issued, dispatched>>
    BY <1>7 DEF ForwardResult
  <2>2. CASE Goes(f, "loss")
    BY <1>3, <2>1, <2>2
  <2>3. CASE GoesFree(f)
    BY <1>2, <2>1, <2>3
  <2> QED
    BY <1>7, <2>2, <2>3 DEF ForwardResult
<1>8. CASE ApplyLoss(f)
  <2>1. lossAt[f] = "loss" /\ UNCHANGED <<begun, issued, dispatched>>
    BY <1>8 DEF ApplyLoss
  <2>2. CASE Goes(f, "gradients")
    BY <1>3, <2>1, <2>2
  <2>3. CASE GoesFree(f)
    BY <1>2, <2>1, <2>3
  <2>4. CASE UNCHANGED <<asked, lossAt>>
    BY <2>1, <2>4
    DEF LossTypeOK, PassesAreAwaited, Awaited, Fresh, OnePassEach, ForwardIsCurrent,
        GradientsAreCurrent
  <2> QED
    BY <1>8, <2>2, <2>3, <2>4 DEF ApplyLoss
<1>9. CASE ExtractGradients(f)
  <2>1. lossAt[f] = "gradients" /\ UNCHANGED <<begun, issued, dispatched>>
    BY <1>9 DEF ExtractGradients
  <2>2. CASE Goes(f, "backward")
    BY <1>3, <2>1, <2>2
  <2>3. CASE GoesFree(f)
    BY <1>2, <2>1, <2>3
  <2> QED
    BY <1>9, <2>2, <2>3 DEF ExtractGradients
<1>10. CASE BackwardPass(f)
  <2>1. lossAt[f] = "backward" /\ UNCHANGED <<begun, dispatched>>
    BY <1>10 DEF BackwardPass
  <2>2. CASE GoesFree(f) /\ UNCHANGED issued
    BY <1>2, <2>1, <2>2
  <2>3. CASE asked[f].data # "empty" /\ Issue(f, "backward") /\ Goes(f, "dispatch")
    BY <2>1, <2>3, IssueKeeps DEF Goes, PassKinds, LossPlaces
  <2> QED
    BY <1>10, <2>2, <2>3 DEF BackwardPass
<1> QED
  BY <1>4, <1>5, <1>6, <1>7, <1>8, <1>9, <1>10 DEF LossStep

LEMMA LossStepKeeps == LossInv /\ [LossNext]_lossVars => LossInv'
<1> SUFFICES ASSUME LossInv, [LossNext]_lossVars PROVE LossInv'
  OBVIOUS
<1>1. CASE UNCHANGED lossVars
  BY <1>1
  DEF lossVars, LossInv, LossTypeOK, PassesAreAwaited, Awaited, Fresh, OnePassEach,
      ForwardIsCurrent, GradientsAreCurrent
<1>2. CASE LossNext
  BY <1>2, DispatchKeeps, FlowKeeps DEF LossNext
<1> QED
  BY <1>1, <1>2

LEMMA StepOfLosses == [Next]_vars => [LossNext]_lossVars
  BY DEF Next, Only, vars, lossVars

(* Every backward pass of a custom loss follows the forward pass of its call,  *)
(* which the server has executed, and no optimizer step of its own flow lies   *)
(* between the two, however the flows interleave and whichever requests fail   *)
(* (forward_backward_custom).                                                  *)
THEOREM GradientsFollowTheirForward == Spec => []GradientsAreCurrent
<1>1. Init => LossInv
  BY LossInitially DEF Init
<1>2. LossInv /\ [Next]_vars => LossInv'
  BY LossStepKeeps, StepOfLosses
<1>3. LossInv => GradientsAreCurrent
  BY DEF LossInv
<1> QED
  BY <1>1, <1>2, <1>3, PTL DEF Spec

(***************************************************************************)
(* Requests: the service acts at most once for each attempt of             *)
(* execute_with_retries, and no client of the pool has more requests than  *)
(* it may, for any calls and any bounds of the two layers of repetition.   *)
(***************************************************************************)
(* The types of what the theorem is about. *)
CountersAreNumbers ==
  /\ kind \in [Calls -> Kinds]
  /\ pc \in [Calls -> {"start", "sent", "backoff", "archiveWait", "waiting",
                       "returned", "failed", "cancelled"}]
  /\ attempt \in [Calls -> Nat] /\ effects \in [Calls -> Nat]
  /\ slot = [c \in Calls |-> slot[c]]
  /\ keys \in Nat /\ key \in [Calls -> 0..keys] /\ done \subseteq 1..keys

(* A key on which the service has not acted leaves room for one effect.  A *)
(* call that changes nothing has none, and only such calls are repeated by *)
(* the archive loop, which makes a key of its own.                         *)
RoomForOne ==
  \A c \in Calls :
    /\ effects[c] <= attempt[c]
    /\ ~kind[c].changes => effects[c] = 0
    /\ pc[c] # "start" => attempt[c] > 0
    /\ pc[c] \in {"sent", "backoff"} /\ key[c] \notin done => effects[c] < attempt[c]
    /\ pc[c] = "archiveWait" => ~kind[c].changes

(* Every change is sent under a key of its own, so that the service has    *)
(* acted for the call, and not for another one, when it knows the key.     *)
KeysAreTheirOwn ==
  /\ \A c \in Calls : kind[c].changes /\ pc[c] \in {"sent", "backoff"} =>
       key[c] # 0 /\ (key[c] \in done => effects[c] > 0)
  /\ \A c, d \in Calls : c # d /\ key[c] = key[d] => key[c] = 0

OutsideThePool ==
  \A c \in Calls : pc[c] \notin {"sent", "backoff", "archiveWait"} => slot[c] = 0

EffectInv == /\ CountersAreNumbers /\ RoomForOne /\ KeysAreTheirOwn /\ OutsideThePool
             /\ ReturnedIsDone

(* The archive is read with a GET (WeightsArchiveUrl). *)
LEMMA PostsHaveNames ==
  ASSUME NEW names, NEW repetitions, NEW wrapped, NEW e \in Posts(names, repetitions, wrapped)
  PROVE  e.name \in names
  BY DEF Posts, Endpoint

LEMMA GetsOnlyRead ==
  ASSUME NEW names, NEW wrapped, NEW e \in Gets(names, wrapped)
  PROVE  ~e.changes
  BY DEF Gets, Endpoint

LEMMA ArchiveOnlyReads == \A k \in Kinds : k.archive => ~k.changes
<1>1. ASSUME NEW e \in Endpoints, e.name = "archive"
      PROVE  ~e.changes
  <2>1. \/ e \in TrainingResource \/ e \in ModelsCreate \/ e \in ModelsGetInfo
        \/ e \in WeightsOrdered \/ e \in SamplingResource \/ e \in FuturesResource
        \/ e \in TelemetryResource \/ e \in CreateSession \/ e \in SessionHeartbeat
        \/ e \in SamplingSession \/ e \in RestChanges
        \/ e \in WeightsList \/ e \in ServiceReads \/ e \in RestReads
        \/ e \in WeightsArchiveUrl
    BY DEF Endpoints
  <2>2. /\ e \notin TrainingResource /\ e \notin ModelsCreate /\ e \notin ModelsGetInfo
        /\ e \notin WeightsOrdered /\ e \notin SamplingResource /\ e \notin FuturesResource
        /\ e \notin TelemetryResource /\ e \notin CreateSession /\ e \notin SessionHeartbeat
        /\ e \notin SamplingSession /\ e \notin RestChanges
    BY <1>1, PostsHaveNames
    DEF TrainingResource, ModelsCreate, ModelsGetInfo, WeightsOrdered, SamplingResource,
        FuturesResource, TelemetryResource, CreateSession, SessionHeartbeat, SamplingSession,
        RestChanges
  <2>3. e \in WeightsList \/ e \in ServiceReads \/ e \in RestReads => ~e.changes
    BY GetsOnlyRead DEF WeightsList, ServiceReads, RestReads
  <2>4. e \in WeightsArchiveUrl => ~e.changes
    BY DEF WeightsArchiveUrl, Endpoint
  <2> QED
    BY <2>1, <2>2, <2>3, <2>4
<1> SUFFICES ASSUME NEW k \in Kinds, k.archive PROVE ~k.changes
  OBVIOUS
<1>2. PICK e \in Endpoints : k = Kind(e)
  BY DEF Kinds
<1>3. k.archive = (e.name = "archive") /\ k.changes = e.changes
  BY <1>2 DEF Kind
<1> QED
  BY <1>1, <1>3

LEMMA EffectInitially == RequestsInit => EffectInv
  BY DEF RequestsInit, EffectInv, CountersAreNumbers, RoomForOne, KeysAreTheirOwn, OutsideThePool,
         ReturnedIsDone, Ended

(* What an answer or an error does to the call: it is sent again under its *)
(* key, waits for another round, or leaves the pool.                       *)
Outcome(c) ==
  \/ pc' = [pc EXCEPT ![c] = "backoff"] /\ UNCHANGED slot
  \/ pc' = [pc EXCEPT ![c] = "archiveWait"] /\ kind[c].archive /\ UNCHANGED slot
  \/ /\ \E p \in {"waiting", "failed"} : pc' = [pc EXCEPT ![c] = p]
     /\ slot' = [slot EXCEPT ![c] = 0]
  \/ /\ pc' = [pc EXCEPT ![c] = "returned"] /\ (kind[c].changes => key[c] \in done)
     /\ slot' = [slot EXCEPT ![c] = 0]

LEMMA Outcomes ==
  ASSUME NEW c \in Calls, Answered(c)
  PROVE  /\ pc[c] = "sent" /\ Outcome(c)
         /\ UNCHANGED <<kind, attempt, key, keys, done, effects>>
<1>1. CASE ConnectionFails(c)
  BY <1>1 DEF ConnectionFails, SendAgainOr, Reraise, OutOfPool, LeavePool, Ends, Outcome
<1>2. CASE ErrorAnswer(c)
  <2>1. PICK code \in {"busy", "unavailable", "refused", "empty400"},
             header \in {"none", "true", "false"} :
       LET raise == IF kind[c].archive /\ code = "unavailable"
                    THEN ArchiveRound(c, Reraise(c, TRUE))
                    ELSE IF code = "empty400"
                    THEN PoolReplaces(c) /\ OutOfPool(c, remaining > 0)
                    ELSE Reraise(c, code # "refused")
       IN  IF ShouldRetry(code, header) THEN SendAgainOr(c, raise)
           ELSE raise /\ UNCHANGED retries
    BY <1>2 DEF ErrorAnswer
  <2>2. Outcome(c) /\ UNCHANGED attempt
    <3>1. CASE kind[c].archive /\ code = "unavailable"
      BY <2>1, <3>1
      DEF SendAgainOr, ArchiveRound, Reraise, OutOfPool, LeavePool, Ends, Outcome
    <3>2. CASE ~(kind[c].archive /\ code = "unavailable") /\ code = "empty400"
      BY <2>1, <3>2 DEF SendAgainOr, OutOfPool, LeavePool, Ends, Outcome
    <3>3. CASE ~(kind[c].archive /\ code = "unavailable") /\ code # "empty400"
      BY <2>1, <3>3 DEF SendAgainOr, Reraise, OutOfPool, LeavePool, Ends, Outcome
    <3> QED
      BY <3>1, <3>2, <3>3
  <2> QED
    BY <1>2, <2>2 DEF ErrorAnswer
<1>3. CASE Answer(c)
  BY <1>3 DEF Answer, ArchiveRound, Reraise, OutOfPool, LeavePool, Ends, Outcome
<1> QED
  BY <1>1, <1>2, <1>3 DEF Answered

LEMMA AnsweredKeeps ==
  ASSUME EffectInv, NEW c \in Calls, Answered(c)
  PROVE  EffectInv'
<1> USE DEF EffectInv
<1>1. pc[c] = "sent" /\ Outcome(c) /\ UNCHANGED <<kind, attempt, key, keys, done, effects>>
  BY Outcomes
<1>2. kind[c].archive => ~kind[c].changes
  BY ArchiveOnlyReads DEF CountersAreNumbers
<1>3. /\ \A d \in Calls \ {c} : pc'[d] = pc[d] /\ slot'[d] = slot[d]
      /\ pc'[c] \in {"backoff", "archiveWait", "waiting", "failed", "returned"}
      /\ pc'[c] = "archiveWait" => kind[c].archive
      /\ pc'[c] = "returned" /\ kind[c].changes => key[c] \in done
      /\ pc'[c] \notin {"backoff", "archiveWait"} => slot'[c] = 0
  BY <1>1 DEF Outcome, CountersAreNumbers
<1>4. CountersAreNumbers'
  BY <1>1 DEF Outcome, CountersAreNumbers
<1>5. RoomForOne'
  BY <1>1, <1>2, <1>3 DEF RoomForOne, CountersAreNumbers
<1>6. KeysAreTheirOwn'
  BY <1>1, <1>3 DEF KeysAreTheirOwn, CountersAreNumbers
<1>7. OutsideThePool'
  BY <1>3 DEF OutsideThePool
<1>8. ReturnedIsDone'
  <2> SUFFICES ASSUME NEW d \in Calls
               PROVE  /\ pc'[d] = "returned" /\ kind'[d].changes => effects'[d] > 0
                      /\ Ended(d)' => slot'[d] = 0
    BY DEF ReturnedIsDone
  <2>1. CASE d = c
    BY <1>1, <1>3, <2>1 DEF KeysAreTheirOwn, Ended
  <2>2. CASE d # c
    BY <1>1, <1>3, <2>2 DEF ReturnedIsDone, Ended
  <2> QED
    BY <2>1, <2>2
<1> QED
  BY <1>4, <1>5, <1>6, <1>7, <1>8

(* A new key is not one on which the service can have acted. *)
LEMMA NewKeys ==
  ASSUME EffectInv, NEW c \in Calls, NewKey(c)
  PROVE  /\ keys' \in Nat /\ keys <= keys' /\ key' \in [Calls -> 0..keys']
         /\ \A d \in Calls \ {c} : key'[d] = key[d]
         /\ kind[c].changes => key'[c] = keys + 1
         /\ ~kind[c].changes => key'[c] = key[c]
  BY DEF NewKey, EffectInv, CountersAreNumbers

LEMMA NewKeysAreTheirOwn ==
  ASSUME EffectInv, NEW c \in Calls, NewKey(c)
  PROVE  /\ \A d, e \in Calls : d # e /\ key'[d] = key'[e] => key'[d] = 0
         /\ kind[c].changes => key'[c] \notin done /\ key'[c] # 0
<1>1. kind[c].changes => key'[c] \notin done /\ key'[c] # 0
  BY NewKeys DEF EffectInv, CountersAreNumbers
<1>2. ASSUME NEW d \in Calls \ {c} PROVE key'[d] = key'[c] => key'[d] = 0
  BY NewKeys DEF EffectInv, CountersAreNumbers, KeysAreTheirOwn
<1> QED
  BY <1>1, <1>2, NewKeys DEF EffectInv, KeysAreTheirOwn

LEMMA StartKeeps ==
  ASSUME EffectInv, NEW c \in Calls, Start(c)
  PROVE  EffectInv'
<1> USE DEF EffectInv
<1>1. /\ pc[c] = "start" /\ pc' = [pc EXCEPT ![c] = "sent"]
      /\ attempt' = [attempt EXCEPT ![c] = @ + 1]
      /\ NewKey(c) /\ UNCHANGED <<kind, done, effects>>
  BY DEF Start, Sends
<1>2. slot' = [d \in Calls |-> slot'[d]] /\ \A d \in Calls \ {c} : slot'[d] = slot[d]
  BY DEF Start, EnterPool, CountersAreNumbers
<1>3. CountersAreNumbers'
  <2>1. keys' \in Nat /\ key' \in [Calls -> 0..keys'] /\ done' \subseteq 1..keys'
    <3>1. keys \in Nat /\ keys' \in Nat /\ keys <= keys' /\ done' \subseteq 1..keys
      BY <1>1, NewKeys DEF CountersAreNumbers
    <3>2. 1..keys \subseteq 1..keys'
      BY <3>1
    <3> QED
      BY <1>1, <3>1, <3>2, NewKeys
  <2>2. attempt' \in [Calls -> Nat] /\ effects' \in [Calls -> Nat] /\ kind' \in [Calls -> Kinds]
    BY <1>1 DEF CountersAreNumbers
  <2>3. pc' \in [Calls -> {"start", "sent", "backoff", "archiveWait", "waiting",
                           "returned", "failed", "cancelled"}]
    BY <1>1 DEF CountersAreNumbers
  <2> QED
    BY <1>2, <2>1, <2>2, <2>3 DEF CountersAreNumbers
<1>4. RoomForOne'
  BY <1>1, NewKeys DEF CountersAreNumbers, RoomForOne
<1>5. KeysAreTheirOwn'
  <2>1. ASSUME NEW d \in Calls, kind'[d].changes, pc'[d] \in {"sent", "backoff"}
        PROVE  key'[d] # 0 /\ (key'[d] \in done' => effects'[d] > 0)
    <3>1. CASE d = c
      BY <1>1, <2>1, <3>1, NewKeysAreTheirOwn
    <3>2. CASE d # c
      BY <1>1, <2>1, <3>2, NewKeys DEF KeysAreTheirOwn, CountersAreNumbers
    <3> QED
      BY <3>1, <3>2
  <2> QED
    BY <1>1, <2>1, NewKeysAreTheirOwn DEF KeysAreTheirOwn
<1>6. OutsideThePool' /\ ReturnedIsDone'
  BY <1>1, <1>2 DEF CountersAreNumbers, OutsideThePool, ReturnedIsDone, Ended
<1> QED
  BY <1>3, <1>4, <1>5, <1>6

LEMMA ProceedKeeps ==
  ASSUME EffectInv, NEW c \in Calls, Proceed(c)
  PROVE  EffectInv'
<1> USE DEF EffectInv
<1>1. CASE Start(c)
  BY <1>1, StartKeeps
<1>2. CASE Backoff(c)
  BY <1>2 DEF Backoff, SameKey, Sends, CountersAreNumbers, RoomForOne, KeysAreTheirOwn,
              OutsideThePool, ReturnedIsDone, Ended
<1>3. CASE ArchiveAgain(c)
  <2>1. ~kind[c].changes /\ UNCHANGED <<key, keys>>
    BY <1>3 DEF ArchiveAgain, RoomForOne, NewKey
  <2>2. CountersAreNumbers' /\ OutsideThePool' /\ ReturnedIsDone'
    BY <1>3, <2>1
    DEF ArchiveAgain, Sends, CountersAreNumbers, OutsideThePool, ReturnedIsDone, Ended
  <2>3. RoomForOne' /\ KeysAreTheirOwn'
    BY <1>3, <2>1 DEF ArchiveAgain, Sends, CountersAreNumbers, RoomForOne, KeysAreTheirOwn
  <2> QED
    BY <2>2, <2>3
<1>4. CASE TryAgain(c)
  BY <1>4 DEF TryAgain, Ends, CountersAreNumbers, RoomForOne, KeysAreTheirOwn, OutsideThePool,
              ReturnedIsDone, Ended
<1> QED
  BY <1>1, <1>2, <1>3, <1>4 DEF Proceed

LEMMA ServiceActsKeeps ==
  ASSUME EffectInv, NEW c \in Calls, ServiceActs(c)
  PROVE  EffectInv'
<1> USE DEF EffectInv
<1>1. /\ pc[c] = "sent" /\ kind[c].changes /\ key[c] \notin done
      /\ done' = done \cup {key[c]} /\ effects' = [effects EXCEPT ![c] = @ + 1]
      /\ UNCHANGED <<kind, pc, attempt, slot, key, keys>>
  BY DEF ServiceActs
<1>2. key[c] # 0 /\ \A d \in Calls \ {c} : key[d] # key[c]
  BY <1>1 DEF KeysAreTheirOwn
<1>3. CountersAreNumbers'
  BY <1>1, <1>2 DEF CountersAreNumbers
<1>4. RoomForOne'
  BY <1>1, <1>2 DEF RoomForOne, CountersAreNumbers
<1>5. KeysAreTheirOwn'
  BY <1>1, <1>2 DEF KeysAreTheirOwn, CountersAreNumbers
<1>6. OutsideThePool' /\ ReturnedIsDone'
  BY <1>1 DEF OutsideThePool, ReturnedIsDone, Ended, CountersAreNumbers
<1> QED
  BY <1>3, <1>4, <1>5, <1>6

LEMMA CancelKeeps ==
  ASSUME EffectInv, NEW c \in Calls, Cancel(c)
  PROVE  EffectInv'
<1> USE DEF EffectInv
<1>1. /\ pc[c] \in {"sent", "backoff", "archiveWait", "waiting"}
      /\ pc' = [pc EXCEPT ![c] = "cancelled"] /\ slot' = [slot EXCEPT ![c] = 0]
      /\ UNCHANGED <<kind, attempt, key, keys, done, effects>>
  BY DEF Cancel, Ends, LeavePool, CountersAreNumbers
<1>2. CountersAreNumbers' /\ RoomForOne' /\ KeysAreTheirOwn'
  BY <1>1 DEF CountersAreNumbers, RoomForOne, KeysAreTheirOwn
<1>3. OutsideThePool' /\ ReturnedIsDone'
  BY <1>1 DEF CountersAreNumbers, OutsideThePool, ReturnedIsDone, Ended
<1> QED
  BY <1>2, <1>3

LEMMA EffectStep == EffectInv /\ [RequestsNext]_requestVars => EffectInv'
<1> SUFFICES ASSUME EffectInv, [RequestsNext]_requestVars PROVE EffectInv'
  OBVIOUS
<1>1. CASE UNCHANGED requestVars
  BY <1>1 DEF requestVars, poolVars, EffectInv, CountersAreNumbers, RoomForOne, KeysAreTheirOwn,
              OutsideThePool, ReturnedIsDone, Ended
<1>2. CASE RequestsNext
  BY <1>2, ProceedKeeps, AnsweredKeeps, ServiceActsKeeps, CancelKeeps DEF RequestsNext
<1> QED
  BY <1>1, <1>2

LEMMA StepOfRequests == [Next]_vars => [RequestsNext]_requestVars
  BY DEF Next, Only, vars, requestVars, poolVars

(* However the two layers of repetition nest, whatever answers are lost and  *)
(* whoever is cancelled: the service acts at most once for each attempt of   *)
(* execute_with_retries, and a call that returned has had its effect.        *)
THEOREM AtMostOnce == Spec => []OneEffectPerAttempt
<1>1. Init => EffectInv
  BY EffectInitially DEF Init
<1>2. EffectInv /\ [Next]_vars => EffectInv'
  BY EffectStep, StepOfRequests
<1>3. EffectInv => OneEffectPerAttempt
  BY DEF EffectInv, RoomForOne, OneEffectPerAttempt, AtMostOneEffect
<1> QED
  BY <1>1, <1>2, <1>3, PTL DEF Spec

(***************************************************************************)
(* The pool of clients.                                                    *)
(***************************************************************************)
InThePool(c) == pc[c] \in {"sent", "backoff", "archiveWait"}
Users(i)     == {c \in Calls : slot[c] = i}

PoolTypeOK ==
  /\ made \in Nat /\ clients \in Seq(1..made) /\ refcount \in Seq(Nat)
  /\ Len(refcount) = Len(clients)
  /\ slot \in [Calls -> 0..Len(clients)] /\ client \in [Calls -> 0..made]
  /\ \A c \in Calls : InThePool(c) => slot[c] # 0
  /\ \A c \in Calls : (slot[c] = 0) <=> (client[c] = 0)

PlacesAreCounted ==
  \A i \in 1..Len(refcount) : refcount[i] = Cardinality(Users(i)) /\ refcount[i] <= PerClient

(* A client is used through one place only, also after it was replaced there. *)
OnePlacePerClient ==
  /\ \A i, j \in 1..Len(clients) : i # j => clients[i] # clients[j]
  /\ \A c \in Calls, i \in 1..Len(clients) : client[c] = clients[i] => slot[c] = i
  /\ \A c, d \in Calls : client[c] = client[d] /\ client[c] # 0 => slot[c] = slot[d]

PoolInv == PoolTypeOK /\ PlacesAreCounted /\ OnePlacePerClient

LEMMA PoolInitially == RequestsInit => PoolInv
  BY DEF RequestsInit, PoolInv, PoolTypeOK, PlacesAreCounted, OnePlacePerClient, InThePool

LEMMA PerClientIsPositive == PerClient \in Nat /\ 1 <= PerClient
<1>1. PerClient \in Nat \ {0}
  BY RequestsAssumption
<1> QED
  BY <1>1

LEMMA UsersFinite ==
  ASSUME NEW i
  PROVE  IsFiniteSet(Users(i)) /\ Cardinality(Users(i)) \in Nat
  BY RequestsAssumption, FS_Subset, FS_CardinalityType DEF Users

(* The users of a place bound those of each client. *)
LEMMA PoolNotOverloaded ==
  ASSUME PoolInv
  PROVE  ClientsNotOverloaded
<1>1. ASSUME NEW i \in DOMAIN refcount
      PROVE  refcount[i] = Cardinality({c \in Calls : slot[c] = i})
  <2>1. i \in 1..Len(refcount) /\ Users(i) = {c \in Calls : slot[c] = i}
    BY DEF PoolInv, PoolTypeOK, Users
  <2> QED
    BY <2>1 DEF PoolInv, PlacesAreCounted
<1>2. ASSUME NEW n \in 1..made
      PROVE  Cardinality({c \in Calls : client[c] = n}) <= PerClient
  <2> DEFINE Served == {c \in Calls : client[c] = n}
  <2>1. CASE Served = {}
    BY <2>1, FS_EmptySet, PerClientIsPositive
  <2>2. CASE Served # {}
    <3>1. PICK c \in Calls : client[c] = n
      BY <2>2
    <3>2. client[c] # 0 /\ slot[c] \in 1..Len(refcount)
      BY <3>1 DEF PoolInv, PoolTypeOK
    <3> HIDE DEF Served
    <3>5. Served \subseteq Users(slot[c])
      BY <3>1, <3>2 DEF PoolInv, OnePlacePerClient, Users, Served
    <3>3. Cardinality(Served) <= Cardinality(Users(slot[c])) /\ Cardinality(Served) \in Nat
      BY <3>5, UsersFinite, FS_Subset, FS_CardinalityType
    <3>4. Cardinality(Users(slot[c])) <= PerClient
      BY <3>2 DEF PoolInv, PlacesAreCounted
    <3> QED
      BY <3>3, <3>4, UsersFinite, PerClientIsPositive DEF Served
  <2> QED
    BY <2>1, <2>2
<1> QED
  BY <1>1, <1>2 DEF ClientsNotOverloaded

LEMMA Entering ==
  ASSUME PoolInv, NEW c \in Calls, slot[c] = 0, EnterPool(c),
         pc' = [pc EXCEPT ![c] = "sent"]
  PROVE  PoolInv'
<1> USE DEF PoolInv
<1>1. client[c] = 0 /\ PerClient \in Nat /\ 1 <= PerClient
  BY PerClientIsPositive DEF PoolTypeOK
<1>2. ASSUME NEW i \in DOMAIN clients, HasRoom(i),
             slot' = [slot EXCEPT ![c] = i], client' = [client EXCEPT ![c] = clients[i]],
             refcount' = [refcount EXCEPT ![i] = @ + 1],
             UNCHANGED <<clients, made>>
      PROVE  PoolInv'
  <2>3. PoolTypeOK'
    BY <1>2, SMTT(60) DEF PoolTypeOK, InThePool
  <2>4. PlacesAreCounted'
    <3> SUFFICES ASSUME NEW j \in 1..Len(refcount)
                 PROVE  refcount'[j] = Cardinality(Users(j)') /\ refcount'[j] <= PerClient
      BY <1>2 DEF PlacesAreCounted, PoolTypeOK
    <3>1. CASE j = i
      <4>1. Users(j)' = Users(j) \cup {c} /\ c \notin Users(j)
        BY <1>2, <3>1 DEF Users, PoolTypeOK
      <4>2. Cardinality(Users(j)') = Cardinality(Users(j)) + 1
        BY <4>1, UsersFinite, FS_AddElement, ZenonT(60)
      <4> QED
        BY <1>1, <1>2, <3>1, <4>2 DEF PoolTypeOK, PlacesAreCounted, HasRoom
    <3>2. CASE j # i
      <4>1. Users(j)' = Users(j)
        BY <1>2, <3>2 DEF Users, PoolTypeOK
      <4> QED
        BY <1>2, <3>2, <4>1 DEF PoolTypeOK, PlacesAreCounted
    <3> QED
      BY <3>1, <3>2
  <2>5. OnePlacePerClient'
    BY <1>2, SMTT(60) DEF OnePlacePerClient, PoolTypeOK
  <2> QED
    BY <2>3, <2>4, <2>5
<1>3. CASE /\ clients' = Append(clients, made + 1) /\ made' = made + 1
           /\ refcount' = Append(refcount, 1)
           /\ slot' = [slot EXCEPT ![c] = Len(clients) + 1]
           /\ client' = [client EXCEPT ![c] = made + 1]
  <2>2. PoolTypeOK'
    BY <1>3 DEF PoolTypeOK, InThePool
  <2>3. PlacesAreCounted'
    <3> SUFFICES ASSUME NEW j \in 1..(Len(refcount) + 1)
                 PROVE  refcount'[j] = Cardinality(Users(j)') /\ refcount'[j] <= PerClient
      BY <1>3 DEF PlacesAreCounted, PoolTypeOK
    <3>1. CASE j = Len(refcount) + 1
      <4>1. Users(j)' = {c}
        BY <1>3, <3>1 DEF Users, PoolTypeOK
      <4>2. Cardinality(Users(j)') = 1
        BY <4>1, FS_Singleton
      <4> QED
        BY <1>1, <1>3, <3>1, <4>2 DEF PoolTypeOK
    <3>2. CASE j \in 1..Len(refcount)
      <4>1. Users(j)' = Users(j)
        BY <1>3, <3>2 DEF Users, PoolTypeOK
      <4> QED
        BY <1>3, <3>2, <4>1 DEF PoolTypeOK, PlacesAreCounted
    <3> QED
      BY <3>1, <3>2 DEF PoolTypeOK
  <2>4. OnePlacePerClient'
    BY <1>3, SMTT(60) DEF OnePlacePerClient, PoolTypeOK
  <2> QED
    BY <2>2, <2>3, <2>4
<1> QED
  BY <1>2, <1>3 DEF EnterPool

(* The finally of aclient; the client may have been replaced under the call. *)
LEMMA Leaving ==
  ASSUME PoolInv, NEW c \in Calls, slot[c] # 0, LeavePool(c),
         \/ UNCHANGED <<clients, made>>
         \/ clients' = [clients EXCEPT ![slot[c]] = made + 1] /\ made' = made + 1,
         \A d \in Calls : InThePool(d)' => InThePool(d) /\ d # c
  PROVE  PoolInv'
<1> USE DEF PoolInv
<1>1. /\ refcount' = [refcount EXCEPT ![slot[c]] = @ - 1]
      /\ slot' = [slot EXCEPT ![c] = 0] /\ client' = [client EXCEPT ![c] = 0]
  BY DEF LeavePool
<1>2. slot[c] \in 1..Len(clients) /\ slot[c] \in 1..Len(refcount)
  BY DEF PoolTypeOK
<1>3. /\ made' \in Nat /\ made <= made' /\ clients' \in Seq(1..made')
      /\ Len(clients') = Len(clients)
      /\ \A i \in 1..Len(clients) : clients'[i] = clients[i] \/ (i = slot[c] /\ clients'[i] = made + 1)
  <2>1. CASE UNCHANGED <<clients, made>>
    BY <2>1 DEF PoolTypeOK
  <2>2. CASE clients' = [clients EXCEPT ![slot[c]] = made + 1] /\ made' = made + 1
    <3>1. made \in Nat /\ \A i \in 1..Len(clients) : clients[i] \in 1..made
      BY DEF PoolTypeOK
    <3>2. made + 1 \in 1..made' /\ clients \in Seq(1..made')
      <4>1. 1..made \subseteq 1..made'
        BY <2>2, <3>1
      <4> QED
        BY <2>2, <3>1, <4>1 DEF PoolTypeOK
    <3> QED
      BY <1>2, <2>2, <3>1, <3>2
  <2> QED
    BY <2>1, <2>2
<1>4. PlacesAreCounted' /\ refcount' \in Seq(Nat) /\ Len(refcount') = Len(refcount)
  <2>1. ASSUME NEW i \in 1..Len(refcount)
        PROVE  refcount'[i] = Cardinality(Users(i)') /\ refcount'[i] \in Nat /\ refcount'[i] <= refcount[i]
    <3>1. CASE i = slot[c]
      <4>1. Users(i)' = Users(i) \ {c} /\ c \in Users(i)
        BY <1>1, <1>2, <3>1 DEF Users, PoolTypeOK
      <4>2. Cardinality(Users(i)') = Cardinality(Users(i)) - 1 /\ Cardinality(Users(i)') \in Nat
        BY <4>1, UsersFinite, FS_RemoveElement, FS_CardinalityType
      <4> QED
        BY <1>1, <1>2, <3>1, <4>2 DEF PoolTypeOK, PlacesAreCounted
    <3>2. CASE i # slot[c]
      <4>1. Users(i)' = Users(i)
        BY <1>1, <1>2, <3>2 DEF Users, PoolTypeOK
      <4> QED
        BY <1>1, <1>2, <3>2, <4>1, SMTT(60) DEF PoolTypeOK, PlacesAreCounted
    <3> QED
      BY <3>1, <3>2
  <2>2. refcount' \in Seq(Nat) /\ Len(refcount') = Len(refcount)
    BY <1>1, <1>2, <2>1 DEF PoolTypeOK
  <2> QED
    BY <2>1, <2>2, PerClientIsPositive, SMTT(60) DEF PlacesAreCounted, PoolTypeOK
<1>5. PoolTypeOK'
  <2>1. slot' \in [Calls -> 0..Len(clients')] /\ client' \in [Calls -> 0..made']
    BY <1>1, <1>3, SMTT(60) DEF PoolTypeOK
  <2>2. ASSUME NEW d \in Calls
        PROVE  (InThePool(d)' => slot'[d] # 0) /\ ((slot'[d] = 0) <=> (client'[d] = 0))
    BY <1>1 DEF PoolTypeOK
  <2> QED
    BY <1>3, <1>4, <2>1, <2>2 DEF PoolTypeOK
<1>6. OnePlacePerClient'
  <2>1. \A d \in Calls : client[d] # made + 1 /\ made + 1 # 0
    BY DEF PoolTypeOK
  <2>2. \A i \in 1..Len(clients) : clients[i] # made + 1 /\ clients[i] # 0
    BY DEF PoolTypeOK
  <2>3. \A i, j \in 1..Len(clients') : i # j => clients'[i] # clients'[j]
    <3> SUFFICES ASSUME NEW i \in 1..Len(clients), NEW j \in 1..Len(clients), i # j
                 PROVE  clients'[i] # clients'[j]
      BY <1>3
    <3>1. clients[i] # clients[j] /\ clients[i] # made + 1 /\ clients[j] # made + 1
      BY <2>2 DEF OnePlacePerClient
    <3>2. i = slot[c] => clients'[j] = clients[j]
      BY <1>3, <3>1
    <3> QED
      BY <1>3, <3>1, <3>2
  <2>4. \A d \in Calls, i \in 1..Len(clients') : client'[d] = clients'[i] => slot'[d] = i
    BY <1>1, <1>3, <2>1, <2>2, SMTT(60) DEF OnePlacePerClient, PoolTypeOK
  <2>5. \A d, e \in Calls : client'[d] = client'[e] /\ client'[d] # 0 => slot'[d] = slot'[e]
    BY <1>1 DEF OnePlacePerClient, PoolTypeOK
  <2> QED
    BY <2>3, <2>4, <2>5 DEF OnePlacePerClient
<1> QED
  BY <1>4, <1>5, <1>6

(* The steps inside the pool and outside of it. *)
LEMMA Staying ==
  ASSUME PoolInv, UNCHANGED <<slot, client, clients, refcount, made>>,
         \A c \in Calls : InThePool(c)' => InThePool(c) \/ slot[c] # 0
  PROVE  PoolInv'
<1>1. PoolTypeOK'
  BY DEF PoolInv, PoolTypeOK
<1>2. PlacesAreCounted'
  <2>1. \A i \in 1..Len(refcount) : Users(i)' = Users(i)
    BY DEF Users
  <2> QED
    BY <2>1 DEF PoolInv, PlacesAreCounted
<1> QED
  BY <1>1, <1>2 DEF PoolInv, OnePlacePerClient

(* What an answer or an error means for the pool. *)
PoolOutcome(c) ==
  \/ pc' = [pc EXCEPT ![c] = "backoff"] /\ UNCHANGED <<slot, client, clients, refcount, made>>
  \/ pc' = [pc EXCEPT ![c] = "archiveWait"] /\ UNCHANGED <<slot, client, clients, refcount, made>>
  \/ /\ \E p \in {"waiting", "failed", "returned"} : pc' = [pc EXCEPT ![c] = p]
     /\ LeavePool(c)
     /\ \/ UNCHANGED <<clients, made>>
        \/ clients' = [clients EXCEPT ![slot[c]] = made + 1] /\ made' = made + 1

LEMMA PoolOutcomes ==
  ASSUME NEW c \in Calls, Answered(c)
  PROVE  pc[c] = "sent" /\ PoolOutcome(c)
<1>1. CASE ConnectionFails(c)
  BY <1>1 DEF ConnectionFails, SendAgainOr, Reraise, OutOfPool, Ends, PoolOutcome, poolVars
<1>2. CASE ErrorAnswer(c)
  <2>1. PICK code \in {"busy", "unavailable", "refused", "empty400"},
             header \in {"none", "true", "false"} :
       LET raise == IF kind[c].archive /\ code = "unavailable"
                    THEN ArchiveRound(c, Reraise(c, TRUE))
                    ELSE IF code = "empty400"
                    THEN PoolReplaces(c) /\ OutOfPool(c, remaining > 0)
                    ELSE Reraise(c, code # "refused")
       IN  IF ShouldRetry(code, header) THEN SendAgainOr(c, raise)
           ELSE raise /\ UNCHANGED retries
    BY <1>2 DEF ErrorAnswer
  <2>2. CASE kind[c].archive /\ code = "unavailable"
    BY <1>2, <2>1, <2>2
    DEF ErrorAnswer, SendAgainOr, ArchiveRound, Reraise, OutOfPool, Ends, PoolOutcome, poolVars
  <2>3. CASE ~(kind[c].archive /\ code = "unavailable") /\ code = "empty400"
    BY <1>2, <2>1, <2>3
    DEF ErrorAnswer, SendAgainOr, PoolReplaces, OutOfPool, Ends, PoolOutcome, poolVars
  <2>4. CASE ~(kind[c].archive /\ code = "unavailable") /\ code # "empty400"
    BY <1>2, <2>1, <2>4 DEF ErrorAnswer, SendAgainOr, Reraise, OutOfPool, Ends, PoolOutcome, poolVars
  <2> QED
    BY <2>2, <2>3, <2>4
<1>3. CASE Answer(c)
  BY <1>3 DEF Answer, ArchiveRound, Reraise, OutOfPool, Ends, PoolOutcome, poolVars
<1> QED
  BY <1>1, <1>2, <1>3 DEF Answered

LEMMA PoolStep ==
  ASSUME EffectInv, PoolInv, [RequestsNext]_requestVars
  PROVE  PoolInv'
<1>1. pc = [c \in Calls |-> pc[c]]
  BY DEF EffectInv, CountersAreNumbers
<1>2. \A c \in Calls : InThePool(c) => slot[c] # 0
  BY DEF PoolInv, PoolTypeOK
<1>3. ASSUME NEW c \in Calls, Start(c) PROVE PoolInv'
  <2>1. pc' = [pc EXCEPT ![c] = "sent"] /\ slot[c] = 0 /\ EnterPool(c)
    BY <1>3 DEF Start, Sends, EffectInv, OutsideThePool
  <2> QED
    BY <2>1, Entering
<1>4. ASSUME NEW c \in Calls, Backoff(c) \/ ArchiveAgain(c) \/ TryAgain(c) \/ ServiceActs(c)
      PROVE  PoolInv'
  <2>1. /\ UNCHANGED <<slot, client, clients, refcount, made>>
        /\ \A d \in Calls : InThePool(d)' => InThePool(d)
    BY <1>1, <1>4
    DEF Backoff, ArchiveAgain, TryAgain, ServiceActs, poolVars, Sends, Ends, InThePool
  <2> QED
    BY <2>1, Staying
<1>5. ASSUME NEW c \in Calls, Answered(c) PROVE PoolInv'
  <2>1. pc[c] = "sent" /\ PoolOutcome(c)
    BY <1>5, PoolOutcomes
  <2>2. slot[c] # 0
    BY <1>2, <2>1 DEF InThePool
  <2>3. CASE UNCHANGED <<slot, client, clients, refcount, made>>
             /\ pc' \in {[pc EXCEPT ![c] = "backoff"], [pc EXCEPT ![c] = "archiveWait"]}
    <3>1. \A d \in Calls : InThePool(d)' => InThePool(d)
      BY <1>1, <2>1, <2>3 DEF InThePool
    <3> QED
      BY <2>3, <3>1, Staying
  <2>4. CASE /\ \E p \in {"waiting", "failed", "returned"} : pc' = [pc EXCEPT ![c] = p]
             /\ LeavePool(c)
             /\ \/ UNCHANGED <<clients, made>>
                \/ clients' = [clients EXCEPT ![slot[c]] = made + 1] /\ made' = made + 1
    <3>1. \A d \in Calls : InThePool(d)' => InThePool(d) /\ d # c
      BY <1>1, <2>1, <2>4 DEF InThePool
    <3> QED
      BY <2>2, <2>4, <3>1, Leaving
  <2> QED
    BY <2>1, <2>3, <2>4 DEF PoolOutcome
<1>6. ASSUME NEW c \in Calls, Cancel(c) PROVE PoolInv'
  <2>1. /\ pc' = [pc EXCEPT ![c] = "cancelled"] /\ UNCHANGED <<clients, made>>
        /\ IF slot[c] # 0 THEN LeavePool(c) ELSE UNCHANGED <<slot, client, refcount>>
    BY <1>6 DEF Cancel, Ends
  <2>2. \A d \in Calls : InThePool(d)' => InThePool(d) /\ d # c
    BY <1>1, <2>1 DEF InThePool
  <2> QED
    BY <2>1, <2>2, Leaving, Staying
<1>7. CASE UNCHANGED requestVars
  BY <1>7, Staying DEF requestVars, poolVars, InThePool
<1> QED
  BY <1>3, <1>4, <1>5, <1>6, <1>7 DEF RequestsNext, Proceed

(* A place in the pool is taken exactly as long as a call is inside, and no *)
(* client serves more calls than max_requests_per_client, also one that was *)
(* replaced under its calls: for any calls and bounds (aclient).            *)
THEOREM PoolKeepsItsBounds == Spec => []ClientsNotOverloaded
<1>1. Init => EffectInv /\ PoolInv
  BY EffectInitially, PoolInitially DEF Init
<1>2. EffectInv /\ PoolInv /\ [Next]_vars => EffectInv' /\ PoolInv'
  BY EffectStep, PoolStep, StepOfRequests
<1> QED
  BY <1>1, <1>2, PoolNotOverloaded, PTL DEF Spec

(***************************************************************************)
(* The retry handler.                                                      *)
(***************************************************************************)
HandlerPlaces == {"new", "semaphore", "attempt", "delay",
                  "returned", "raised", "cancelled", "APIConnectionError"}

HandlerTypeOK ==
  /\ where \in [Handled -> HandlerPlaces] /\ idle \in 0..Timeout + 1
  /\ waitingCount \in Nat /\ inLoopCount \in Nat
  /\ alarm \in [Handled -> Nat]

(* The handler is an instance, and so are the operators it extends. *)
LEMMA HandlerCardinality ==
  ASSUME NEW S
  PROVE  Handler!Cardinality(S) = Cardinality(S)
  BY DEF Handler!Cardinality, Cardinality

HandlerInv == HandlerTypeOK /\ Handler!CountersMatch /\ Handler!WatchdogsAreInTime

LEMMA HandlerConstants ==
  /\ IsFiniteSet(Handled)
  /\ MaxConnections \in Nat /\ 1 <= MaxConnections /\ Timeout \in Nat /\ 1 <= Timeout
<1>1. MaxConnections \in Nat \ {0} /\ Timeout \in Nat \ {0}
  BY ClientAssumption
<1> QED
  BY <1>1, ClientAssumption

LEMMA InsideAndQueuedFinite ==
  /\ IsFiniteSet(Handler!Inside) /\ Cardinality(Handler!Inside) \in Nat
  /\ IsFiniteSet(Handler!Queued) /\ Cardinality(Handler!Queued) \in Nat
<1>1. Handler!Inside \subseteq Handled /\ Handler!Queued \subseteq Handled
  BY DEF Handler!Inside, Handler!Queued
<1> QED
  BY <1>1, HandlerConstants, FS_Subset, FS_CardinalityType

LEMMA HandlerInitially == Handler!HandlerInit => HandlerInv
<1> SUFFICES ASSUME Handler!HandlerInit PROVE HandlerInv
  OBVIOUS
<1>1. HandlerTypeOK
  BY HandlerConstants DEF Handler!HandlerInit, HandlerTypeOK, HandlerPlaces
<1>2. Handler!Inside = {} /\ Handler!Queued = {}
  BY DEF Handler!HandlerInit, Handler!Inside, Handler!InLoop, Handler!Queued
<1>3. Handler!CountersMatch
  BY <1>2, FS_EmptySet, HandlerConstants, HandlerCardinality DEF Handler!HandlerInit, Handler!CountersMatch
<1> QED
  BY <1>1, <1>2, <1>3 DEF HandlerInv, Handler!WatchdogsAreInTime

(* A step that leaves the loop and the semaphore as they are. *)
LEMMA HandlerStays ==
  ASSUME HandlerInv, UNCHANGED <<waitingCount, inLoopCount>>,
         Handler!Inside' = Handler!Inside, Handler!Queued' \subseteq Handler!Queued
  PROVE  Handler!CountersMatch'
<1>1. Cardinality(Handler!Queued') <= Cardinality(Handler!Queued) /\ Cardinality(Handler!Queued') \in Nat
  BY InsideAndQueuedFinite, FS_Subset, FS_CardinalityType
<1> QED
  BY <1>1, InsideAndQueuedFinite, HandlerCardinality DEF HandlerInv, HandlerTypeOK, Handler!CountersMatch

(* The finally of execute. *)
LEMMA HandlerLeaves ==
  ASSUME HandlerInv, NEW r \in Handled, NEW how \in HandlerPlaces \ {"semaphore", "attempt", "delay"},
         Handler!InLoop(r), Handler!Leave(r, how), idle' \in {0, idle}, UNCHANGED waitingCount
  PROVE  HandlerInv'
<1> USE DEF HandlerInv
<1>1. HandlerTypeOK' /\ Handler!Inside' = Handler!Inside \ {r} /\ r \in Handler!Inside
      /\ Handler!Queued' = Handler!Queued
  <2>1. inLoopCount' \in Nat
    <3>1. r \in Handler!Inside
      BY DEF Handler!Inside
    <3>2. Cardinality(Handler!Inside) # 0
      BY <3>1, InsideAndQueuedFinite, FS_EmptySet
    <3> QED
      BY <3>2, InsideAndQueuedFinite, HandlerCardinality DEF Handler!Leave, Handler!CountersMatch
  <2>2. where' = [where EXCEPT ![r] = how] /\ alarm' = [alarm EXCEPT ![r] = 0]
    BY DEF Handler!Leave, Handler!Moves
  <2>3. HandlerTypeOK'
    BY <2>1, <2>2, HandlerConstants DEF HandlerTypeOK
  <2> QED
    BY <2>2, <2>3 DEF HandlerTypeOK, Handler!Inside, Handler!InLoop, Handler!Queued
<1>2. Handler!CountersMatch'
  <2>1. Cardinality(Handler!Inside') = Cardinality(Handler!Inside) - 1
    BY <1>1, InsideAndQueuedFinite, FS_RemoveElement
  <2> QED
    BY <1>1, <2>1, InsideAndQueuedFinite, HandlerConstants, HandlerCardinality DEF Handler!Leave, Handler!CountersMatch
<1>3. Handler!WatchdogsAreInTime'
  BY <1>1, HandlerConstants DEF Handler!WatchdogsAreInTime, HandlerTypeOK, Handler!Leave, Handler!Inside
<1> QED
  BY <1>1, <1>2, <1>3

LEMMA HandlerEnters ==
  ASSUME HandlerInv, NEW r \in Handled, Handler!EnterLoop(r)
  PROVE  HandlerInv'
<1> USE DEF HandlerInv
<1>1. /\ where[r] = "semaphore" /\ Cardinality(Handler!Inside) < MaxConnections
      /\ where' = [where EXCEPT ![r] = "attempt"]
      /\ waitingCount' = waitingCount - 1 /\ inLoopCount' = inLoopCount + 1
      /\ idle' = IF inLoopCount = 0 THEN 0 ELSE idle
      /\ alarm' = [alarm EXCEPT ![r] = 0]
  BY HandlerCardinality DEF Handler!EnterLoop, Handler!Moves
<1>2. /\ Handler!Inside' = Handler!Inside \cup {r} /\ r \notin Handler!Inside
      /\ Handler!Queued' = Handler!Queued \ {r} /\ r \in Handler!Queued
  BY <1>1 DEF HandlerTypeOK, Handler!Inside, Handler!InLoop, Handler!Queued
<1>3. /\ Cardinality(Handler!Inside') = Cardinality(Handler!Inside) + 1
      /\ Cardinality(Handler!Queued') = Cardinality(Handler!Queued) - 1
      /\ Cardinality(Handler!Queued') \in Nat
  BY <1>2, InsideAndQueuedFinite, FS_AddElement, FS_RemoveElement, FS_CardinalityType
<1>4. HandlerTypeOK'
  BY <1>1, <1>3, InsideAndQueuedFinite, HandlerConstants, HandlerCardinality DEF HandlerTypeOK, HandlerPlaces, Handler!CountersMatch
<1>5. Handler!CountersMatch'
  BY <1>1, <1>3, InsideAndQueuedFinite, HandlerConstants, HandlerCardinality DEF HandlerTypeOK, Handler!CountersMatch
<1>6. Handler!WatchdogsAreInTime'
  <2>1. idle' <= Timeout + 1 /\ idle' \in Nat /\ alarm'[r] = 0
    BY <1>1, <1>4, HandlerConstants DEF HandlerTypeOK
  <2>2. ASSUME NEW q \in Handler!Inside PROVE alarm'[q] + idle' <= Timeout + 1
    <3>1. Cardinality(Handler!Inside) # 0
      BY InsideAndQueuedFinite, FS_EmptySet
    <3>2. idle' = idle /\ alarm'[q] = alarm[q]
      BY <1>1, <1>2, <3>1, HandlerCardinality DEF Handler!CountersMatch, HandlerTypeOK, Handler!Inside
    <3> QED
      BY <3>2 DEF Handler!WatchdogsAreInTime
  <2> QED
    BY <1>2, <2>1, <2>2, HandlerConstants DEF Handler!WatchdogsAreInTime
<1> QED
  BY <1>4, <1>5, <1>6

LEMMA HandlerStep == HandlerInv /\ [Handler!HandlerNext]_handlerVars => HandlerInv'
<1> SUFFICES ASSUME HandlerInv, [Handler!HandlerNext]_handlerVars PROVE HandlerInv'
  OBVIOUS
<1> USE DEF HandlerInv
<1>1. ASSUME NEW r \in Handled, Handler!Queue(r) PROVE HandlerInv'
  <2>1. /\ where[r] = "new" /\ where' = [where EXCEPT ![r] = "semaphore"]
        /\ waitingCount' = waitingCount + 1 /\ UNCHANGED <<idle, inLoopCount, alarm>>
    BY <1>1 DEF Handler!Queue, Handler!Moves
  <2>2. /\ Handler!Inside' = Handler!Inside
        /\ Handler!Queued' = Handler!Queued \cup {r} /\ r \notin Handler!Queued
    BY <2>1 DEF HandlerTypeOK, Handler!Inside, Handler!InLoop, Handler!Queued
  <2>3. Cardinality(Handler!Queued') = Cardinality(Handler!Queued) + 1
    BY <2>2, InsideAndQueuedFinite, FS_AddElement
  <2>4. HandlerTypeOK'
    BY <2>1 DEF HandlerTypeOK, HandlerPlaces
  <2>5. Handler!CountersMatch'
    BY <2>1, <2>2, <2>3, InsideAndQueuedFinite, HandlerCardinality DEF HandlerTypeOK, Handler!CountersMatch
  <2> QED
    BY <2>1, <2>2, <2>4, <2>5 DEF Handler!WatchdogsAreInTime
<1>2. ASSUME NEW r \in Handled, Handler!Unwind(r) \/ Handler!Succeeds(r) \/ Handler!FailsForGood(r)
      PROVE HandlerInv'
  <2>1. PICK how \in {"APIConnectionError", "cancelled", "returned", "raised"} :
           Handler!Leave(r, how)
    BY <1>2 DEF Handler!Unwind, Handler!Succeeds, Handler!FailsForGood
  <2>2. Handler!InLoop(r) /\ idle' \in {0, idle} /\ UNCHANGED waitingCount
    BY <1>2 DEF Handler!Unwind, Handler!Succeeds, Handler!FailsForGood, Handler!Attempting,
                Handler!InLoop
  <2> QED
    BY <2>1, <2>2, HandlerLeaves DEF HandlerPlaces
<1>3. ASSUME NEW r \in Handled, Handler!CancelQueued(r) \/ Handler!RetryLater(r) \/ Handler!Retry(r)
      PROVE HandlerInv'
  <2>1. /\ \/ where[r] = "semaphore" /\ where' = [where EXCEPT ![r] = "cancelled"]
           \/ where[r] = "attempt" /\ where' = [where EXCEPT ![r] = "delay"]
           \/ where[r] = "delay" /\ where' = [where EXCEPT ![r] = "attempt"]
        /\ UNCHANGED <<idle, waitingCount, inLoopCount, alarm>>
    BY <1>3 DEF Handler!CancelQueued, Handler!RetryLater, Handler!Retry, Handler!Moves,
                Handler!Attempting
  <2>2. HandlerTypeOK'
    BY <2>1 DEF HandlerTypeOK, HandlerPlaces
  <2>3. Handler!Inside' = Handler!Inside /\ Handler!Queued' \subseteq Handler!Queued
    BY <2>1 DEF HandlerTypeOK, Handler!Inside, Handler!InLoop, Handler!Queued
  <2> QED
    BY <2>1, <2>2, <2>3, HandlerStays DEF Handler!WatchdogsAreInTime
<1>4. ASSUME NEW r \in Handled, Handler!Watch(r) \/ Handler!CancelRequest(r)
      PROVE HandlerInv'
  <2>1. /\ alarm' = [alarm EXCEPT ![r] = alarm'[r]]
        /\ alarm'[r] \in {alarm[r], Timeout + 1 - idle} /\ (alarm'[r] # alarm[r] => idle <= Timeout)
        /\ UNCHANGED <<where, idle, waitingCount, inLoopCount>>
    BY <1>4, HandlerConstants DEF Handler!Watch, Handler!CancelRequest, HandlerTypeOK
  <2>2. HandlerTypeOK'
    BY <2>1, HandlerConstants DEF HandlerTypeOK
  <2>3. Handler!Inside' = Handler!Inside /\ Handler!Queued' = Handler!Queued
    BY <2>1 DEF Handler!Inside, Handler!InLoop, Handler!Queued
  <2>4. Handler!WatchdogsAreInTime'
    BY <2>1, <2>3, HandlerConstants DEF HandlerTypeOK, Handler!WatchdogsAreInTime, Handler!Inside
  <2> QED
    BY <2>1, <2>2, <2>3, <2>4, HandlerStays
<1>5. CASE Handler!HandlerTick
  <2>1. /\ idle' = IF idle <= Timeout THEN idle + 1 ELSE idle
        /\ \A r \in Handled : alarm'[r] = Handler!Less(alarm[r])
        /\ alarm' \in [Handled -> Nat]
        /\ UNCHANGED <<where, waitingCount, inLoopCount>>
    BY <1>5 DEF Handler!HandlerTick, Handler!Less, HandlerTypeOK
  <2>2. HandlerTypeOK'
    BY <2>1, HandlerConstants DEF HandlerTypeOK
  <2>3. Handler!Inside' = Handler!Inside /\ Handler!Queued' = Handler!Queued
    BY <2>1 DEF Handler!Inside, Handler!InLoop, Handler!Queued
  <2>4. Handler!WatchdogsAreInTime'
    <3> SUFFICES ASSUME NEW r \in Handler!Inside PROVE alarm'[r] + idle' <= Timeout + 1
      BY <2>3 DEF Handler!WatchdogsAreInTime
    <3>1. r \in Handled /\ alarm[r] # 0
      BY <1>5 DEF Handler!HandlerTick, Handler!Due, Handler!Inside
    <3>2. alarm'[r] = alarm[r] - 1
      BY <2>1, <3>1 DEF Handler!Less, HandlerTypeOK
    <3>3. alarm[r] + idle <= Timeout + 1
      BY DEF Handler!WatchdogsAreInTime
    <3> QED
      BY <2>1, <3>1, <3>2, <3>3, HandlerConstants DEF HandlerTypeOK
  <2> QED
    BY <2>1, <2>2, <2>3, <2>4, HandlerStays
<1>6. CASE UNCHANGED handlerVars
  <2>1. Handler!Inside' = Handler!Inside /\ Handler!Queued' = Handler!Queued
    BY <1>6 DEF handlerVars, Handler!Inside, Handler!InLoop, Handler!Queued
  <2> QED
    BY <1>6, <2>1, HandlerStays DEF handlerVars, HandlerTypeOK, Handler!WatchdogsAreInTime
<1> QED
  BY <1>1, <1>2, <1>3, <1>4, <1>5, <1>6, HandlerEnters
  DEF Handler!HandlerNext, Handler!Proceeds, Handler!Attempt, Handler!Cancels

(* A step of the client is a step of the handler, or leaves it alone. *)
LEMMA StepOfHandler == [Next]_vars => [Handler!HandlerNext]_handlerVars
  BY DEF Next, Only, vars

(* The handler counts its requests and its watchdogs wake up in time for the *)
(* deadline: for any requests, limits and timeouts, whoever is cancelled     *)
(* where (execute, _check_progress).                                         *)
THEOREM HandlerIsRight == Spec => []HandlerAccounts
<1>1. Init => HandlerInv
  BY HandlerInitially DEF Init
<1>2. HandlerInv /\ [Next]_vars => HandlerInv'
  BY StepOfHandler, HandlerStep
<1>3. HandlerInv => HandlerAccounts
  BY DEF HandlerInv, HandlerAccounts
<1> QED
  BY <1>1, <1>2, <1>3, PTL DEF Spec

(***************************************************************************)
(* The holders of a session.                                               *)
(***************************************************************************)
ModelOps    == {"create", "fromState", "fromStateWithOptimizer"}
HolderOps   == {"service", "shadow"}
MakingAt    == {"getLoop", "startLoop", "startLocked", "session", "heartbeat"}
ModelAt     == {"check", "number", "waiting", "loading"}
RequestSet  == [op : {"none"} \cup HolderOps \cup ModelOps,
                at : {"idle", "cache", "returned", "raised", "timedOut"} \cup MakingAt \cup ModelAt,
                holder : Nat, model : Nat]
HolderSet   == [op : HolderOps, loop : Nat, beats : Nat, open : BOOLEAN, counter : Nat]
ModelSet    == [holder : Nat, number : Nat, loaded : {"nothing", "weights", "all"}]

HoldersTypeOK ==
  /\ place \in {"program", "sidecar"}
  /\ loops \in {0, 1} /\ loopStarted \in BOOLEAN /\ (loopStarted <=> loops = 1)
  /\ shadow \in Nat /\ holders \in Seq(HolderSet) /\ models \in Seq(ModelSet)
  /\ request \in [Threads -> RequestSet]
  /\ \A t \in Threads : /\ request[t].at \in MakingAt \cup {"cache"} => request[t].op \in HolderOps
                        /\ request[t].at \in ModelAt => request[t].op \in ModelOps
                        /\ request[t].at = "cache" => request[t].op = "shadow"

(* Whoever is past the loop has started it or found it started. *)
LoopIsThere ==
  /\ \A t \in Threads : request[t].at \in {"session", "heartbeat"} => loops = 1
  /\ \A h \in 1..Len(holders) : holders[h].loop = 1 /\ loops = 1

(* The only shadow holder is the one in the cache, and who makes one has  *)
(* the lock of the cache, which is still empty.                           *)
ShadowIsCached ==
  /\ \A h \in 1..Len(holders) : holders[h].op = "shadow" => h = shadow
  /\ shadow # 0 => \A t \in Threads : request[t].op = "shadow" => request[t].at \notin MakingAt
  /\ \A t \in Threads : request[t].op = "shadow" /\ request[t].at \in MakingAt => shadowLock = t

(* Each thread loads its own model, and a number is below its counter. *)
ModelsAreOwned ==
  /\ \A t \in Threads :
       /\ request[t].model \in 0..Len(models)
       /\ request[t].at \in ModelAt => request[t].holder \in 1..Len(holders)
       /\ request[t].at \in {"waiting", "loading"} => request[t].model # 0
       /\ request[t].at = "returned" /\ request[t].op \in ModelOps => request[t].model # 0
       /\ request[t].at = "returned" /\ request[t].op \in ModelOps \ {"create"} =>
            models[request[t].model].loaded = Session!Loads(t)
  /\ \A t, u \in Threads : t # u /\ request[t].model = request[u].model => request[t].model = 0
  /\ \A m \in 1..Len(models) : models[m].holder \in 1..Len(holders) /\
                               models[m].number < holders[models[m].holder].counter
  /\ \A m, n \in 1..Len(models) :
       m # n /\ models[m].holder = models[n].holder => models[m].number # models[n].number

HoldersInv == HoldersTypeOK /\ LoopIsThere /\ ShadowIsCached /\ ModelsAreOwned

LEMMA HoldersInitially == Session!HoldersInit => HoldersInv
<1> SUFFICES ASSUME Session!HoldersInit PROVE HoldersInv
  OBVIOUS
<1>1. HoldersTypeOK
  <2>1. place \in {"program", "sidecar"} /\ loopStarted \in BOOLEAN
        /\ loops \in {0, 1} /\ (loopStarted <=> loops = 1)
    <3>1. CASE place = "sidecar"
      BY <3>1 DEF Session!HoldersInit
    <3>2. CASE place = "program"
      <4>1. loopStarted = FALSE
        BY <3>2, Zenon DEF Session!HoldersInit
      <4> QED
        BY <3>2, <4>1 DEF Session!HoldersInit
    <3> QED
      BY <3>1, <3>2 DEF Session!HoldersInit
  <2> QED
    BY <2>1 DEF Session!HoldersInit, Session!Rest, HoldersTypeOK, RequestSet, MakingAt, ModelAt
<1>2. LoopIsThere /\ ShadowIsCached /\ ModelsAreOwned
  BY DEF Session!HoldersInit, Session!Rest, LoopIsThere, ShadowIsCached, ModelsAreOwned, MakingAt,
         ModelAt, Session!Loads
<1> QED
  BY <1>1, <1>2 DEF HoldersInv

(* The steps of a thread that concern nothing but its own request: it goes *)
(* on in the same operation.                                               *)
LEMMA RequestMoves ==
  ASSUME HoldersInv, NEW t \in Threads, NEW to,
         request' = [request EXCEPT ![t].at = to],
         UNCHANGED <<place, loopStarted, loops, shadowLock, shadow, holders, models>>,
         \/ request[t].at = "getLoop" /\ to = "startLoop"
         \/ request[t].at = "getLoop" /\ to = "session" /\ loopStarted
         \/ request[t].at = "startLoop" /\ to = "startLocked"
         \/ request[t].at = "session" /\ to = "heartbeat"
         \/ request[t].at = "session" /\ request[t].op = "service" /\ to = "raised"
         \/ request[t].at = "check" /\ to \in {"number", "raised"}
         \/ request[t].at = "waiting" /\ to \in {"loading", "raised", "timedOut"}
         \/ request[t].at = "waiting" /\ to = "returned" /\ request[t].op = "create"
  PROVE  HoldersInv'
<1> USE DEF HoldersInv
<1>1. /\ \A u \in Threads \ {t} : request'[u] = request[u]
      /\ request'[t].at = to /\ request'[t].op = request[t].op
      /\ request'[t].holder = request[t].holder /\ request'[t].model = request[t].model
  BY DEF HoldersTypeOK, RequestSet
<1>2. HoldersTypeOK'
  BY ZenonT(60) DEF HoldersTypeOK, RequestSet, MakingAt, ModelAt
<1>3. LoopIsThere'
  BY <1>1 DEF LoopIsThere, HoldersTypeOK
<1>4. ShadowIsCached'
  BY <1>1 DEF ShadowIsCached, MakingAt
<1>5. ModelsAreOwned'
  BY <1>1 DEF ModelsAreOwned, Session!Loads, ModelAt
<1> QED
  BY <1>2, <1>3, <1>4, <1>5

LEMMA ThreadOnlyMoves ==
  ASSUME HoldersInv, NEW t \in Threads,
         \/ Session!GetLoop(t) \/ Session!LockLoop(t) \/ Session!GetSession(t)
         \/ Session!CheckState(t) \/ Session!ModelMade(t)
  PROVE  HoldersInv'
<1> USE DEF Session!At, Session!Moves
<1>2. CASE Session!GetLoop(t)
  <2>1. CASE loopStarted
    BY <1>2, <2>1, RequestMoves DEF Session!GetLoop
  <2>2. CASE ~loopStarted
    <3>1. request[t].at = "getLoop" /\ request' = [request EXCEPT ![t].at = "startLoop"]
      BY <1>2, <2>2 DEF Session!GetLoop
    <3>2. UNCHANGED <<place, loopStarted, loops, shadowLock, shadow, holders, models>>
      BY <1>2 DEF Session!GetLoop
    <3> QED
      BY <3>1, <3>2, RequestMoves
  <2> QED
    BY <2>1, <2>2
<1>3. CASE Session!LockLoop(t)
  BY <1>3, RequestMoves DEF Session!LockLoop
<1>4. CASE Session!GetSession(t)
  BY <1>4, RequestMoves DEF Session!GetSession
<1>5. CASE Session!CheckState(t)
  BY <1>5, RequestMoves DEF Session!CheckState
<1>6. CASE Session!ModelMade(t)
  <2>1. request[t].op \in ModelOps
    BY <1>6 DEF HoldersInv, HoldersTypeOK, ModelAt, Session!ModelMade
  <2> QED
    BY <1>6, <2>1, RequestMoves DEF Session!ModelMade
<1> QED
  BY <1>2, <1>3, <1>4, <1>5, <1>6

LEMMA HolderBegins ==
  ASSUME HoldersInv, NEW t \in Threads, Session!NewHolder(t)
  PROVE  HoldersInv'
<1> USE DEF HoldersInv
<1>1. PICK op \in HolderOps :
         request' = [request EXCEPT ![t] =
           [Session!Rest EXCEPT !.op = op, !.at = IF op = "shadow" THEN "cache" ELSE "getLoop"]]
  BY DEF Session!NewHolder, HolderOps
<1>2. UNCHANGED <<place, loopStarted, loops, shadowLock, shadow, holders, models>>
  BY DEF Session!NewHolder
<1>3. /\ \A u \in Threads \ {t} : request'[u] = request[u]
      /\ request'[t] = [op |-> op, at |-> IF op = "shadow" THEN "cache" ELSE "getLoop",
                        holder |-> 0, model |-> 0]
  BY <1>1 DEF HoldersTypeOK, Session!Rest
<1>4. HoldersTypeOK'
  <2>1. request' \in [Threads -> RequestSet]
    <3>1. request'[t] \in RequestSet
      BY <1>3 DEF RequestSet, MakingAt, HolderOps
    <3> QED
      BY <1>1, <3>1 DEF HoldersTypeOK
  <2> QED
    BY <1>2, <1>3, <2>1 DEF HoldersTypeOK, ModelAt, HolderOps
<1>5. LoopIsThere' /\ ShadowIsCached'
  BY <1>2, <1>3 DEF LoopIsThere, ShadowIsCached, MakingAt, HolderOps
<1>6. ModelsAreOwned'
  BY <1>2, <1>3 DEF ModelsAreOwned, Session!Loads, ModelAt, HoldersTypeOK
<1> QED
  BY <1>4, <1>5, <1>6

LEMMA LoopStarts ==
  ASSUME HoldersInv, NEW t \in Threads, Session!StartLoop(t)
  PROVE  HoldersInv'
<1> USE DEF HoldersInv
<1>1. /\ request[t].at = "startLocked" /\ request' = [request EXCEPT ![t].at = "session"]
      /\ loops' = (IF loopStarted THEN loops ELSE loops + 1) /\ loopStarted' = TRUE
      /\ UNCHANGED <<place, shadowLock, shadow, holders, models>>
  BY DEF Session!StartLoop, Session!At, Session!Moves
<1>2. /\ \A u \in Threads \ {t} : request'[u] = request[u]
      /\ request'[t].at = "session" /\ request'[t].op = request[t].op
      /\ request'[t].holder = request[t].holder /\ request'[t].model = request[t].model
  BY <1>1 DEF HoldersTypeOK, RequestSet
<1>3. loops' = 1
  <2>1. CASE loopStarted
    BY <1>1, <2>1 DEF HoldersTypeOK
  <2>2. CASE ~loopStarted
    BY <1>1, <2>2 DEF HoldersTypeOK
  <2> QED
    BY <2>1, <2>2
<1>4. HoldersTypeOK'
  BY <1>1, <1>3, ZenonT(60) DEF HoldersTypeOK, RequestSet, MakingAt, ModelAt
<1>5. LoopIsThere' /\ ShadowIsCached'
  BY <1>1, <1>2, <1>3 DEF LoopIsThere, ShadowIsCached, MakingAt
<1>6. ModelsAreOwned'
  BY <1>1, <1>2 DEF ModelsAreOwned, Session!Loads, ModelAt
<1> QED
  BY <1>4, <1>5, <1>6

LEMMA ShadowLookedUp ==
  ASSUME HoldersInv, NEW t \in Threads, Session!LookUpShadow(t)
  PROVE  HoldersInv'
<1> USE DEF HoldersInv
<1>1. /\ request[t].at = "cache" /\ request[t].op = "shadow" /\ shadowLock = None
      /\ UNCHANGED <<place, loopStarted, loops, shadow, holders, models>>
  BY DEF Session!LookUpShadow, Session!At, HoldersTypeOK
<1>2. \A u \in Threads : request[u].op = "shadow" => request[u].at \notin MakingAt
  BY <1>1, ClientAssumption DEF ShadowIsCached
<1>3. /\ \A u \in Threads \ {t} : request'[u] = request[u]
      /\ request'[t].op = "shadow" /\ request'[t].model = request[t].model
      /\ request' \in [Threads -> RequestSet]
      /\ \/ shadow # 0 /\ request'[t].at = "returned" /\ UNCHANGED shadowLock
         \/ shadow = 0 /\ request'[t].at = "getLoop" /\ shadowLock' = t
  <2>1. CASE shadow # 0
    <3>1. request' = [request EXCEPT ![t].at = "returned", ![t].holder = shadow]
          /\ UNCHANGED shadowLock
      BY <2>1 DEF Session!LookUpShadow
    <3>2. shadow \in Nat
      BY DEF HoldersTypeOK
    <3> QED
      BY <1>1, <2>1, <3>1, <3>2 DEF HoldersTypeOK, RequestSet
  <2>2. CASE shadow = 0
    <3>1. request' = [request EXCEPT ![t].at = "getLoop"] /\ shadowLock' = t
      BY <2>2 DEF Session!LookUpShadow, Session!Moves
    <3> QED
      BY <1>1, <2>2, <3>1 DEF HoldersTypeOK, RequestSet, MakingAt
  <2> QED
    BY <2>1, <2>2
<1>4. HoldersTypeOK'
  BY <1>1, <1>3 DEF HoldersTypeOK, HolderOps, ModelAt
<1>5. LoopIsThere' /\ ShadowIsCached'
  BY <1>1, <1>2, <1>3 DEF LoopIsThere, ShadowIsCached, MakingAt
<1>6. ModelsAreOwned'
  BY <1>1, <1>3 DEF ModelsAreOwned, Session!Loads, ModelAt, ModelOps
<1> QED
  BY <1>4, <1>5, <1>6

(* A step of the holders that have been made: a heartbeat, or a number. *)
LEMMA HolderCounts ==
  ASSUME HoldersInv, NEW h \in 1..Len(holders),
         \/ holders' = [holders EXCEPT ![h].beats = @ + 1]
         \/ holders' = [holders EXCEPT ![h].counter = @ + 1]
  PROVE  /\ holders' \in Seq(HolderSet) /\ Len(holders') = Len(holders)
         /\ \A g \in 1..Len(holders) :
              /\ holders'[g].op = holders[g].op /\ holders'[g].loop = holders[g].loop
              /\ holders'[g].counter = IF g = h THEN holders'[h].counter ELSE holders[g].counter
              /\ holders'[g].counter \in Nat /\ holders[g].counter \in Nat
              /\ holders'[g].counter >= holders[g].counter
<1>1. holders \in Seq(HolderSet) /\ \A g \in 1..Len(holders) : holders[g] \in HolderSet
  BY DEF HoldersInv, HoldersTypeOK
<1>2. CASE holders' = [holders EXCEPT ![h].beats = @ + 1]
  <2>1. [holders[h] EXCEPT !.beats = @ + 1] \in HolderSet
    <3>1. holders[h] \in HolderSet /\ holders[h].beats + 1 \in Nat
      BY <1>1 DEF HolderSet
    <3> QED
      BY <3>1 DEF HolderSet
  <2>2. holders' \in Seq(HolderSet) /\ Len(holders') = Len(holders)
    BY <1>1, <1>2, <2>1
  <2>3. \A g \in 1..Len(holders) : holders'[g] \in HolderSet
    BY <2>2
  <2>4. \A g \in 1..Len(holders) :
          holders'[g] = IF g = h THEN [holders[h] EXCEPT !.beats = @ + 1] ELSE holders[g]
    BY <1>1, <1>2
  <2>5. ASSUME NEW g \in 1..Len(holders)
        PROVE  /\ holders'[g].op = holders[g].op /\ holders'[g].loop = holders[g].loop
               /\ holders'[g].counter = holders[g].counter /\ holders[g].counter \in Nat
    BY <1>1, <2>3, <2>4, ZenonT(60) DEF HolderSet
  <2> QED
    BY <2>2, <2>5
<1>3. CASE holders' = [holders EXCEPT ![h].counter = @ + 1]
  <2>1. [holders[h] EXCEPT !.counter = @ + 1] \in HolderSet
    <3>1. holders[h] \in HolderSet /\ holders[h].counter + 1 \in Nat
      BY <1>1 DEF HolderSet
    <3> QED
      BY <3>1 DEF HolderSet
  <2>2. holders' \in Seq(HolderSet) /\ Len(holders') = Len(holders)
    BY <1>1, <1>3, <2>1
  <2> QED
    BY <1>1, <1>3, <2>2, SMTT(60) DEF HolderSet
<1> QED
  BY <1>2, <1>3

LEMMA HeartbeatKeeps ==
  ASSUME HoldersInv, NEW h \in DOMAIN holders, Session!Heartbeat(h)
  PROVE  HoldersInv'
<1> USE DEF HoldersInv
<1>1. h \in 1..Len(holders) /\ holders' = [holders EXCEPT ![h].beats = @ + 1]
      /\ UNCHANGED <<place, loopStarted, loops, shadowLock, shadow, request, models>>
  BY DEF Session!Heartbeat, HoldersTypeOK
<1>2. HoldersTypeOK'
  BY <1>1, HolderCounts DEF HoldersTypeOK
<1>3. LoopIsThere' /\ ShadowIsCached'
  BY <1>1, HolderCounts DEF LoopIsThere, ShadowIsCached
<1>4. ModelsAreOwned'
  <2>1. ASSUME NEW m \in 1..Len(models)
        PROVE  models[m].holder \in 1..Len(holders') /\ models[m].number < holders'[models[m].holder].counter
    <3>1. /\ models[m].holder \in 1..Len(holders)
          /\ models[m].number < holders[models[m].holder].counter
      BY DEF ModelsAreOwned
    <3>2. models[m] \in ModelSet
      BY DEF HoldersTypeOK
    <3>3. models[m].number \in Nat
      BY <3>2 DEF ModelSet
    <3> QED
      BY <1>1, <3>1, <3>3, HolderCounts
  <2> QED
    BY <1>1, <2>1, HolderCounts DEF ModelsAreOwned, Session!Loads
<1> QED
  BY <1>2, <1>3, <1>4

LEMMA HolderIsMade ==
  ASSUME HoldersInv, NEW t \in Threads, Session!StartHeartbeat(t)
  PROVE  HoldersInv'
<1> USE DEF HoldersInv
<1> DEFINE fresh == [op |-> request[t].op, loop |-> loops, beats |-> 0, open |-> TRUE, counter |-> 0]
<1>1. /\ request[t].at = "heartbeat" /\ holders' = Append(holders, fresh)
      /\ request' = [request EXCEPT ![t].at = "returned", ![t].holder = Len(holders')]
      /\ shadow' = (IF request[t].op = "shadow" THEN Len(holders') ELSE shadow)
      /\ shadowLock' = (IF shadowLock = t THEN None ELSE shadowLock)
      /\ UNCHANGED <<place, loopStarted, loops, models>>
  BY DEF Session!StartHeartbeat, Session!At, Session!Made
<1>2. request[t].op \in HolderOps /\ loops = 1 /\ fresh \in HolderSet /\ Len(holders) \in Nat
  BY <1>1 DEF HoldersTypeOK, LoopIsThere, MakingAt, HolderSet
<1>3. /\ holders' \in Seq(HolderSet) /\ Len(holders') = Len(holders) + 1
      /\ holders'[Len(holders) + 1] = fresh
      /\ \A h \in 1..Len(holders) : holders'[h] = holders[h]
      /\ \A h \in 1..Len(holders') : h \in 1..Len(holders) \/ h = Len(holders) + 1
  BY <1>1, <1>2 DEF HoldersTypeOK
<1> HIDE DEF fresh
<1>4. /\ \A u \in Threads \ {t} : request'[u] = request[u]
      /\ request'[t].at = "returned" /\ request'[t].op = request[t].op
      /\ request'[t].model = request[t].model
      /\ request' \in [Threads -> RequestSet]
  <2> DEFINE next == [request[t] EXCEPT !.at = "returned", !.holder = Len(holders) + 1]
  <2>1. request' = [request EXCEPT ![t] = next]
    BY <1>1, <1>3
  <2>2. next \in RequestSet
    <3>1. request[t] \in RequestSet /\ Len(holders) + 1 \in Nat
      BY <1>2 DEF HoldersTypeOK
    <3> QED
      BY <3>1 DEF RequestSet
  <2>3. /\ next.at = "returned" /\ next.op = request[t].op /\ next.model = request[t].model
    BY DEF HoldersTypeOK, RequestSet
  <2> HIDE DEF next
  <2> QED
    BY <2>1, <2>2, <2>3 DEF HoldersTypeOK
<1>5. HoldersTypeOK'
  BY <1>1, <1>2, <1>3, <1>4 DEF HoldersTypeOK, MakingAt, ModelAt
<1>6. LoopIsThere'
  <2>1. \A u \in Threads : request'[u].at \in {"session", "heartbeat"} => loops' = 1
    BY <1>1, <1>2
  <2>2. \A h \in 1..Len(holders') : holders'[h].loop = 1 /\ loops' = 1
    BY <1>1, <1>2, <1>3 DEF fresh, LoopIsThere
  <2> QED
    BY <2>1, <2>2 DEF LoopIsThere
<1>7. ShadowIsCached'
  <2>1. fresh.op = request[t].op
    BY DEF fresh
  <2>2. CASE request[t].op = "shadow"
    <3>1. shadow = 0 /\ shadowLock = t
      BY <1>1, <2>2 DEF ShadowIsCached, MakingAt
    <3>2. \A h \in 1..Len(holders) : holders[h].op # "shadow"
      BY <3>1 DEF ShadowIsCached
    <3>3. \A u \in Threads : request'[u].op = "shadow" => request'[u].at \notin MakingAt
      BY <1>4, <3>1 DEF ShadowIsCached, MakingAt
    <3> QED
      BY <1>1, <1>3, <2>1, <2>2, <3>2, <3>3 DEF ShadowIsCached
  <2>3. CASE request[t].op # "shadow"
    <3>1. \A u \in Threads : request'[u].op = "shadow" /\ request'[u].at \in MakingAt => shadowLock' = u
      BY <1>1, <1>4, <2>3 DEF ShadowIsCached, MakingAt
    <3>2. shadow' = shadow
      BY <1>1, <2>3
    <3>3. \A h \in 1..Len(holders') : holders'[h].op = "shadow" => h = shadow'
      BY <1>3, <2>1, <2>3, <3>2 DEF ShadowIsCached
    <3>4. shadow' # 0 => \A u \in Threads : request'[u].op = "shadow" => request'[u].at \notin MakingAt
      BY <1>4, <3>2, <2>3 DEF ShadowIsCached, MakingAt
    <3> QED
      BY <3>1, <3>3, <3>4 DEF ShadowIsCached
  <2> QED
    BY <2>2, <2>3
<1>8. ModelsAreOwned'
  <2>1. ASSUME NEW u \in Threads
        PROVE  /\ request'[u].model \in 0..Len(models)
               /\ request'[u].at \in ModelAt => request'[u].holder \in 1..Len(holders')
               /\ request'[u].at \in {"waiting", "loading"} => request'[u].model # 0
               /\ request'[u].at = "returned" /\ request'[u].op \in ModelOps => request'[u].model # 0
               /\ request'[u].at = "returned" /\ request'[u].op \in ModelOps \ {"create"} =>
                    models[request'[u].model].loaded = Session!Loads(u)'
    BY <1>2, <1>3, <1>4, SMTT(60) DEF ModelsAreOwned, Session!Loads, ModelAt, ModelOps, HolderOps
  <2>2. \A u, v \in Threads : u # v /\ request'[u].model = request'[v].model => request'[u].model = 0
    BY <1>4 DEF ModelsAreOwned
  <2>3. \A m \in 1..Len(models) : models[m].holder \in 1..Len(holders') /\
                                  models[m].number < holders'[models[m].holder].counter
    BY <1>3 DEF ModelsAreOwned
  <2> QED
    BY <1>1, <2>1, <2>2, <2>3, ZenonT(60) DEF ModelsAreOwned
<1> QED
  BY <1>5, <1>6, <1>7, <1>8

LEMMA ModelIsAsked ==
  ASSUME HoldersInv, NEW t \in Threads, Session!CreateModel(t)
  PROVE  HoldersInv'
<1> USE DEF HoldersInv
<1>1. PICK op \in ModelOps, h \in DOMAIN holders :
         request' = [request EXCEPT ![t] =
           [op |-> op, at |-> IF op = "create" THEN "number" ELSE "check", holder |-> h, model |-> 0]]
  BY DEF Session!CreateModel, Session!WithModel, ModelOps
<1>2. /\ h \in 1..Len(holders) /\ Len(holders) \in Nat
      /\ UNCHANGED <<place, loopStarted, loops, shadowLock, shadow, holders, models>>
  BY DEF Session!CreateModel, HoldersTypeOK
<1>3. /\ \A u \in Threads \ {t} : request'[u] = request[u]
      /\ request'[t].at \in {"number", "check"} /\ request'[t].op = op
      /\ request'[t].holder = h /\ request'[t].model = 0
      /\ request' \in [Threads -> RequestSet]
  BY <1>1, <1>2 DEF HoldersTypeOK, RequestSet, ModelAt
<1>4. HoldersTypeOK'
  BY <1>2, <1>3 DEF HoldersTypeOK, MakingAt
<1>5. LoopIsThere' /\ ShadowIsCached'
  BY <1>2, <1>3 DEF LoopIsThere, ShadowIsCached, MakingAt
<1>6. ModelsAreOwned'
  <2>1. Len(models) \in Nat
    BY DEF HoldersTypeOK
  <2>2. ASSUME NEW u \in Threads
        PROVE  /\ request'[u].model \in 0..Len(models)
               /\ request'[u].at \in ModelAt => request'[u].holder \in 1..Len(holders)
               /\ request'[u].at \in {"waiting", "loading"} => request'[u].model # 0
               /\ request'[u].at = "returned" /\ request'[u].op \in ModelOps => request'[u].model # 0
               /\ request'[u].at = "returned" /\ request'[u].op \in ModelOps \ {"create"} =>
                    models[request'[u].model].loaded = Session!Loads(u)'
    BY <1>2, <1>3, <2>1 DEF ModelsAreOwned, Session!Loads
  <2>3. \A u, v \in Threads : u # v /\ request'[u].model = request'[v].model => request'[u].model = 0
    BY <1>3 DEF ModelsAreOwned
  <2> QED
    BY <1>2, <2>2, <2>3 DEF ModelsAreOwned
<1> QED
  BY <1>4, <1>5, <1>6

LEMMA ModelIsPosted ==
  ASSUME HoldersInv, NEW t \in Threads, Session!PostModel(t)
  PROVE  HoldersInv'
<1> USE DEF HoldersInv
<1> DEFINE h == request[t].holder
           new == [holder |-> h, number |-> holders[h].counter, loaded |-> "nothing"]
<1>1. /\ request[t].at = "number" /\ holders' = [holders EXCEPT ![h].counter = @ + 1]
      /\ UNCHANGED <<place, loopStarted, loops, shadowLock, shadow>>
  BY DEF Session!PostModel, Session!At
<1>2. request[t].op \in ModelOps /\ h \in 1..Len(holders) /\ Len(models) \in Nat
  BY <1>1 DEF HoldersTypeOK, ModelsAreOwned, ModelAt
<1> HIDE DEF h
<1>3. /\ holders' \in Seq(HolderSet) /\ Len(holders') = Len(holders)
      /\ \A g \in 1..Len(holders) :
              /\ holders'[g].op = holders[g].op /\ holders'[g].loop = holders[g].loop
              /\ holders'[g].counter \in Nat /\ holders[g].counter \in Nat
              /\ holders'[g].counter >= holders[g].counter
  BY <1>1, <1>2, HolderCounts
<1>4. holders'[h].counter = holders[h].counter + 1
  BY <1>1, <1>2, <1>3 DEF HoldersTypeOK, HolderSet
<1>5. ASSUME NEW m \in 1..Len(models)
      PROVE  /\ models[m].holder \in 1..Len(holders') /\ models[m].number \in Nat
             /\ models[m].number < holders'[models[m].holder].counter
             /\ models[m].holder = h => models[m].number < holders[h].counter
  <2>1. models[m] \in ModelSet
    BY DEF HoldersTypeOK
  <2>2. models[m].number \in Nat
    BY <2>1 DEF ModelSet
  <2>3. models[m].holder \in 1..Len(holders) /\ models[m].number < holders[models[m].holder].counter
    BY DEF ModelsAreOwned
  <2> QED
    BY <1>3, <2>2, <2>3
<1>6. CASE request' = [request EXCEPT ![t].at = "raised"] /\ UNCHANGED models
  <2>1. /\ \A u \in Threads \ {t} : request'[u] = request[u]
        /\ request'[t].at = "raised" /\ request'[t].op = request[t].op
        /\ request'[t].model = request[t].model /\ request' \in [Threads -> RequestSet]
    BY <1>6, ZenonT(60) DEF HoldersTypeOK, RequestSet
  <2>2. HoldersTypeOK' /\ LoopIsThere' /\ ShadowIsCached'
    BY <1>1, <1>3, <1>6, <2>1 DEF HoldersTypeOK, LoopIsThere, ShadowIsCached, MakingAt, ModelAt
  <2>3. ModelsAreOwned'
    BY <1>3, <1>5, <1>6, <2>1 DEF ModelsAreOwned, Session!Loads, ModelAt
  <2> QED
    BY <2>2, <2>3
<1>7. CASE /\ models' = Append(models, new)
           /\ request' = [request EXCEPT ![t].at = "waiting", ![t].model = Len(models')]
  <2>1. /\ models' \in Seq(ModelSet) /\ Len(models') = Len(models) + 1
        /\ models'[Len(models) + 1] = new
        /\ \A m \in 1..Len(models) : models'[m] = models[m]
        /\ \A m \in 1..Len(models') : m \in 1..Len(models) \/ m = Len(models) + 1
    <3>1. new \in ModelSet
      BY <1>2, <1>3 DEF ModelSet
    <3> HIDE DEF new
    <3> QED
      BY <1>7, <3>1 DEF HoldersTypeOK
  <2>2. new.holder = h /\ new.number = holders[h].counter
    OBVIOUS
  <2> HIDE DEF new
  <2>3. /\ \A u \in Threads \ {t} : request'[u] = request[u]
        /\ request'[t].at = "waiting" /\ request'[t].op = request[t].op
        /\ request'[t].holder = h
        /\ request'[t].model = Len(models) + 1 /\ request' \in [Threads -> RequestSet]
    <3> DEFINE next == [request[t] EXCEPT !.at = "waiting", !.model = Len(models) + 1]
    <3>1. request' = [request EXCEPT ![t] = next]
      BY <1>7, <2>1
    <3>2. next \in RequestSet
      <4>1. request[t] \in RequestSet /\ Len(models) + 1 \in Nat
        BY <1>2 DEF HoldersTypeOK
      <4> QED
        BY <4>1 DEF RequestSet, ModelAt
    <3>3. /\ next.at = "waiting" /\ next.op = request[t].op /\ next.holder = h
          /\ next.model = Len(models) + 1
      BY DEF HoldersTypeOK, RequestSet, h
    <3> HIDE DEF next
    <3> QED
      BY <3>1, <3>2, <3>3 DEF HoldersTypeOK
  <2>6. HoldersTypeOK'
    BY <1>1, <1>2, <1>3, <2>1, <2>3, ZenonT(60) DEF HoldersTypeOK, MakingAt, ModelAt
  <2>7. LoopIsThere'
    BY <1>1, <1>3, <2>3 DEF LoopIsThere
  <2>8. ShadowIsCached'
    BY <1>1, <1>3, <2>3 DEF ShadowIsCached, MakingAt
  <2>5. ModelsAreOwned'
    <3>1. ASSUME NEW u \in Threads
          PROVE  /\ request'[u].model \in 0..Len(models')
                 /\ request'[u].at \in ModelAt => request'[u].holder \in 1..Len(holders')
                 /\ request'[u].at \in {"waiting", "loading"} => request'[u].model # 0
                 /\ request'[u].at = "returned" /\ request'[u].op \in ModelOps => request'[u].model # 0
                 /\ request'[u].at = "returned" /\ request'[u].op \in ModelOps \ {"create"} =>
                      models'[request'[u].model].loaded = Session!Loads(u)'
      BY <1>2, <1>3, <2>1, <2>3, SMTT(60) DEF ModelsAreOwned, Session!Loads
    <3>2. ASSUME NEW u \in Threads, NEW v \in Threads, u # v, request'[u].model = request'[v].model
          PROVE  request'[u].model = 0
      BY <1>2, <2>3, <3>2 DEF ModelsAreOwned
    <3>3. ASSUME NEW m \in 1..Len(models')
          PROVE  models'[m].holder \in 1..Len(holders') /\
                 models'[m].number < holders'[models'[m].holder].counter
      <4>1. CASE m = Len(models) + 1
        BY <1>2, <1>3, <1>4, <2>1, <2>2, <4>1
      <4>2. CASE m \in 1..Len(models)
        BY <1>5, <2>1, <4>2
      <4> QED
        BY <2>1, <4>1, <4>2
    <3>4. ASSUME NEW m \in 1..Len(models'), NEW n \in 1..Len(models'), m # n,
                 models'[m].holder = models'[n].holder
          PROVE  models'[m].number # models'[n].number
      <4>1. holders[h].counter \in Nat
        BY <1>2, <1>3
      <4>2. CASE m \in 1..Len(models) /\ n \in 1..Len(models)
        BY <2>1, <3>4, <4>2 DEF ModelsAreOwned
      <4>3. CASE m = Len(models) + 1 /\ n \in 1..Len(models)
        BY <1>5, <2>1, <2>2, <3>4, <4>1, <4>3
      <4>4. CASE n = Len(models) + 1 /\ m \in 1..Len(models)
        BY <1>5, <2>1, <2>2, <3>4, <4>1, <4>4
      <4> QED
        BY <2>1, <3>4, <4>2, <4>3, <4>4
    <3> QED
      BY <3>1, <3>2, <3>3, <3>4 DEF ModelsAreOwned
  <2> QED
    BY <2>5, <2>6, <2>7, <2>8
<1> QED
  BY <1>6, <1>7 DEF Session!PostModel, Session!Moves, h

LEMMA ModelIsLoaded ==
  ASSUME HoldersInv, NEW t \in Threads, Session!LoadState(t)
  PROVE  HoldersInv'
<1> USE DEF HoldersInv
<1> DEFINE m == request[t].model
<1>1. /\ request[t].at = "loading" /\ m \in 1..Len(models)
      /\ \A u \in Threads \ {t} : request[u].model # m
      /\ UNCHANGED <<place, loopStarted, loops, shadowLock, shadow, holders>>
  BY DEF Session!LoadState, Session!At, ModelsAreOwned, HoldersTypeOK
<1>2. PICK to \in {"returned", "raised"} : request' = [request EXCEPT ![t].at = to]
  BY DEF Session!LoadState, Session!Moves
<1>3. /\ \A u \in Threads \ {t} : request'[u] = request[u]
      /\ request'[t].at = to /\ request'[t].op = request[t].op
      /\ request'[t].holder = request[t].holder
      /\ request'[t].model = request[t].model /\ request' \in [Threads -> RequestSet]
  BY <1>2, ZenonT(60) DEF HoldersTypeOK, RequestSet
<1>4. /\ models' \in Seq(ModelSet) /\ Len(models') = Len(models)
      /\ \A n \in 1..Len(models) : /\ models'[n].holder = models[n].holder
                                   /\ models'[n].number = models[n].number
                                   /\ n # m => models'[n] = models[n]
      /\ to = "returned" => models'[m].loaded = Session!Loads(t)
  <2>1. CASE models' = [models EXCEPT ![m].loaded = Session!Loads(t)]
    <3>1. /\ models \in Seq(ModelSet) /\ Session!Loads(t) \in {"nothing", "weights", "all"}
          /\ \A n \in 1..Len(models) : models[n] \in ModelSet
      BY DEF HoldersTypeOK, Session!Loads
    <3> HIDE DEF m
    <3>2. [models[m] EXCEPT !.loaded = Session!Loads(t)] \in ModelSet
      BY <1>1, <3>1 DEF ModelSet
    <3>3. models' \in Seq(ModelSet) /\ Len(models') = Len(models)
      BY <1>1, <2>1, <3>1, <3>2
    <3>4. \A n \in 1..Len(models) :
            models'[n] = IF n = m THEN [models[m] EXCEPT !.loaded = Session!Loads(t)] ELSE models[n]
      BY <1>1, <2>1, <3>1
    <3> QED
      BY <1>1, <3>1, <3>3, <3>4, ZenonT(60) DEF ModelSet
  <2>2. CASE UNCHANGED models /\ to = "raised"
    BY <2>2 DEF HoldersTypeOK
  <2>3. \/ models' = [models EXCEPT ![m].loaded = Session!Loads(t)]
        \/ UNCHANGED models /\ request' = [request EXCEPT ![t].at = "raised"]
    BY DEF Session!LoadState, Session!Moves
  <2>4. request' = [request EXCEPT ![t].at = "raised"] => to = "raised"
    BY <1>3 DEF HoldersTypeOK, RequestSet
  <2> QED
    BY <2>1, <2>2, <2>3, <2>4
<1>5. HoldersTypeOK' /\ LoopIsThere' /\ ShadowIsCached'
  <2>1. HoldersTypeOK'
    BY <1>1, <1>3, <1>4 DEF HoldersTypeOK, MakingAt, ModelAt
  <2>2. LoopIsThere' /\ ShadowIsCached'
    BY <1>1, <1>3 DEF LoopIsThere, ShadowIsCached, MakingAt
  <2> QED
    BY <2>1, <2>2
<1>6. ModelsAreOwned'
  <2>1. ASSUME NEW u \in Threads
        PROVE  /\ request'[u].model \in 0..Len(models')
               /\ request'[u].at \in ModelAt => request'[u].holder \in 1..Len(holders')
               /\ request'[u].at \in {"waiting", "loading"} => request'[u].model # 0
               /\ request'[u].at = "returned" /\ request'[u].op \in ModelOps => request'[u].model # 0
               /\ request'[u].at = "returned" /\ request'[u].op \in ModelOps \ {"create"} =>
                    models'[request'[u].model].loaded = Session!Loads(u)'
    <3>1. CASE u = t
      BY <1>1, <1>3, <1>4, <3>1 DEF ModelsAreOwned, Session!Loads, ModelAt
    <3>2. CASE u # t
      BY <1>1, <1>3, <1>4, <3>2 DEF ModelsAreOwned, Session!Loads, ModelAt
    <3> QED
      BY <3>1, <3>2
  <2>2. \A u, v \in Threads : u # v /\ request'[u].model = request'[v].model => request'[u].model = 0
    BY <1>3 DEF ModelsAreOwned
  <2>3. ASSUME NEW n \in 1..Len(models')
        PROVE  models'[n].holder \in 1..Len(holders') /\
               models'[n].number < holders'[models'[n].holder].counter
    BY <1>1, <1>4 DEF ModelsAreOwned
  <2>4. \A i, n \in 1..Len(models') :
          i # n /\ models'[i].holder = models'[n].holder => models'[i].number # models'[n].number
    BY <1>4, ZenonT(60) DEF ModelsAreOwned
  <2> QED
    BY <2>1, <2>2, <2>3, <2>4 DEF ModelsAreOwned
<1> QED
  BY <1>5, <1>6

LEMMA HoldersStep == HoldersInv /\ [Session!HoldersNext]_holderVars => HoldersInv'
<1>1. CASE UNCHANGED holderVars
  BY <1>1 DEF holderVars, HoldersInv, HoldersTypeOK, LoopIsThere, ShadowIsCached, ModelsAreOwned,
              Session!Loads
<1>2. CASE Session!HoldersNext
  BY <1>2, ThreadOnlyMoves, HolderBegins, LoopStarts, ShadowLookedUp, HeartbeatKeeps, HolderIsMade,
     ModelIsAsked, ModelIsPosted, ModelIsLoaded
  DEF Session!HoldersNext, Session!Proceeds
<1> QED
  BY <1>1, <1>2

LEMMA SessionCardinality ==
  ASSUME NEW S
  PROVE  Session!Cardinality(S) = Cardinality(S)
  BY DEF Session!Cardinality, Cardinality

LEMMA HoldersInvSuffices == HoldersInv => HoldersAreShared
<1> SUFFICES ASSUME HoldersInv PROVE HoldersAreShared
  OBVIOUS
<1> USE DEF HoldersInv
<1>1. DOMAIN holders = 1..Len(holders) /\ DOMAIN models = 1..Len(models)
  BY DEF HoldersTypeOK
<1>2. Session!OneLoopForAll
  BY <1>1 DEF Session!OneLoopForAll, LoopIsThere
<1>3. Session!OneShadowPerSession
  <2> DEFINE shadows == {h \in DOMAIN holders : holders[h].op = "shadow"}
  <2>1. shadows \subseteq {shadow}
    BY <1>1 DEF ShadowIsCached
  <2>2. Cardinality(shadows) <= 1
    <3>1. IsFiniteSet({shadow}) /\ Cardinality({shadow}) = 1
      BY FS_Singleton
    <3> HIDE DEF shadows
    <3>2. Cardinality(shadows) <= Cardinality({shadow})
      BY <2>1, <3>1, FS_Subset
    <3> QED
      BY <3>1, <3>2
  <2> QED
    BY <2>2, SessionCardinality DEF Session!OneShadowPerSession
<1>4. Session!ModelsAreAsAsked
  BY <1>1 DEF Session!ModelsAreAsAsked, Session!At, Session!WithModel, ModelsAreOwned, ModelOps
<1> QED
  BY <1>2, <1>3, <1>4 DEF HoldersAreShared

LEMMA StepOfHolders == [Next]_vars => [Session!HoldersNext]_holderVars
  BY DEF Next, Only, vars

(* Any threads of a program share one loop, the copies of a session share one *)
(* holder with its backoff and its limits, and a training client is handed    *)
(* out with the state it was asked for (InternalClientHolder,                 *)
(* _ShadowHolderSingleton, create_training_client_from_state).                *)
THEOREM HoldersShare == Spec => []HoldersAreShared
<1>1. Init => HoldersInv
  BY HoldersInitially DEF Init
<1>2. HoldersInv /\ [Next]_vars => HoldersInv'
  BY StepOfHolders, HoldersStep
<1> QED
  BY <1>1, <1>2, HoldersInvSuffices, PTL DEF Spec

(***************************************************************************)
(* The calls of a sampling client and of its copy.                         *)
(***************************************************************************)
SourceStates   == {"none", "refused", "pending", "proven", "unproven", "error", "cancelled"}
VerifiedStates == {"none", "pending", "running", "result", "exception", "cancelled"}
Submitted      == {c \in Samplings : source[c] # "none"}

SamplingsTypeOK ==
  /\ counter \in [Sampling!Clients -> Nat] /\ copied \in BOOLEAN /\ sidecar \in BOOLEAN
  /\ requestId \in [Samplings -> SUBSET Nat]
  /\ source \in [Samplings -> SourceStates] /\ verified \in [Samplings -> VerifiedStates]

(* The ids of the original are below its counter, which is no larger than *)
(* the number of calls; those of the copy are a billion away.             *)
IdsAreApart ==
  /\ sidecar => copied
  /\ counter["original"] <= Cardinality(Submitted)
  /\ copied => counter["copy"] >= Base
  /\ \A c \in Samplings : \A i \in requestId[c] :
       i < counter["original"] \/ (copied /\ Base <= i /\ i < counter["copy"])
  /\ \A c \in Samplings : source[c] = "none" => requestId[c] = {}

SamplingsInv == SamplingsTypeOK /\ IdsAreApart /\ Sampling!NoiseIsProven

LEMMA SamplingsConstants ==
  /\ IsFiniteSet(Samplings) /\ Cardinality(Samplings) \in Nat
  /\ Base \in Nat /\ MaxBase \in Nat /\ Cardinality(Samplings) <= Base
<1>1. Base \in Nat \ {0} /\ MaxBase \in Nat \ {0}
  BY ClientAssumption
<1> QED
  BY <1>1, ClientAssumption, FS_CardinalityType

LEMMA SubmittedFinite ==
  /\ IsFiniteSet(Submitted) /\ Cardinality(Submitted) \in Nat
  /\ Cardinality(Submitted) <= Cardinality(Samplings)
<1>1. Submitted \subseteq Samplings
  BY DEF Submitted
<1> QED
  BY <1>1, SamplingsConstants, FS_Subset, FS_CardinalityType

LEMMA SamplingsInitially == Sampling!SamplingsInit => SamplingsInv
<1> SUFFICES ASSUME Sampling!SamplingsInit PROVE SamplingsInv
  OBVIOUS
<1>1. SamplingsTypeOK
  BY DEF Sampling!SamplingsInit, SamplingsTypeOK, SourceStates, VerifiedStates
<1>2. counter["original"] = 0
  BY DEF Sampling!SamplingsInit, Sampling!Clients
<1>3. IdsAreApart
  BY <1>2, SubmittedFinite DEF Sampling!SamplingsInit, IdsAreApart
<1>4. Sampling!NoiseIsProven
  BY DEF Sampling!SamplingsInit, Sampling!NoiseIsProven
<1> QED
  BY <1>1, <1>3, <1>4 DEF SamplingsInv

(* The steps that give no id and submit nothing. *)
LEMMA NoIdGiven ==
  ASSUME SamplingsInv, UNCHANGED <<counter, copied, sidecar, requestId>>,
         source' \in [Samplings -> SourceStates], verified' \in [Samplings -> VerifiedStates],
         \A c \in Samplings : (source'[c] = "none") <=> (source[c] = "none"),
         \A c \in Samplings : verified'[c] = "result" => source'[c] = "proven"
  PROVE  SamplingsInv'
<1>1. Submitted' = Submitted
  BY DEF Submitted
<1>2. Cardinality(Submitted') = Cardinality(Submitted)
  BY <1>1
<1> QED
  BY <1>2 DEF SamplingsInv, SamplingsTypeOK, IdsAreApart, Sampling!NoiseIsProven

LEMMA CopyKeeps ==
  ASSUME SamplingsInv, NEW forSidecar \in BOOLEAN, Sampling!Copy(forSidecar)
  PROVE  SamplingsInv'
<1> USE DEF SamplingsInv
<1>1. PICK n \in 1..MaxBase : counter' = [counter EXCEPT !["copy"] = Base * n]
  BY DEF Sampling!Copy
<1>2. Base * n \in Nat /\ Base * n >= Base
  BY SamplingsConstants
<1>3. /\ ~copied /\ copied' = TRUE /\ sidecar' = forSidecar
      /\ UNCHANGED <<requestId, source, verified>>
  BY DEF Sampling!Copy
<1>4. counter' \in [Sampling!Clients -> Nat] /\ counter'["copy"] >= Base
      /\ counter'["original"] = counter["original"]
  BY <1>1, <1>2 DEF SamplingsTypeOK, Sampling!Clients
<1>5. SamplingsTypeOK' /\ Sampling!NoiseIsProven'
  BY <1>3, <1>4 DEF SamplingsTypeOK, Sampling!NoiseIsProven
<1>6. IdsAreApart'
  <2>1. Cardinality(Submitted') = Cardinality(Submitted)
    <3>1. Submitted' = Submitted
      BY <1>3 DEF Submitted
    <3> QED
      BY <3>1
  <2> QED
    BY <1>3, <1>4, <2>1 DEF IdsAreApart
<1> QED
  BY <1>5, <1>6

LEMMA SubmitKeeps ==
  ASSUME SamplingsInv, NEW c \in Samplings, NEW from \in Sampling!Clients,
         Sampling!Submit(c, from)
  PROVE  SamplingsInv'
<1> USE DEF SamplingsInv
<1>1. source[c] = "none" /\ (from = "copy" => copied) /\ UNCHANGED <<copied, sidecar>>
  BY DEF Sampling!Submit
<1>2. requestId[c] = {} /\ verified[c] # "result"
  BY <1>1 DEF IdsAreApart, Sampling!NoiseIsProven
<1>3. CASE /\ source' = [source EXCEPT ![c] = "refused"]
           /\ UNCHANGED <<counter, requestId, verified>>
  <2>1. /\ Submitted' = Submitted \cup {c} /\ c \notin Submitted
    BY <1>1, <1>3 DEF Submitted, SamplingsTypeOK
  <2>2. Cardinality(Submitted') = Cardinality(Submitted) + 1
    BY <2>1, SubmittedFinite, FS_AddElement
  <2>3. SamplingsTypeOK' /\ Sampling!NoiseIsProven'
    BY <1>1, <1>2, <1>3 DEF SamplingsTypeOK, SourceStates, Sampling!NoiseIsProven
  <2>4. IdsAreApart'
    BY <1>1, <1>3, <2>2, SubmittedFinite DEF IdsAreApart, SamplingsTypeOK, Sampling!Clients
  <2> QED
    BY <2>3, <2>4
<1>4. ASSUME NEW sender \in Sampling!Clients, sender = "copy" => copied, NEW v \in VerifiedStates \ {"result"},
             requestId' = [requestId EXCEPT ![c] = {counter[sender]}],
             counter' = [counter EXCEPT ![sender] = @ + 1],
             source' = [source EXCEPT ![c] = "pending"],
             verified' = [verified EXCEPT ![c] = v]
      PROVE  SamplingsInv'
  <2>1. /\ Submitted' = Submitted \cup {c} /\ c \notin Submitted
    BY <1>1, <1>4 DEF Submitted, SamplingsTypeOK
  <2>2. Cardinality(Submitted') = Cardinality(Submitted) + 1
    BY <2>1, SubmittedFinite, FS_AddElement
  <2>3. Cardinality(Submitted) + 1 <= Base
    <3>1. Submitted' \subseteq Samplings
      BY DEF Submitted
    <3>2. Cardinality(Submitted') <= Cardinality(Samplings)
      BY <3>1, SamplingsConstants, FS_Subset
    <3> QED
      BY <2>2, <3>2, SubmittedFinite, SamplingsConstants
  <2>4. SamplingsTypeOK'
    BY <1>1, <1>4 DEF SamplingsTypeOK, SourceStates
  <2>5. /\ counter[sender] \in Nat /\ counter'[sender] = counter[sender] + 1
        /\ \A o \in Sampling!Clients \ {sender} : counter'[o] = counter[o]
        /\ counter["original"] \in Nat /\ counter["copy"] \in Nat
        /\ counter["original"] < Base /\ (copied => Base <= counter["copy"])
        /\ sender \in {"original", "copy"}
    BY <1>4, <2>3, SubmittedFinite, SamplingsConstants
    DEF SamplingsTypeOK, Sampling!Clients, IdsAreApart
  <2>6. /\ requestId'[c] = {counter[sender]}
        /\ \A d \in Samplings \ {c} : requestId'[d] = requestId[d]
        /\ \A d \in Samplings : \A i \in requestId[d] : i \in Nat
    BY <1>4 DEF SamplingsTypeOK
  <2>7. \A d \in Samplings : counter[sender] \notin requestId[d]
    BY <1>4, <2>5, <2>6, SamplingsConstants DEF IdsAreApart
  <2>8. Sampling!NoiseIsProven'
    <3>1. ASSUME NEW d \in Samplings, verified'[d] = "result" PROVE source'[d] = "proven"
      BY <1>4, <3>1 DEF Sampling!NoiseIsProven, SamplingsTypeOK
    <3>2. ASSUME NEW d \in Samplings, NEW e \in Samplings, d # e
          PROVE  requestId'[d] \cap requestId'[e] = {}
      <4>1. CASE d # c /\ e # c
        BY <2>6, <3>2, <4>1 DEF Sampling!NoiseIsProven
      <4>2. CASE d = c \/ e = c
        BY <2>6, <2>7, <3>2, <4>2
      <4> QED
        BY <4>1, <4>2
    <3> QED
      BY <3>1, <3>2 DEF Sampling!NoiseIsProven
  <2>9. IdsAreApart'
    <3>1. ASSUME NEW d \in Samplings, NEW i \in requestId'[d]
          PROVE  i < counter'["original"] \/ (copied' /\ Base <= i /\ i < counter'["copy"])
      <4>1. CASE d = c
        BY <1>1, <1>4, <2>5, <2>6, <4>1 DEF Sampling!Clients
      <4>2. CASE d # c
        BY <1>1, <2>5, <2>6, <4>2 DEF IdsAreApart, Sampling!Clients
      <4> QED
        BY <4>1, <4>2
    <3>2. counter'["original"] <= Cardinality(Submitted')
      BY <2>2, <2>5, SubmittedFinite DEF IdsAreApart, Sampling!Clients
    <3>3. copied' => counter'["copy"] >= Base
      BY <1>1, <2>5, SamplingsConstants DEF Sampling!Clients
    <3>4. \A d \in Samplings : source'[d] = "none" => requestId'[d] = {}
      BY <1>4, <2>6 DEF IdsAreApart, SamplingsTypeOK
    <3> QED
      BY <1>1, <3>1, <3>2, <3>3, <3>4 DEF IdsAreApart
  <2> QED
    BY <2>4, <2>8, <2>9
<1>5. PICK w \in Sampling!Wants :
         /\ wanted' = [wanted EXCEPT ![c] = w]
         /\ IF Sampling!Refused(from, w)
            THEN /\ source' = [source EXCEPT ![c] = "refused"]
                 /\ UNCHANGED <<counter, requestId, verified>>
            ELSE LET sender == IF sidecar THEN "copy" ELSE from
                 IN  /\ requestId' = [requestId EXCEPT ![c] = {counter[sender]}]
                     /\ counter' = [counter EXCEPT ![sender] = @ + 1]
                     /\ source' = [source EXCEPT ![c] = "pending"]
                     /\ verified' = [verified EXCEPT ![c] =
                                       IF w.kind = "droid" /\ w.noise THEN "pending" ELSE @]
  BY DEF Sampling!Submit
<1>6. CASE ~Sampling!Refused(from, w)
  <2> DEFINE sender == IF sidecar THEN "copy" ELSE from
             v == IF w.kind = "droid" /\ w.noise THEN "pending" ELSE verified[c]
  <2>1. sender \in Sampling!Clients /\ (sender = "copy" => copied)
    BY <1>1 DEF Sampling!Clients, IdsAreApart
  <2>2. v \in VerifiedStates \ {"result"}
    BY <1>2 DEF SamplingsTypeOK, VerifiedStates
  <2>3. /\ requestId' = [requestId EXCEPT ![c] = {counter[sender]}]
        /\ counter' = [counter EXCEPT ![sender] = @ + 1]
        /\ source' = [source EXCEPT ![c] = "pending"] /\ verified' = [verified EXCEPT ![c] = v]
    BY <1>5, <1>6
  <2> HIDE DEF sender, v
  <2> QED
    BY <1>4, <2>1, <2>2, <2>3
<1> QED
  BY <1>3, <1>5, <1>6

LEMMA SamplingsStep == SamplingsInv /\ [Sampling!SamplingsNext]_callVars => SamplingsInv'
<1> SUFFICES ASSUME SamplingsInv, [Sampling!SamplingsNext]_callVars PROVE SamplingsInv'
  OBVIOUS
<1>1. /\ source \in [Samplings -> SourceStates] /\ verified \in [Samplings -> VerifiedStates]
      /\ \A c \in Samplings : verified[c] = "result" => source[c] = "proven"
  BY DEF SamplingsInv, SamplingsTypeOK, Sampling!NoiseIsProven
<1>2. ASSUME NEW c \in Samplings, Sampling!Complete(c) PROVE SamplingsInv'
  BY <1>1, <1>2, NoIdGiven DEF Sampling!Complete, Sampling!Settles, SourceStates
<1>3. ASSUME NEW c \in Samplings, Sampling!Verify(c) PROVE SamplingsInv'
  BY <1>1, <1>3, NoIdGiven DEF Sampling!Verify, Sampling!CancelVerified, VerifiedStates
<1>4. ASSUME NEW c \in Samplings, Sampling!CheckAck(c) PROVE SamplingsInv'
  BY <1>1, <1>4, NoIdGiven DEF Sampling!CheckAck, VerifiedStates
<1>5. ASSUME NEW c \in Samplings, Sampling!CancelSourceIfNeeded(c) PROVE SamplingsInv'
  BY <1>1, <1>5, NoIdGiven DEF Sampling!CancelSourceIfNeeded, SourceStates
<1>6. ASSUME NEW c \in Samplings, Sampling!CallerCancels(c) PROVE SamplingsInv'
  BY <1>1, <1>6, NoIdGiven
  DEF Sampling!CallerCancels, Sampling!Settles, SourceStates, VerifiedStates
<1>7. CASE UNCHANGED callVars
  BY <1>1, <1>7, NoIdGiven DEF callVars
<1> QED
  BY <1>2, <1>3, <1>4, <1>5, <1>6, <1>7, CopyKeeps, SubmitKeeps
  DEF Sampling!SamplingsNext, Sampling!Runs

LEMMA StepOfSamplings == [Next]_vars => [Sampling!SamplingsNext]_callVars
  BY DEF Next, Only, vars

(* A caller that asked for its noise gets a response only with the proof that *)
(* it was applied, and no request id is used twice, by the original, by its   *)
(* copy or by the two together, as long as a client makes fewer calls than    *)
(* the distance between their ids (sample_droid, __init__ and __reduce__).    *)
THEOREM NoiseProvenAndIdsApart == Spec => []NoiseIsProven
<1>1. Init => SamplingsInv
  BY SamplingsInitially DEF Init
<1>2. SamplingsInv /\ [Next]_vars => SamplingsInv'
  BY StepOfSamplings, SamplingsStep
<1>3. SamplingsInv => NoiseIsProven
  BY DEF SamplingsInv, NoiseIsProven
<1> QED
  BY <1>1, <1>2, <1>3, PTL DEF Spec

(***************************************************************************)
(* The backoff that the service asks for.                                  *)
(***************************************************************************)
(* What was asked for by a paused answer is kept in the time that all      *)
(* holders share; later answers only move it further away.                 *)
PauseIsKept ==
  /\ sharedUntil \in Int /\ sinceAsked \in Nat /\ streak \in Nat
  /\ localUntil \in [Pools -> Int] /\ owner \in [Samples -> Pools]
  /\ sinceAsked <= Queue!RecentWindow => sharedUntil >= 0 - sinceAsked

LEMMA WindowIsPositive == Queue!RecentWindow \in Nat /\ Queue!RecentWindow >= 4
  BY ClientAssumption DEF Queue!RecentWindow

LEMMA BackoffTimes ==
  /\ Queue!LongOver = 0 - Queue!RecentWindow - 1
  /\ Queue!Never = 0 - Queue!RecentWindow - 2
  /\ Queue!Forgotten \in Nat /\ Queue!Forgotten > Queue!RecentWindow
  BY WindowIsPositive DEF Queue!LongOver, Queue!Never, Queue!Forgotten, Queue!Larger, Queue!StreakWindow

LEMMA QueueCardinality ==
  ASSUME NEW S
  PROVE  Queue!Cardinality(S) = Cardinality(S)
  BY DEF Queue!Cardinality, Cardinality

LEMMA OutstandingIsNat == Queue!Outstanding \in Nat
<1> DEFINE out == {s \in Samples : loopAt[s] \in {"loop", "asleep", "sent"}}
<1>1. out \subseteq Samples /\ IsFiniteSet(Samples)
  BY ClientAssumption
<1>2. Cardinality(out) \in Nat
  BY <1>1, FS_Subset, FS_CardinalityType
<1> QED
  BY <1>2, QueueCardinality DEF Queue!Outstanding

(* Whatever is requested for lasts a while. *)
LEMMA BackoffAskedFor ==
  ASSUME NEW state, NEW requested \in Nat, requested >= 1
  PROVE  /\ Queue!QueueStateBackoff(state, requested) \in Int
         /\ Queue!QueueStateBackoff(state, requested) >= 2
<1>1. Queue!BaseBackoff(state) \in {2, 3, 4, 5}
  BY ClientAssumption DEF Queue!BaseBackoff
<1>2. Queue!Pressure(Queue!Outstanding - 1) \in Nat
  BY OutstandingIsNat DEF Queue!Pressure, Queue!Smaller
<1> QED
  BY <1>1, <1>2 DEF Queue!QueueStateBackoff

LEMMA BackoffInitially == Queue!BackoffInit => PauseIsKept
  BY BackoffTimes, WindowIsPositive DEF Queue!BackoffInit, PauseIsKept

LEMMA RejectKeeps ==
  ASSUME PauseIsKept, NEW s \in Samples, Queue!RejectSample(s)
  PROVE  PauseIsKept'
<1> USE DEF PauseIsKept
<1> DEFINE h == owner[s]
<1>1. h \in Pools /\ localUntil[h] \in Int /\ UNCHANGED owner
  BY DEF Queue!RejectSample
<1>2. PICK state \in Queue!QueueStates :
       LET paused == state \in {"paused_capacity", "paused_rate_limit"}
           noted  == IF paused THEN Queue!NotePaused(owner[s], state)
                     ELSE Queue!NoteActive(owner[s], state = "waiting")
       IN  /\ streak' = IF paused THEN Queue!NextStreak ELSE streak
           /\ sinceAsked' = IF paused THEN 0 ELSE sinceAsked
           /\ sharedUntil' = noted.shared
           /\ localUntil' = [localUntil EXCEPT ![owner[s]] =
                               Queue!Larger(noted.local, IF heavy[s] THEN 10 ELSE 2)]
  BY DEF Queue!RejectSample
<1>3. Queue!NextStreak \in Nat /\ Queue!NextStreak >= 1
  BY DEF Queue!NextStreak, Queue!Smaller
<1>4. CASE state \in {"paused_capacity", "paused_rate_limit"}
  <2> DEFINE noted == Queue!NotePaused(h, state)
             requested == Queue!QueueStateBackoff(state, Queue!NextStreak)
  <2>1. requested \in Int /\ requested >= 2
    BY <1>3, BackoffAskedFor
  <2>2. noted.shared \in Int /\ noted.local \in Int /\ noted.shared >= 2
    BY <1>1, <2>1 DEF Queue!NotePaused, Queue!Raise, Queue!Times, Queue!Current, Queue!Backoff
  <2>3. streak' \in Nat /\ sinceAsked' = 0 /\ sharedUntil' = noted.shared
        /\ localUntil' = [localUntil EXCEPT ![h] = Queue!Larger(noted.local, IF heavy[s] THEN 10 ELSE 2)]
    BY <1>2, <1>3, <1>4
  <2> HIDE DEF noted, h
  <2> QED
    BY <1>1, <2>2, <2>3 DEF Queue!Larger
<1>5. CASE state \notin {"paused_capacity", "paused_rate_limit"}
  <2> DEFINE noted == Queue!NoteActive(h, state = "waiting")
  <2>1. noted.shared \in Int /\ noted.local \in Int /\ noted.shared \in {sharedUntil, 1}
    BY <1>1 DEF Queue!NoteActive, Queue!Raise, Queue!Times
  <2>2. UNCHANGED <<streak, sinceAsked>> /\ sharedUntil' = noted.shared
        /\ localUntil' = [localUntil EXCEPT ![h] = Queue!Larger(noted.local, IF heavy[s] THEN 10 ELSE 2)]
    BY <1>2, <1>5
  <2> HIDE DEF noted, h
  <2> QED
    BY <1>1, <2>1, <2>2 DEF Queue!Larger
<1> QED
  BY <1>4, <1>5

LEMMA TickKeeps ==
  ASSUME PauseIsKept, Queue!BackoffTick
  PROVE  PauseIsKept'
<1> USE DEF PauseIsKept
<1>1. /\ localUntil' = [h \in Pools |-> Queue!Down(localUntil[h])]
      /\ sharedUntil' = Queue!Down(sharedUntil)
      /\ sinceAsked' = Queue!Smaller(sinceAsked + 1, Queue!Forgotten)
      /\ UNCHANGED <<owner, streak>>
  BY DEF Queue!BackoffTick
<1>2. localUntil' \in [Pools -> Int] /\ sharedUntil' \in Int /\ sinceAsked' \in Nat
  BY <1>1, BackoffTimes, WindowIsPositive DEF Queue!Down, Queue!Smaller
<1>3. sinceAsked' <= Queue!RecentWindow => sharedUntil' >= 0 - sinceAsked'
  BY <1>1, BackoffTimes, WindowIsPositive DEF Queue!Down, Queue!Smaller
<1> QED
  BY <1>1, <1>2, <1>3

LEMMA BackoffStep == PauseIsKept /\ [Queue!BackoffNext]_backoffVars => PauseIsKept'
<1> SUFFICES ASSUME PauseIsKept, [Queue!BackoffNext]_backoffVars PROVE PauseIsKept'
  OBVIOUS
<1>1. ASSUME NEW s \in Samples, Queue!SampleStep(s) \/ Queue!AcceptSample(s) PROVE PauseIsKept'
  BY <1>1 DEF PauseIsKept, Queue!SampleStep, Queue!EnterBytesLimit, Queue!Sleep, Queue!AwakeAgain,
              Queue!SendSample, Queue!AcceptSample
<1>2. CASE UNCHANGED backoffVars
  BY <1>2 DEF backoffVars, PauseIsKept
<1> QED
  BY <1>1, <1>2, RejectKeeps, TickKeeps DEF Queue!BackoffNext, Queue!SampleAnswer

FactorTypeOK == factor \in [Samples -> Nat]

LEMMA FactorStep == FactorTypeOK /\ [Queue!BackoffNext]_backoffVars => FactorTypeOK'
  BY DEF FactorTypeOK, backoffVars, Queue!BackoffNext, Queue!SampleStep, Queue!SampleAnswer,
         Queue!EnterBytesLimit, Queue!Sleep, Queue!AwakeAgain, Queue!SendSample,
         Queue!AcceptSample, Queue!RejectSample, Queue!BackoffTick

(* Within the window after a paused answer no sample enters at the plain price:
   the shared time cannot have been over for longer than the answer is old. *)
LEMMA SamplesPay ==
  ASSUME PauseIsKept, FactorTypeOK, [Queue!BackoffNext]_backoffVars,
         NEW s \in Samples, factor[s] = 0, factor'[s] = 1
  PROVE  sinceAsked >= Queue!RecentWindow
<1>1. ASSUME NEW r \in Samples, Queue!EnterBytesLimit(r)
      PROVE  sinceAsked >= Queue!RecentWindow
  <2>1. factor' = [factor EXCEPT ![r] = IF Queue!RequestedRecently(owner[r]) THEN 20 ELSE 1]
    BY <1>1 DEF Queue!EnterBytesLimit
  <2>2. r = s /\ ~Queue!RequestedRecently(owner[r])
    BY <2>1 DEF FactorTypeOK
  <2>3. ASSUME sinceAsked < Queue!RecentWindow PROVE Queue!RequestedRecently(owner[r])
    <3>1. sharedUntil >= 0 - sinceAsked /\ sharedUntil # Queue!Never
      BY <2>3, BackoffTimes, WindowIsPositive DEF PauseIsKept
    <3> QED
      BY <2>3, <3>1, BackoffTimes, WindowIsPositive
      DEF PauseIsKept, Queue!RequestedRecently, Queue!Backoff, Queue!Current
  <2> QED
    BY <2>2, <2>3, WindowIsPositive DEF PauseIsKept
<1>2. ASSUME NEW r \in Samples, Queue!AcceptSample(r) PROVE factor'[s] = factor[s] \/ factor'[s] = 0
  BY <1>2 DEF FactorTypeOK, Queue!AcceptSample
<1>3. UNCHANGED factor \/ (\E r \in Samples : Queue!EnterBytesLimit(r) \/ Queue!AcceptSample(r))
  BY DEF backoffVars, Queue!BackoffNext, Queue!SampleStep, Queue!SampleAnswer, Queue!Sleep,
         Queue!AwakeAgain, Queue!SendSample, Queue!RejectSample, Queue!BackoffTick
<1> QED
  BY <1>1, <1>2, <1>3

LEMMA StepOfBackoff == [Next]_vars => [Queue!BackoffNext]_backoffVars
  BY DEF Next, Only, vars

(***************************************************************************)
(* For the whole window after a paused answer, whatever the later answers  *)
(* name, every new sample of every holder pays twenty times for its bytes. *)
(***************************************************************************)
THEOREM PausedRemembered == Spec => PausedIsRemembered
<1> DEFINE Inv == PauseIsKept /\ FactorTypeOK
           Pays == \A s \in Samples : factor[s] = 0 /\ factor'[s] = 1 => sinceAsked >= Queue!RecentWindow
<1>1. Init => Inv
  BY BackoffInitially DEF Init, Queue!BackoffInit, FactorTypeOK
<1>2. Inv /\ [Next]_vars => Inv'
  BY BackoffStep, FactorStep, StepOfBackoff
<1>3. Inv /\ [Next]_vars => Pays
  BY SamplesPay, StepOfBackoff
<1> HIDE DEF Inv
<1>4. Inv /\ [Next]_vars => [Pays]_vars
  BY <1>3
<1> HIDE DEF Pays
<1>5. Spec => [][Pays]_vars
  BY <1>1, <1>2, <1>4, PTL DEF Spec
<1> QED
  BY <1>5 DEF PausedIsRemembered, Pays

(***************************************************************************)
(* Responses: the connection is held by a stream that its consumer uses,   *)
(* and what was parsed is still there.                                     *)
(***************************************************************************)
ResponsesInv ==
  /\ mode \in Response!Modes /\ parsed \in [Response!CastTo -> {"no", "whole"}]
  /\ open => scope = "using" /\ mode \in Response!Streams
  /\ scope = "request" => body = "none"
  /\ body = "unread" => mode \in Response!Streams
  /\ \A t \in Response!CastTo : parsed[t] # "no" => body = "content"

LEMMA ResponsesInitially == Response!ResponsesInit => ResponsesInv
  BY DEF Response!ResponsesInit, ResponsesInv, Response!CastTo

LEMMA ResponsesStep == ResponsesInv /\ [Response!ResponsesNext]_responseVars => ResponsesInv'
<1> SUFFICES ASSUME ResponsesInv, [Response!ResponsesNext]_responseVars PROVE ResponsesInv'
  OBVIOUS
<1> USE DEF ResponsesInv
<1>1. CASE Response!ReceiveResponse
  BY <1>1 DEF Response!ReceiveResponse
<1>2. ASSUME NEW t \in Response!CastTo, Response!Parse(t) PROVE ResponsesInv'
  <2>1. CASE body \in {"unread", "content"}
    BY <1>2, <2>1 DEF Response!Parse, Response!Use, Response!ReadBody
  <2>2. CASE body \notin {"unread", "content"}
    BY <1>2, <2>2 DEF Response!Parse, Response!Use, Response!ReadBody
  <2> QED
    BY <2>1, <2>2
<1>3. CASE Response!Read
  BY <1>3 DEF Response!Read, Response!Use, Response!ReadBody
<1>4. ASSUME NEW toTheEnd \in BOOLEAN, Response!Iterate(toTheEnd) PROVE ResponsesInv'
  <2>1. CASE body = "content"
    BY <1>4, <2>1 DEF Response!Iterate, Response!Use
  <2>2. CASE body = "unread"
    BY <1>4, <2>2 DEF Response!Iterate, Response!Use
  <2>3. CASE body \notin {"content", "unread"}
    BY <1>4, <2>3 DEF Response!Iterate, Response!Use
  <2> QED
    BY <2>1, <2>2, <2>3
<1>5. CASE Response!IterateEvents
  BY <1>5 DEF Response!IterateEvents, Response!Use
<1>6. CASE Response!CloseResponse \/ Response!LeaveContext
  BY <1>6 DEF Response!CloseResponse, Response!LeaveContext, Response!Use
<1>7. CASE UNCHANGED responseVars
  BY <1>7 DEF responseVars
<1> QED
  BY <1>1, <1>2, <1>3, <1>4, <1>5, <1>6, <1>7 DEF Response!ResponsesNext

LEMMA StepOfResponses == [Next]_vars => [Response!ResponsesNext]_responseVars
  BY DEF Next, Only, vars

(***************************************************************************)
(* The events of a stream.                                                 *)
(***************************************************************************)
ReadByte(so, s, i) ==
  LET line == so.line \o (IF s[i] \in {Sse!CR, Sse!LF} THEN <<>> ELSE <<s[i]>>)
  IN  IF i \in Sse!LineEnds(s) THEN [decoder |-> Sse!DecodeLine(so.decoder, line), line |-> <<>>]
                               ELSE [decoder |-> so.decoder, line |-> line]
Reads(f, st, s, n) ==
  f = [i \in 0..n |-> IF i = 0 THEN [decoder |-> st, line |-> <<>>] ELSE ReadByte(f[i - 1], s, i)]

LEMMA ReadingExists ==
  ASSUME NEW st, NEW s, NEW k \in Nat
  PROVE  \E f : Reads(f, st, s, k)
<1> DEFINE Bad == {n \in Nat : ~\E f : Reads(f, st, s, n)}
<1> SUFFICES ASSUME Bad # {} PROVE FALSE
  OBVIOUS
<1>1. PICK n \in Bad : \A m \in Bad : n <= m
  <2>1. Bad \subseteq Nat
    OBVIOUS
  <2> HIDE DEF Bad
  <2> QED
    BY <2>1, LeastOf
<1>2. n # 0
  <2>1. Reads([i \in 0..0 |-> [decoder |-> st, line |-> <<>>]], st, s, 0)
    BY DEF Reads
  <2> QED
    BY <1>1, <2>1
<1>3. n - 1 \in Nat /\ n - 1 \notin Bad
  BY <1>1, <1>2
<1>4. PICK f : Reads(f, st, s, n - 1)
  BY <1>3
<1> DEFINE g == [i \in 0..n |-> IF i = 0 THEN [decoder |-> st, line |-> <<>>]
                                ELSE ReadByte(f[i - 1], s, i)]
<1>5. \A i \in 0..n-1 : g[i] = f[i]
  BY <1>3, <1>4 DEF Reads
<1>6. g = [i \in 0..n |-> IF i = 0 THEN [decoder |-> st, line |-> <<>>] ELSE ReadByte(g[i - 1], s, i)]
  <2>1. \A i \in 0..n : i # 0 => i - 1 \in 0..n-1
    BY <1>3
  <2>2. \A i \in 0..n : i # 0 => ReadByte(f[i - 1], s, i) = ReadByte(g[i - 1], s, i)
    BY <1>5, <2>1
  <2> QED
    BY <2>2
<1>7. Reads(g, st, s, n)
  BY <1>6 DEF Reads
<1> QED
  BY <1>1, <1>7

LEMMA Reading ==
  ASSUME NEW st, NEW s, Len(s) \in Nat
  PROVE  /\ Sse!Decoding(st, s)[0] = [decoder |-> st, line |-> <<>>]
         /\ \A i \in 1..Len(s) : Sse!Decoding(st, s)[i] = ReadByte(Sse!Decoding(st, s)[i - 1], s, i)
<1>1. Sse!Decoding(st, s) = CHOOSE f : Reads(f, st, s, Len(s))
  BY DEF Sse!Decoding, Reads, ReadByte
<1>2. Reads(Sse!Decoding(st, s), st, s, Len(s))
  BY <1>1, ReadingExists
<1> QED
  BY <1>2 DEF Reads

Bytes == Sse!Contents \cup {Sse!CR, Sse!LF}

(* The line ends of a body are of one kind. *)
LEMMA BodyBytes ==
  ASSUME text \in Sse!Bodies
  PROVE  /\ text \in Seq(Bytes) /\ Len(text) \in Nat /\ DOMAIN text = 1..Len(text)
         /\ \A i \in 1..Len(text) :
              text[i] = Sse!CR => \/ \A j \in 1..Len(text) : text[j] # Sse!LF
                                  \/ i < Len(text) /\ text[i + 1] = Sse!LF
<1>1. PICK n \in 0..MaxBody : text \in [1..n -> Bytes]
  BY DEF Sse!Bodies, Bytes
<1>2. n \in Nat /\ Len(text) = n /\ DOMAIN text = 1..n /\ text \in Seq(Bytes)
  BY <1>1, ClientAssumption
<1> QED
  BY <1>2 DEF Sse!Bodies

LEMMA SuffixBytes ==
  ASSUME NEW S, NEW t \in Seq(S), NEW e \in Seq(S), Sse!IsSuffix(e, t)
  PROVE  /\ Len(e) <= Len(t)
         /\ \A i \in 1..Len(e) : t[Len(t) - Len(e) + i] = e[i]
<1> DEFINE re == Sse!Reverse(e)
           rt == Sse!Reverse(t)
<1>1. re \in Seq(S) /\ Len(re) = Len(e) /\ rt \in Seq(S) /\ Len(rt) = Len(t)
  BY DEF Sse!Reverse
<1>2. Len(e) <= Len(t) /\ SubSeq(re, 1, Len(e)) = SubSeq(rt, 1, Len(e))
  BY <1>1 DEF Sse!IsSuffix, Sse!IsPrefix
<1>3. \A i \in 1..Len(e) : re[i] = rt[i]
  <2> SUFFICES ASSUME NEW i \in 1..Len(e) PROVE re[i] = rt[i]
    OBVIOUS
  <2>1. SubSeq(re, 1, Len(e))[i] = re[i] /\ SubSeq(rt, 1, Len(e))[i] = rt[i]
    <3> HIDE DEF re, rt
    <3> QED
      BY <1>1, <1>2
  <2> QED
    BY <1>2, <2>1
<1>4. \A i \in 1..Len(e) : re[Len(e) - i + 1] = e[i] /\ rt[Len(e) - i + 1] = t[Len(t) - Len(e) + i]
  BY <1>2 DEF Sse!Reverse
<1>5. \A i \in 1..Len(e) : Len(e) - i + 1 \in 1..Len(e)
  OBVIOUS
<1> HIDE DEF re, rt
<1> QED
  BY <1>2, <1>3, <1>4, <1>5

LEMMA LastByte ==
  ASSUME NEW S, NEW t \in Seq(S), NEW e \in Seq(S), e # <<>>, Sse!IsSuffix(e, t)
  PROVE  1 <= Len(e) /\ Len(e) <= Len(t) /\ t[Len(t)] = e[Len(e)]
<1>1. Len(e) \in 1..Len(e) /\ Len(t) - Len(e) + Len(e) = Len(t)
  OBVIOUS
<1> QED
  BY <1>1, SuffixBytes

(* What ends an event ends a line of the body, also if the piece ends there. *)
LEMMA EventsEndLines ==
  ASSUME text \in Sse!Bodies, NEW m \in Nat, NEW k \in Nat, m <= k, k <= Len(text),
         Sse!EndsEvent(SubSeq(text, m + 1, k))
  PROVE  k \in Sse!LineEnds(text) /\ m < k
<1>0. text \in Seq(Bytes) /\ Len(text) \in Nat /\ DOMAIN text = 1..Len(text)
  BY BodyBytes
<1> DEFINE s == SubSeq(text, m + 1, k)
<1>1. s \in Seq(Bytes) /\ Len(s) = k - m /\ \A i \in 1..k-m : s[i] = text[m + i]
  BY <1>0
<1>2. /\ <<Sse!CR, Sse!CR>> \in Seq(Bytes) /\ <<Sse!LF, Sse!LF>> \in Seq(Bytes)
      /\ <<Sse!CR, Sse!LF, Sse!CR, Sse!LF>> \in Seq(Bytes)
  <2>1. Sse!CR \in Bytes /\ Sse!LF \in Bytes
    BY DEF Bytes
  <2> QED
    BY <2>1
<1> HIDE DEF s
<1>3. Sse!LF # Sse!CR
  BY DEF Sse!LF, Sse!CR
<1>4. ASSUME 1 <= Len(s), s[Len(s)] = Sse!LF PROVE k \in Sse!LineEnds(text) /\ m < k
  <2>1. text[k] = Sse!LF /\ k \in 1..Len(text) /\ m < k
    BY <1>0, <1>1, <1>4
  <2> QED
    BY <1>0, <2>1 DEF Sse!LineEnds
<1>5. CASE Sse!IsSuffix(<<Sse!CR, Sse!CR>>, s)
  <2>1. 2 <= Len(s) /\ s[Len(s)] = Sse!CR
    <3>1. <<Sse!CR, Sse!CR>> # <<>> /\ Len(<<Sse!CR, Sse!CR>>) = 2 /\ <<Sse!CR, Sse!CR>>[2] = Sse!CR
      OBVIOUS
    <3>2. 2 <= Len(s) /\ s[Len(s)] = <<Sse!CR, Sse!CR>>[2]
      BY <1>1, <1>2, <1>5, <3>1, LastByte
    <3> QED
      BY <1>1, <3>1, <3>2
  <2>2. s[Len(s) - 1] = Sse!CR
    <3>1. /\ Len(<<Sse!CR, Sse!CR>>) = 2 /\ <<Sse!CR, Sse!CR>>[1] = Sse!CR
          /\ 1 \in 1..2 /\ Len(s) - 2 + 1 = Len(s) - 1
      BY <1>1
    <3> DEFINE e == <<Sse!CR, Sse!CR>>
    <3>2. e \in Seq(Bytes) /\ Sse!IsSuffix(e, s) /\ Len(e) = 2 /\ e[1] = Sse!CR
      BY <1>2, <1>5
    <3>3. s[Len(s) - 2 + 1] = Sse!CR
      <4> HIDE DEF e
      <4>1. s \in Seq(Bytes) /\ e \in Seq(Bytes) /\ Sse!IsSuffix(e, s)
        BY <1>1, <3>2
      <4>2. \A i \in 1..Len(e) : s[Len(s) - Len(e) + i] = e[i]
        BY <4>1, SuffixBytes
      <4> QED
        BY <3>1, <3>2, <4>2
    <3> QED
      BY <3>1, <3>3
  <2>3. text[k - 1] = Sse!CR /\ text[k] = Sse!CR /\ k - 1 \in 1..Len(text) /\ k \in 1..Len(text)
    <3>1. Len(text) \in Nat
      BY <1>0
    <3>2. k - m \in 1..k-m /\ k - m - 1 \in 1..k-m /\ m + (k - m) = k /\ m + (k - m - 1) = k - 1
      BY <1>1, <2>1
    <3>3. k - 1 \in 1..Len(text) /\ k \in 1..Len(text)
      BY <3>1, <3>2
    <3> QED
      BY <1>1, <2>1, <2>2, <3>2, <3>3
  <2>4. \A j \in 1..Len(text) : text[j] # Sse!LF
    BY <1>3, <2>3, BodyBytes
  <2>5. k = Len(text) \/ k + 1 \in 1..Len(text)
    <3>1. Len(text) \in Nat
      BY <1>0
    <3> QED
      BY <3>1
  <2>6. m < k
    BY <1>1, <2>1
  <2> QED
    BY <1>0, <2>3, <2>4, <2>5, <2>6 DEF Sse!LineEnds
<1>6. CASE Sse!IsSuffix(<<Sse!LF, Sse!LF>>, s)
  <2>1. <<Sse!LF, Sse!LF>> # <<>> /\ Len(<<Sse!LF, Sse!LF>>) = 2 /\ <<Sse!LF, Sse!LF>>[2] = Sse!LF
    OBVIOUS
  <2>2. 2 <= Len(s) /\ s[Len(s)] = Sse!LF
    BY <1>1, <1>2, <1>6, <2>1, LastByte
  <2> QED
    BY <1>1, <1>4, <2>2
<1>7. CASE Sse!IsSuffix(<<Sse!CR, Sse!LF, Sse!CR, Sse!LF>>, s)
  <2> DEFINE e == <<Sse!CR, Sse!LF, Sse!CR, Sse!LF>>
  <2>1. e # <<>> /\ Len(e) = 4 /\ e[4] = Sse!LF
    OBVIOUS
  <2>2. 4 <= Len(s) /\ s[Len(s)] = Sse!LF
    <3> HIDE DEF e
    <3> QED
      BY <1>1, <1>2, <1>7, <2>1, LastByte DEF e
  <2> QED
    BY <1>1, <1>4, <2>2
<1> QED
  BY <1>5, <1>6, <1>7 DEF Sse!EndsEvent, s

(* What has been read of the body, and where a line has ended. *)
After  == Sse!Decoding(Sse!Fresh, text)
Cut(m) == m = 0 \/ m \in Sse!LineEnds(text)

LEMMA CutsAreClean ==
  ASSUME text \in Sse!Bodies, NEW m \in 0..Len(text), Cut(m)
  PROVE  After[m] = [decoder |-> After[m].decoder, line |-> <<>>]
<1>1. Len(text) \in Nat
  BY BodyBytes
<1>2. After[0] = [decoder |-> Sse!Fresh, line |-> <<>>]
  BY <1>1, Reading DEF After
<1>3. \A i \in 1..Len(text) : After[i] = ReadByte(After[i - 1], text, i)
  BY <1>1, Reading DEF After
<1>4. CASE m = 0
  BY <1>2, <1>4
<1>5. CASE m # 0
  <2>1. After[m] = ReadByte(After[m - 1], text, m) /\ m \in Sse!LineEnds(text)
    BY <1>1, <1>3, <1>5 DEF Cut
  <2> QED
    BY <2>1 DEF ReadByte
<1> QED
  BY <1>4, <1>5

(* A part of the body that begins and ends with a line makes of the decoder *)
(* what the body makes of it there.                                         *)
LEMMA PartsAreDecodedAlike ==
  ASSUME text \in Sse!Bodies, NEW m \in 0..Len(text), NEW k \in m..Len(text), Cut(m), Cut(k)
  PROVE  Sse!DecodeChunk(After[m].decoder, SubSeq(text, m + 1, k)) = After[k].decoder
<1>0. text \in Seq(Bytes) /\ Len(text) \in Nat /\ DOMAIN text = 1..Len(text)
      /\ m \in Nat /\ k \in Nat /\ m <= k /\ k <= Len(text)
  BY BodyBytes
<1> DEFINE s == SubSeq(text, m + 1, k)
           part == Sse!Decoding(After[m].decoder, s)
           Bad == {i \in 0..k-m : part[i] # After[m + i]}
<1>1. Len(s) = k - m /\ k - m \in Nat /\ DOMAIN s = 1..k-m /\ \A i \in 1..k-m : s[i] = text[m + i]
  BY <1>0
<1>2. \A i \in 1..k-m : m + i \in 1..Len(text) /\ m + i - 1 = m + (i - 1)
  BY <1>0
<1>3. \A i \in 1..k-m : i \in Sse!LineEnds(s) <=> m + i \in Sse!LineEnds(text)
  <2> SUFFICES ASSUME NEW i \in 1..k-m PROVE i \in Sse!LineEnds(s) <=> m + i \in Sse!LineEnds(text)
    OBVIOUS
  <2>1. CASE i = k - m
    <3>1. i \in Sse!LineEnds(s)
      BY <1>1, <2>1 DEF Sse!LineEnds
    <3>2. m + i \in Sse!LineEnds(text)
      BY <2>1 DEF Cut
    <3> QED
      BY <3>1, <3>2
  <2>2. CASE i # k - m
    <3>1. i + 1 \in 1..k-m /\ m + (i + 1) = m + i + 1 /\ i # Len(s) /\ m + i # Len(text)
      <4>1. i \in Nat /\ 1 <= i /\ i < k - m
        BY <1>0, <2>2
      <4>2. i + 1 \in 1..k-m /\ m + (i + 1) = m + i + 1 /\ i < Len(s) /\ m + i < Len(text)
        BY <1>0, <1>1, <4>1
      <4>3. Len(s) \in Nat /\ Len(text) \in Nat
        BY <1>0, <1>1
      <4> HIDE DEF s
      <4> QED
        BY <4>1, <4>2, <4>3
    <3>2. s[i] = text[m + i] /\ s[i + 1] = text[m + (i + 1)]
      BY <1>1, <3>1, Zenon
    <3>3. i \in DOMAIN s /\ m + i \in DOMAIN text
      BY <1>0, <1>1, <1>2
    <3> HIDE DEF s
    <3> QED
      BY <3>1, <3>2, <3>3 DEF Sse!LineEnds
  <2> QED
    BY <2>1, <2>2
<1>4. part[0] = After[m]
  <2>1. part[0] = [decoder |-> After[m].decoder, line |-> <<>>]
    <3>1. Len(s) \in Nat
      BY <1>1
    <3> HIDE DEF s
    <3> QED
      BY <3>1, Reading
  <2> QED
    BY <2>1, CutsAreClean
<1>5. \A i \in 1..k-m : part[i] = ReadByte(part[i - 1], s, i)
  <2>1. Len(s) \in Nat /\ 1..Len(s) = 1..k-m
    BY <1>1
  <2>2. \A i \in 1..Len(s) : part[i] = ReadByte(part[i - 1], s, i)
    <3> HIDE DEF s
    <3> QED
      BY <2>1, Reading
  <2> HIDE DEF s, part
  <2> QED
    BY <2>1, <2>2
<1>6. \A i \in 1..k-m : After[m + i] = ReadByte(After[m + (i - 1)], text, m + i)
  <2>1. \A i \in 1..Len(text) : After[i] = ReadByte(After[i - 1], text, i)
    BY <1>0, Reading DEF After
  <2> QED
    BY <1>2, <2>1
<1> HIDE DEF s, part
<1>7. Bad = {}
  <2> SUFFICES ASSUME Bad # {} PROVE FALSE
    OBVIOUS
  <2>1. PICK i \in Bad : \A j \in Bad : i <= j
    <3>1. Bad \subseteq Nat
      BY <1>1
    <3> HIDE DEF Bad
    <3> QED
      BY <3>1, LeastOf
  <2>2. i \in 1..k-m /\ i - 1 \in 0..k-m
    BY <1>1, <1>4, <2>1
  <2>3. part[i - 1] = After[m + (i - 1)]
    BY <2>1, <2>2
  <2>4. ReadByte(part[i - 1], s, i) = ReadByte(After[m + (i - 1)], text, m + i)
    BY <1>1, <1>3, <2>2, <2>3 DEF ReadByte
  <2> QED
    BY <1>5, <1>6, <2>1, <2>2, <2>4
<1>8. part[k - m] = After[m + (k - m)] /\ m + (k - m) = k
  BY <1>0, <1>1, <1>7
<1> QED
  BY <1>1, <1>8 DEF Sse!DecodeChunk, part, s

TakeByte(so, s, i) ==
  LET collected == Append(so.data, s[i])
  IN  IF i \in Sse!LineEnds(s) /\ Sse!EndsEvent(collected)
      THEN [decoder |-> Sse!DecodeChunk(so.decoder, collected), data |-> <<>>]
      ELSE [decoder |-> so.decoder, data |-> collected]
Takes(f, st, s, n) == f = [i \in 0..n |-> IF i = 0 THEN st ELSE TakeByte(f[i - 1], s, i)]

LEMMA TakingExists ==
  ASSUME NEW st, NEW s, NEW k \in Nat
  PROVE  \E f : Takes(f, st, s, k)
<1> DEFINE Bad == {n \in Nat : ~\E f : Takes(f, st, s, n)}
<1> SUFFICES ASSUME Bad # {} PROVE FALSE
  OBVIOUS
<1>1. PICK n \in Bad : \A m \in Bad : n <= m
  <2>1. Bad \subseteq Nat
    OBVIOUS
  <2> HIDE DEF Bad
  <2> QED
    BY <2>1, LeastOf
<1>2. n # 0
  <2>1. Takes([i \in 0..0 |-> st], st, s, 0)
    BY DEF Takes
  <2> QED
    BY <1>1, <2>1
<1>3. n - 1 \in Nat /\ n - 1 \notin Bad
  BY <1>1, <1>2
<1>4. PICK f : Takes(f, st, s, n - 1)
  BY <1>3
<1> DEFINE g == [i \in 0..n |-> IF i = 0 THEN st ELSE TakeByte(f[i - 1], s, i)]
<1>5. \A i \in 0..n-1 : g[i] = f[i]
  BY <1>3, <1>4 DEF Takes
<1>6. g = [i \in 0..n |-> IF i = 0 THEN st ELSE TakeByte(g[i - 1], s, i)]
  <2>1. \A i \in 0..n : i # 0 => i - 1 \in 0..n-1
    BY <1>3
  <2>2. \A i \in 0..n : i # 0 => TakeByte(f[i - 1], s, i) = TakeByte(g[i - 1], s, i)
    BY <1>5, <2>1
  <2> QED
    BY <2>2
<1>7. Takes(g, st, s, n)
  BY <1>6 DEF Takes
<1> QED
  BY <1>1, <1>7

LEMMA Taking ==
  ASSUME NEW st, NEW s, Len(s) \in Nat
  PROVE  /\ Sse!Taking(st, s)[0] = st
         /\ \A i \in 1..Len(s) : Sse!Taking(st, s)[i] = TakeByte(Sse!Taking(st, s)[i - 1], s, i)
<1>1. Sse!Taking(st, s) = CHOOSE f : Takes(f, st, s, Len(s))
  BY DEF Sse!Taking, Takes, TakeByte
<1>2. Takes(Sse!Taking(st, s), st, s, Len(s))
  BY <1>1, TakingExists
<1> QED
  BY <1>2 DEF Takes

(* What has arrived was decoded up to the end of a line, and the rest is kept. *)
UpTo(n, st) ==
  \E m \in 0..n : Cut(m) /\ st.decoder = After[m].decoder /\ st.data = SubSeq(text, m + 1, n)

LEMMA OneMoreByte ==
  ASSUME text \in Sse!Bodies, NEW n \in Nat, n < Len(text), NEW st, UpTo(n, st),
         NEW s, NEW i, s[i] = text[n + 1]
  PROVE  UpTo(n + 1, TakeByte(st, s, i))
<1>1. PICK m \in 0..n : /\ Cut(m) /\ st.decoder = After[m].decoder
                        /\ st.data = SubSeq(text, m + 1, n)
  BY DEF UpTo
<1>2. text \in Seq(Bytes) /\ Len(text) \in Nat
  BY BodyBytes
<1> DEFINE collected == SubSeq(text, m + 1, n + 1)
<1>3. Append(st.data, s[i]) = collected
  BY <1>1, <1>2
<1>4. m \in Nat /\ m \in 0..n+1 /\ n + 1 \in 0..n+1 /\ n + 1 \in Nat /\ n + 1 <= Len(text)
  BY <1>2
<1> HIDE DEF collected
<1>5. CASE i \in Sse!LineEnds(s) /\ Sse!EndsEvent(collected)
  <2>1. TakeByte(st, s, i) = [decoder |-> Sse!DecodeChunk(st.decoder, collected), data |-> <<>>]
    BY <1>3, <1>5 DEF TakeByte
  <2>2. Cut(n + 1)
    <3>1. m <= n + 1
      BY <1>4
    <3> QED
      BY <1>4, <1>5, <3>1, EventsEndLines DEF Cut, collected
  <2>3. Sse!DecodeChunk(st.decoder, collected) = After[n + 1].decoder
    <3>1. m \in 0..Len(text) /\ n + 1 \in m..Len(text)
      BY <1>2, <1>4
    <3> QED
      BY <1>1, <2>2, <3>1, PartsAreDecodedAlike DEF collected
  <2>4. SubSeq(text, n + 1 + 1, n + 1) = <<>>
    BY <1>2
  <2> QED
    BY <1>4, <2>1, <2>2, <2>3, <2>4 DEF UpTo
<1>6. CASE ~(i \in Sse!LineEnds(s) /\ Sse!EndsEvent(collected))
  <2>1. TakeByte(st, s, i) = [decoder |-> st.decoder, data |-> collected]
    BY <1>3, <1>6 DEF TakeByte
  <2> QED
    BY <1>1, <1>4, <2>1 DEF UpTo, collected
<1> QED
  BY <1>5, <1>6

LEMMA PiecesAreTaken ==
  ASSUME text \in Sse!Bodies, NEW n \in 0..Len(text), NEW k \in 1..(Len(text) - n),
         NEW st, UpTo(n, st)
  PROVE  UpTo(n + k, Sse!TakePiece(st, SubSeq(text, n + 1, n + k)))
<1> DEFINE s == SubSeq(text, n + 1, n + k)
           taken == Sse!Taking(st, s)
           Bad == {i \in 0..k : ~UpTo(n + i, taken[i])}
<1>1. text \in Seq(Bytes) /\ Len(text) \in Nat
  BY BodyBytes
<1>2. n \in Nat /\ k \in Nat /\ 1 <= k /\ n + k <= Len(text)
  BY <1>1
<1>3. Len(s) = k /\ \A i \in 1..k : s[i] = text[n + i]
  BY <1>1, <1>2
<1>4. taken[0] = st /\ \A i \in 1..k : taken[i] = TakeByte(taken[i - 1], s, i)
  <2>1. Len(s) \in Nat /\ Len(s) = k
    BY <1>2, <1>3
  <2> HIDE DEF s
  <2>2. taken[0] = st /\ \A i \in 1..Len(s) : taken[i] = TakeByte(taken[i - 1], s, i)
    BY <2>1, Taking
  <2> QED
    BY <2>1, <2>2
<1> HIDE DEF s, taken
<1>5. Bad = {}
  <2> SUFFICES ASSUME Bad # {} PROVE FALSE
    OBVIOUS
  <2>1. PICK i \in Bad : \A j \in Bad : i <= j
    <3>1. Bad \subseteq Nat
      BY <1>2
    <3> HIDE DEF Bad
    <3> QED
      BY <3>1, LeastOf
  <2>2. i # 0
    <3>1. n + 0 = n
      BY <1>2
    <3> QED
      BY <1>4, <2>1, <3>1
  <2>3. i \in 1..k /\ i - 1 \in 0..k /\ i - 1 < i /\ n + (i - 1) \in Nat /\ n + (i - 1) < Len(text)
        /\ n + (i - 1) + 1 = n + i
    BY <1>1, <1>2, <2>1, <2>2
  <2>4. UpTo(n + (i - 1), taken[i - 1])
    <3>1. i - 1 \notin Bad
      BY <2>1, <2>3
    <3> QED
      BY <2>3, <3>1
  <2>5. s[i] = text[n + (i - 1) + 1]
    BY <1>3, <2>3
  <2>6. UpTo(n + (i - 1) + 1, TakeByte(taken[i - 1], s, i))
    BY <2>3, <2>4, <2>5, OneMoreByte
  <2> QED
    BY <1>4, <2>1, <2>3, <2>6
<1>6. UpTo(n + k, taken[k])
  BY <1>2, <1>5
<1> QED
  BY <1>3, <1>6 DEF Sse!TakePiece, taken, s

(***************************************************************************)
(* Until the body ends, what has arrived was decoded up to a line end, as  *)
(* the whole body is decoded, and nothing after it is lost.                *)
(***************************************************************************)
EventsInv ==
  /\ text \in Sse!Bodies /\ arrived \in 0..Len(text)
  /\ ~closed => UpTo(arrived, Sse!State)
  /\ closed => arrived = Len(text) /\ decoder = After[Len(text)].decoder

LEMMA EventsInitially == Sse!SseInit => EventsInv
<1> SUFFICES ASSUME Sse!SseInit PROVE EventsInv
  OBVIOUS
<1>1. text \in Seq(Bytes) /\ Len(text) \in Nat /\ text \in Sse!Bodies
  BY BodyBytes DEF Sse!SseInit
<1>2. After[0].decoder = Sse!Fresh
  <2>1. After[0] = [decoder |-> Sse!Fresh, line |-> <<>>]
    BY <1>1, Reading DEF After
  <2> QED
    BY <2>1
<1>3. SubSeq(text, 0 + 1, 0) = <<>>
  BY <1>1
<1>4. Sse!State = [decoder |-> Sse!Fresh, data |-> <<>>]
  BY DEF Sse!State, Sse!SseInit
<1>5. 0 \in 0..0 /\ arrived = 0 /\ closed = FALSE
  BY DEF Sse!SseInit
<1>6. UpTo(arrived, Sse!State)
  BY <1>2, <1>3, <1>4, <1>5 DEF UpTo, Cut
<1> QED
  BY <1>1, <1>5, <1>6 DEF EventsInv

LEMMA EventsStep == EventsInv /\ [Sse!SseNext]_sseVars => EventsInv'
<1> SUFFICES ASSUME EventsInv, [Sse!SseNext]_sseVars PROVE EventsInv'
  OBVIOUS
<1>1. text \in Sse!Bodies /\ text \in Seq(Bytes) /\ Len(text) \in Nat /\ arrived \in 0..Len(text)
  BY BodyBytes DEF EventsInv
<1>2. ASSUME text' = text, UpTo(arrived', Sse!State') PROVE UpTo(arrived, Sse!State)'
  <2>1. PICK m \in 0..arrived' : /\ Cut(m) /\ Sse!State'.decoder = After[m].decoder
                                 /\ Sse!State'.data = SubSeq(text, m + 1, arrived')
    BY <1>2 DEF UpTo
  <2>2. Cut(m)' <=> Cut(m)
    BY <1>2 DEF Cut, Sse!LineEnds
  <2>3. After'[m] = After[m]
    BY <1>2 DEF After, Sse!Decoding
  <2> QED
    BY <1>2, <2>1, <2>2, <2>3 DEF UpTo
<1>3. text' = text => After' = After
  BY DEF After, Sse!Decoding
<1>4. CASE Sse!PieceArrives
  <2>1. /\ text' = text /\ closed' = closed /\ ~closed
        /\ \E n \in 1..(Len(text) - arrived) :
             /\ arrived' = arrived + n
             /\ Sse!Becomes(Sse!TakePiece(Sse!State, SubSeq(text, arrived + 1, arrived + n)))
    BY <1>1, <1>4 DEF Sse!PieceArrives, EventsInv
  <2>2. PICK n \in 1..(Len(text) - arrived) :
             /\ arrived' = arrived + n
             /\ Sse!Becomes(Sse!TakePiece(Sse!State, SubSeq(text, arrived + 1, arrived + n)))
    BY <2>1
  <2> DEFINE st == Sse!TakePiece(Sse!State, SubSeq(text, arrived + 1, arrived + n))
  <2>3. UpTo(arrived', st)
    BY <1>1, <2>1, <2>2, PiecesAreTaken DEF EventsInv
  <2>4. Sse!State'.decoder = st.decoder /\ Sse!State'.data = st.data
    BY <2>2 DEF Sse!State, Sse!Becomes
  <2>5. UpTo(arrived', Sse!State')
    BY <2>3, <2>4 DEF UpTo
  <2>6. arrived' \in 0..Len(text)
    BY <1>1, <2>2
  <2> QED
    BY <1>1, <1>2, <2>1, <2>5, <2>6 DEF EventsInv
<1>5. CASE Sse!BodyEnds
  <2>1. /\ text' = text /\ arrived' = arrived /\ arrived = Len(text) /\ closed' = TRUE /\ ~closed
        /\ Sse!Becomes(Sse!TakeEnd(Sse!State))
    BY <1>5 DEF Sse!BodyEnds
  <2>2. PICK m \in 0..arrived : /\ Cut(m) /\ decoder = After[m].decoder
                                /\ data = SubSeq(text, m + 1, arrived)
    BY <2>1 DEF EventsInv, UpTo, Sse!State
  <2>3. decoder' = After[Len(text)].decoder
    <3>1. CASE data = <<>>
      <4>1. Len(SubSeq(text, m + 1, arrived)) = arrived - m
        BY <1>1
      <4>2. Len(data) = 0 /\ data = SubSeq(text, m + 1, arrived)
        BY <2>2, <3>1
      <4>3. m = Len(text)
        BY <1>1, <2>1, <4>1, <4>2
      <4> QED
        BY <2>1, <2>2, <3>1, <4>3 DEF Sse!TakeEnd, Sse!Becomes, Sse!State
    <3>2. CASE data # <<>>
      <4>1. Len(text) # 0
        BY <1>1, <2>1, <2>2, <3>2
      <4>2. Cut(Len(text))
        BY <1>1, <4>1, BodyBytes DEF Cut, Sse!LineEnds
      <4>3. m \in 0..Len(text) /\ Len(text) \in m..Len(text)
        BY <1>1, <2>1
      <4>4. Sse!DecodeChunk(After[m].decoder, SubSeq(text, m + 1, Len(text))) = After[Len(text)].decoder
        BY <1>1, <2>2, <4>2, <4>3, PartsAreDecodedAlike
      <4> QED
        BY <2>1, <2>2, <3>2, <4>4 DEF Sse!TakeEnd, Sse!Becomes, Sse!State
    <3> QED
      BY <3>1, <3>2
  <2> QED
    BY <1>1, <1>3, <2>1, <2>3 DEF EventsInv
<1>6. CASE UNCHANGED sseVars
  <2>1. /\ text' = text /\ arrived' = arrived /\ closed' = closed /\ decoder' = decoder
        /\ Sse!State' = Sse!State
    BY <1>6 DEF sseVars, Sse!State
  <2> QED
    BY <1>2, <1>3, <2>1 DEF EventsInv
<1> QED
  BY <1>4, <1>5, <1>6 DEF Sse!SseNext

LEMMA StepOfEvents == [Next]_vars => [Sse!SseNext]_sseVars
  BY DEF Next, Only, vars

LEMMA EventsAreDecoded == EventsInv => Sse!PiecesDoNotMatter
  BY DEF EventsInv, Sse!PiecesDoNotMatter, Sse!DecodeChunk, After

(***************************************************************************)
(* No response keeps its connection beyond the scope of its consumer, what *)
(* it was parsed into was made from its whole body, and the events that a  *)
(* stream hands out are those of the body read at once, wherever it was    *)
(* cut into pieces and however long it is (_response.py, _streaming.py).   *)
(***************************************************************************)
THEOREM ResponsesGiveBack == Spec => []ResponsesAreWhole
<1>1. Init => ResponsesInv /\ EventsInv
  BY ResponsesInitially, EventsInitially DEF Init
<1>2. ResponsesInv /\ EventsInv /\ [Next]_vars => ResponsesInv' /\ EventsInv'
  BY ResponsesStep, StepOfResponses, EventsStep, StepOfEvents
<1>3. ResponsesInv => Response!ConnectionGivenBack /\ Response!ParsedFromWholeBody
  BY DEF ResponsesInv, Response!ConnectionGivenBack, Response!ParsedFromWholeBody, Response!Streams
<1>4. ResponsesInv /\ EventsInv => ResponsesAreWhole
  BY <1>3, EventsAreDecoded DEF ResponsesAreWhole
<1> QED
  BY <1>1, <1>2, <1>4, PTL DEF Spec
===============================================================================

------------------------------ MODULE CustomLoss ------------------------------
(***************************************************************************)
(* forward_backward_custom and its second version (public_interfaces/      *)
(* training_client.py): a forward pass, the loss function of the user on   *)
(* its result, and a backward pass with the gradients, on a server that    *)
(* takes the requests in the order of their ids (TrainingTurns).  A flow   *)
(* is a thread that uses the synchronous methods or a task that awaits the *)
(* asynchronous ones; it makes its calls one after the other, optimizer    *)
(* steps among them, for which it does not wait.  A pass is one request.   *)
(***************************************************************************)
EXTENDS Naturals, Sequences, FiniteSets

CONSTANTS Flows, MaxCustom, MaxSteps     \* flows, and bounds on the calls of each kind

VARIABLES asked,       \* what the call of each flow is given
          lossAt,      \* the next step of it
          begun,       \* custom calls that each flow has made
          issued,      \* the requests, in the order of their ids
          dispatched,  \* how many of them the server has seen
          blocked      \* a loss function on the holder's loop waits for that loop
lossVars == <<asked, lossAt, begun, issued, dispatched, blocked>>

\* options: a loss type, inputs and a layout that are supported
Asks == [version : {"v1", "v2"}, sync : BOOLEAN, options : {TRUE}, data : {"good", "malformed", "empty"}]
   \cup [version : {"v1", "v2"}, sync : BOOLEAN, options : {FALSE}, data : {"good"}]
Nothing == [version |-> "none", sync |-> FALSE, options |-> FALSE, data |-> "empty"]

LossInit == /\ asked = [f \in Flows |-> Nothing] /\ lossAt = [f \in Flows |-> "free"]
            /\ begun = [f \in Flows |-> 0] /\ issued = <<>> /\ dispatched = 0 /\ blocked = FALSE

Goes(f, next) == lossAt' = [lossAt EXCEPT ![f] = next] /\ UNCHANGED asked
\* the flow gets its future, or an error
GoesFree(f) == lossAt' = [lossAt EXCEPT ![f] = "free"] /\ asked' = [asked EXCEPT ![f] = Nothing]

Issue(f, kind) == issued' = Append(issued, [flow |-> f, kind |-> kind, call |-> begun[f], ok |-> TRUE])

\* A change of the code: the call gives its future back when the forward pass is on its way.
WaitsForForward(f) == lossAt[f] \in {"check", "forward"}

\* the synchronous method waits for its coroutine, the asynchronous one is awaited
Waits(f) == lossAt[f] # "free"

(* Calling. *)
Begin(f) == /\ lossAt[f] = "free" /\ begun[f] < MaxCustom
            /\ \E a \in Asks : asked' = [asked EXCEPT ![f] = a]
            /\ lossAt' = [lossAt EXCEPT ![f] = "check"]
            /\ begun' = [begun EXCEPT ![f] = @ + 1]
            /\ UNCHANGED <<issued, dispatched, blocked>>

OptimStep(f) == /\ ~Waits(f)
                /\ Cardinality({i \in DOMAIN issued : issued[i].kind = "optim"}) < MaxSteps
                /\ Issue(f, "optim")
                /\ UNCHANGED <<asked, lossAt, begun, dispatched, blocked>>

(* Before the first request.  The second version returns at once when there is no data. *)
Refused(a) == ~a.options \/ a.data = "malformed"

ForwardPass(f) ==
  /\ lossAt[f] = "check" /\ ~blocked
  /\ \/ GoesFree(f) /\ UNCHANGED issued                     \* not supported, or no PyTorch
     \/ Refused(asked[f]) /\ GoesFree(f) /\ UNCHANGED issued
     \/ /\ asked[f].data = "empty" /\ UNCHANGED issued
        /\ IF asked[f].version = "v2" THEN GoesFree(f) ELSE Goes(f, "loss")
     \/ /\ ~Refused(asked[f]) /\ asked[f].data = "good"
        /\ Issue(f, "forward") /\ Goes(f, "forward")
  /\ UNCHANGED <<begun, dispatched, blocked>>

\* A change of the code: nobody hears of a request that fails for good.
DispatchSilently ==
  /\ dispatched < Len(issued) /\ ~blocked
  /\ dispatched' = dispatched + 1
  /\ LET r == issued[dispatched + 1]
     IN  \/ /\ CASE r.kind = "forward"  -> Goes(r.flow, "result")
                 [] r.kind = "backward" -> GoesFree(r.flow)
                 [] r.kind = "optim"    -> UNCHANGED <<asked, lossAt>>
            /\ UNCHANGED issued
         \/ /\ issued' = [issued EXCEPT ![dispatched + 1].ok = FALSE]
            /\ UNCHANGED <<asked, lossAt>>
  /\ UNCHANGED <<begun, blocked>>

(* The server and the holder's loop, one request at a time. *)
Dispatch ==
  /\ dispatched < Len(issued) /\ ~blocked
  /\ dispatched' = dispatched + 1
  /\ LET r == issued[dispatched + 1]
     IN  \/ /\ CASE r.kind = "forward"  -> Goes(r.flow, "result")
                 [] r.kind = "backward" -> GoesFree(r.flow)
                 [] r.kind = "optim"    -> UNCHANGED <<asked, lossAt>>
            /\ UNCHANGED issued
         \/ /\ issued' = [issued EXCEPT ![dispatched + 1].ok = FALSE]
            /\ IF r.kind = "optim" THEN UNCHANGED <<asked, lossAt>> ELSE GoesFree(r.flow)
  /\ UNCHANGED <<begun, blocked>>

ForwardResult(f) == /\ lossAt[f] = "result" /\ ~blocked
                    /\ Goes(f, "loss") \/ GoesFree(f)
                    /\ UNCHANGED <<begun, issued, dispatched, blocked>>

(* The loss function.  Its gradients are those of autograd, or its own in  *)
(* the second version; there may be none, or they may not fit the data.    *)
ApplyLoss(f) ==
  /\ lossAt[f] = "loss" /\ ~blocked
  /\ \/ Goes(f, "gradients") /\ UNCHANGED blocked
     \/ GoesFree(f) /\ UNCHANGED blocked                      \* it raises, or returns something else
     \/ /\ asked[f].sync                                  \* it calls a synchronous method
        /\ blocked' = TRUE /\ UNCHANGED <<asked, lossAt>>
  /\ UNCHANGED <<begun, issued, dispatched>>

ExtractGradients(f) == /\ lossAt[f] = "gradients" /\ ~blocked
                       /\ Goes(f, "backward") \/ GoesFree(f)
                       /\ UNCHANGED <<begun, issued, dispatched, blocked>>

BackwardPass(f) == /\ lossAt[f] = "backward" /\ ~blocked
                   /\ IF asked[f].data = "empty" THEN GoesFree(f) /\ UNCHANGED issued
                      ELSE Issue(f, "backward") /\ Goes(f, "dispatch")
                   /\ UNCHANGED <<begun, dispatched, blocked>>

LossStep(f) == ForwardPass(f) \/ ForwardResult(f) \/ ApplyLoss(f) \/ ExtractGradients(f) \/ BackwardPass(f)
LossNext == Dispatch \/ \E f \in Flows : Begin(f) \/ OptimStep(f) \/ LossStep(f)
LossSpec == LossInit /\ [][LossNext]_lossVars /\ WF_lossVars(Dispatch)
            /\ \A f \in Flows : WF_lossVars(LossStep(f))

\* A backward pass follows the forward pass of its call, which the server has
\* executed, and no optimizer step of its own flow lies between the two: the
\* gradients of a flow belong to the weights that it knows of, although it does
\* not wait for its optimizer steps (forward_backward_custom).
GradientsAreCurrent ==
  \A j \in 1..Len(issued) : issued[j].kind = "backward" =>
    \E i \in 1..j-1 :
      /\ issued[i].kind = "forward" /\ issued[i].flow = issued[j].flow
      /\ issued[i].call = issued[j].call /\ issued[i].ok /\ i <= dispatched
      /\ \A k \in i+1..j-1 : issued[k].kind = "optim" => issued[k].flow # issued[j].flow

\* Every call ends, unless a loss function called a synchronous method on the loop.
CallsEndOrBlock == blocked \/ \A f \in Flows : lossAt[f] = "free"
=============================================================================

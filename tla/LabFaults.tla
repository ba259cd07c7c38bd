------------------------------- MODULE LabFaults -------------------------------
(***************************************************************************)
(* The faults of the Incident Lab: the controller in each of its two       *)
(* services, with its lock and the goroutines that burn CPU, and the       *)
(* scenario that injects one fault over HTTP, holds it and clears up, run  *)
(* as a script (scenario.Run) or held open by a driver (scenario.Driver).  *)
(*                                                                         *)
(* Scenarios follow one another.  A call the scenario stops waiting for    *)
(* may still be in a service's hands; "overtaken" remembers that a later   *)
(* call was carried out before such a one.                                 *)
(*                                                                         *)
(* "failures" counts interrupts, kills, failed calls and phases and lost   *)
(* services.                                                               *)
(***************************************************************************)
EXTENDS Naturals, Sequences

CONSTANTS Workers,      \* the goroutines a cpu fault asks for
          MaxScenarios, \* bound on the scenarios started
          MaxFailures   \* bound on failures

ASSUME LabAssumption ==
  /\ Workers \in Nat \ {0}
  /\ MaxScenarios \in Nat
  /\ MaxFailures \in Nat

VARIABLES
  fault,     \* by service: what GET /fault tells
  spinning,  \* by service: goroutines under the cancel function it holds
  ending,    \* by service: goroutines cancelled that have not returned
  lock,      \* by service: the number of the call in its locked section, or 0
  calls,     \* the calls the services have not carried out
  overtaken, \* history: a call was carried out before an abandoned one
  at,        \* the scenario's position; in a clearing, with the target's
  script,    \* whether it is a script's, or a driver's
  plan,      \* the call that injects its fault
  reply,     \* what it knows of the call it is making
  stopping,  \* whether its context has been cancelled
  cleared,   \* whether its last clearing of the faults succeeded
  issued,    \* calls sent
  started,   \* scenarios started
  failures

controllers == <<fault, spinning, ending, lock>>
network     == <<calls, overtaken>>
scenario    == <<at, script, plan, reply, stopping, cleared, issued, started>>
faultsVars  == <<controllers, network, scenario, failures>>

Targets  == <<"checkout-service", "payment-service">>
Services == {Targets[1], Targets[2]}
Healthy  == [latency |-> FALSE, error |-> FALSE, cpu |-> 0]
NoFault  == [service |-> "none", op |-> "none"]

(* What a scenario posts; "invalid" stands for settings that are refused.  *)
Plans == {NoFault} \cup
         [service : Services, op : {"latency", "error", "cpu", "invalid"}]

FaultsInit ==
  /\ fault = [s \in Services |-> Healthy]
  /\ spinning = [s \in Services |-> 0]
  /\ ending = [s \in Services |-> 0]
  /\ lock = [s \in Services |-> 0]
  /\ calls = {} /\ overtaken = FALSE
  /\ at = <<"idle", 1>> /\ script = TRUE /\ plan = NoFault
  /\ reply = "none" /\ stopping = FALSE /\ cleared = FALSE
  /\ issued = 0 /\ started = 0 /\ failures = 0

Failure == /\ failures < MaxFailures
           /\ failures' = failures + 1

-----------------------------------------------------------------------------
(* The controller of a service                                             *)

(* Under the lock the goroutines that spin are cancelled and waited for.   *)
Lock(c) ==
  /\ c.op \in {"cpu", "clear"}
  /\ lock[c.service] = 0
  /\ lock' = [lock EXCEPT ![c.service] = c.id]
  /\ spinning' = [spinning EXCEPT ![c.service] = 0]
  /\ ending' = [ending EXCEPT ![c.service] = spinning[c.service]]
  /\ UNCHANGED <<fault, network, scenario, failures>>

(* A mistaken goroutine that takes the lock its canceller waits under.     *)
BurnReturnsLocked(s) ==
  /\ ending[s] > 0
  /\ lock[s] = 0
  /\ ending' = [ending EXCEPT ![s] = ending[s] - 1]
  /\ UNCHANGED <<fault, spinning, lock, network, scenario, failures>>

BurnReturns(s) ==
  /\ ending[s] > 0
  /\ ending' = [ending EXCEPT ![s] = ending[s] - 1]
  /\ UNCHANGED <<fault, spinning, lock, network, scenario, failures>>

Entered(c) ==
  IF c.op \in {"cpu", "clear"} THEN lock[c.service] = c.id /\ ending[c.service] = 0
                               ELSE lock[c.service] = 0

(* A mistaken clearing that forgets the goroutines it has stopped.         *)
FaultAfterKeepingCPU(f, op) ==
  CASE op = "latency" -> [f EXCEPT !.latency = TRUE]
    [] op = "error"   -> [f EXCEPT !.error = TRUE]
    [] op = "cpu"     -> [f EXCEPT !.cpu = Workers]
    [] op = "clear"   -> [Healthy EXCEPT !.cpu = f.cpu]
    [] OTHER          -> f

(* A mistaken clearing that leaves the error fault on.                     *)
FaultAfterKeepingError(f, op) ==
  CASE op = "latency" -> [f EXCEPT !.latency = TRUE]
    [] op = "error"   -> [f EXCEPT !.error = TRUE]
    [] op = "cpu"     -> [f EXCEPT !.cpu = Workers]
    [] op = "clear"   -> [Healthy EXCEPT !.error = f.error]
    [] OTHER          -> f

FaultAfter(f, op) ==
  CASE op = "latency" -> [f EXCEPT !.latency = TRUE]
    [] op = "error"   -> [f EXCEPT !.error = TRUE]
    [] op = "cpu"     -> [f EXCEPT !.cpu = Workers]
    [] op = "clear"   -> Healthy
    [] OTHER          -> f

Outcome(c) == IF c.op = "invalid" THEN "refused" ELSE "ok"

(* The setting is made, the lock left and the call answered.               *)
CarryOut(c) ==
  /\ Entered(c)
  /\ fault' = [fault EXCEPT ![c.service] = FaultAfter(fault[c.service], c.op)]
  /\ spinning' = [spinning EXCEPT ![c.service] =
                    IF c.op = "cpu" THEN spinning[c.service] + Workers
                                    ELSE spinning[c.service]]
  /\ lock' = [lock EXCEPT ![c.service] = 0]
  /\ calls' = calls \ {c}
  /\ overtaken' = (overtaken \/ \E e \in calls : e.service = c.service /\ e.id < c.id)
  /\ reply' = IF c.id = issued /\ reply = "pending" THEN Outcome(c) ELSE reply
  /\ UNCHANGED <<ending, at, script, plan, stopping, cleared, issued, started, failures>>

(* A restarted service is a silently healthy one; what it was handling, or *)
(* waiting to, is lost.                                                    *)
Restart(s) ==
  /\ Failure
  /\ fault' = [fault EXCEPT ![s] = Healthy]
  /\ spinning' = [spinning EXCEPT ![s] = 0]
  /\ ending' = [ending EXCEPT ![s] = 0]
  /\ lock' = [lock EXCEPT ![s] = 0]
  /\ calls' = {c \in calls : c.service # s}
  /\ reply' = IF reply = "pending" /\ \E c \in calls : c.service = s /\ c.id = issued
              THEN "error" ELSE reply
  /\ UNCHANGED <<overtaken, at, script, plan, stopping, cleared, issued, started>>

-----------------------------------------------------------------------------
(* The scenario                                                            *)

Clearing  == {"clear", "reclear", "cleanup"}
Measuring == {"baseline", "hold", "recovery"}

Goto(phase) == at' = <<phase, 1>>

Begin ==
  /\ at[1] = "idle"
  /\ started < MaxScenarios
  /\ started' = started + 1
  /\ Goto("health")
  /\ script' \in BOOLEAN
  /\ plan' \in Plans
  /\ reply' = "none" /\ stopping' = FALSE /\ cleared' = FALSE
  /\ UNCHANGED <<controllers, network, issued, failures>>

(* What is left to do when a call or a phase fails.  The script's deferred *)
(* cleanup is not there yet while it makes sure of its starting point; a   *)
(* driver is always stopped.                                               *)
OnError ==
  IF at[1] = "cleanup" \/ (script /\ at[1] \in {"health", "clear"})
  THEN "idle" ELSE "cleanup"

Still == UNCHANGED <<script, plan, reply, stopping, cleared, issued, started>>

(* A mistaken start that measures whatever the last scenario left.         *)
LabHealthyUncleared ==
  /\ at[1] = "health" /\ ~stopping
  /\ Goto(IF script THEN "baseline" ELSE IF plan = NoFault THEN "hold" ELSE "inject")
  /\ Still /\ UNCHANGED <<controllers, network, failures>>

LabHealthy ==
  /\ at[1] = "health" /\ ~stopping
  /\ Goto("clear")
  /\ Still /\ UNCHANGED <<controllers, network, failures>>

LabUnhealthy ==
  /\ at[1] = "health"
  /\ (stopping /\ UNCHANGED failures) \/ Failure
  /\ Goto(OnError)
  /\ Still /\ UNCHANGED <<controllers, network>>

(* The call the scenario makes where it is.                                *)
Due == IF at[1] = "inject" THEN plan
       ELSE [service |-> Targets[at[2]], op |-> "clear"]

(* The clean-up's context is one a cancellation does not reach.            *)
Cancelled == stopping /\ at[1] # "cleanup"

Send ==
  /\ at[1] \in Clearing \cup {"inject"}
  /\ reply = "none" /\ ~Cancelled
  /\ calls' = calls \cup {[id |-> issued + 1, service |-> Due.service, op |-> Due.op]}
  /\ issued' = issued + 1
  /\ reply' = "pending"
  /\ UNCHANGED <<controllers, overtaken, at, script, plan, stopping, cleared,
                 started, failures>>

(* The call is cancelled, or times out, or its connection fails: it never  *)
(* reached the service, or the service has it all the same.                *)
RequestFails ==
  /\ at[1] \in Clearing \cup {"inject"}
  /\ reply \in {"none", "pending"}
  /\ (Cancelled /\ UNCHANGED failures) \/ Failure
  /\ reply' = "error"
  /\ \/ UNCHANGED calls
     \/ /\ reply = "pending"
        /\ \A s \in Services : lock[s] # issued
        /\ calls' = {c \in calls : c.id # issued}
  /\ UNCHANGED <<controllers, overtaken, at, script, plan, stopping, cleared,
                 issued, started>>

AfterClearing ==
  CASE at[1] = "clear"   -> IF script THEN "baseline"
                            ELSE IF plan = NoFault THEN "hold" ELSE "inject"
    [] at[1] = "reclear" -> "recovery"
    [] at[1] = "cleanup" -> "idle"

(* clearFaults stops at the first service it cannot clear.                 *)
CallReturns ==
  /\ reply \in {"ok", "refused", "error"}
  /\ reply' = "none"
  /\ IF reply # "ok" THEN Goto(OnError)
     ELSE IF at[1] = "inject" THEN Goto("hold")
     ELSE IF at[2] < Len(Targets) THEN at' = <<at[1], at[2] + 1>>
     ELSE Goto(AfterClearing)
  /\ cleared' = (at = <<"cleanup", Len(Targets)>> /\ reply = "ok")
  /\ UNCHANGED <<controllers, network, script, plan, stopping, issued, started, failures>>

NextPhase ==
  CASE stopping \/ ~script -> "cleanup"
    [] at[1] = "baseline"  -> IF plan = NoFault THEN "hold" ELSE "inject"
    [] at[1] = "hold"      -> IF plan = NoFault THEN "recovery" ELSE "reclear"
    [] OTHER               -> "cleanup"

PhaseEnds ==
  /\ at[1] \in Measuring
  /\ Goto(NextPhase)
  /\ Still /\ UNCHANGED <<controllers, network, failures>>

(* A snapshot of the metrics cannot be taken.                              *)
PhaseFails ==
  /\ at[1] \in Measuring
  /\ Failure
  /\ Goto("cleanup")
  /\ Still /\ UNCHANGED <<controllers, network>>

Interrupt ==
  /\ at[1] # "idle" /\ ~stopping
  /\ Failure
  /\ stopping' = TRUE
  /\ UNCHANGED <<controllers, network, at, script, plan, reply, cleared, issued, started>>

(* Nothing deferred runs.                                                  *)
Kill ==
  /\ at[1] # "idle"
  /\ Failure
  /\ Goto("idle")
  /\ reply' = "none" /\ cleared' = FALSE
  /\ UNCHANGED <<controllers, network, script, plan, stopping, issued, started>>

-----------------------------------------------------------------------------
Serves ==
  \/ \E c \in calls : Lock(c) \/ CarryOut(c)
  \/ \E s \in Services : BurnReturns(s)

Proceeds ==
  \/ LabHealthy \/ LabUnhealthy
  \/ Send \/ CallReturns
  \/ PhaseEnds

FaultsNext ==
  \/ Serves
  \/ Proceeds
  \/ \E s \in Services : Restart(s)
  \/ Begin \/ RequestFails \/ PhaseFails \/ Interrupt \/ Kill

FaultsSpec == FaultsInit /\ [][FaultsNext]_faultsVars

(* Handlers and goroutines run on, a phase ends at its duration, and a     *)
(* call whose context is cancelled returns.                                *)
FaultsFairness ==
  /\ WF_faultsVars(Serves)
  /\ WF_faultsVars(Proceeds)
  /\ WF_faultsVars(Cancelled /\ RequestFails)

FairFaultsSpec == FaultsSpec /\ FaultsFairness

-----------------------------------------------------------------------------
(* Outside its lock a controller has exactly the goroutines it tells of,   *)
(* and no time has it more than one set of them: none is left spinning     *)
(* that no cancel function reaches.                                        *)
SpinningOwned ==
  \A s \in Services :
    /\ spinning[s] + ending[s] <= Workers
    /\ lock[s] = 0 => spinning[s] = fault[s].cpu /\ ending[s] = 0

Enabled(s) == (IF fault[s].latency THEN {"latency"} ELSE {}) \cup
              (IF fault[s].error THEN {"error"} ELSE {}) \cup
              (IF fault[s].cpu > 0 THEN {"cpu"} ELSE {})

(* A phase measures its own incident: whatever was killed, interrupted or  *)
(* lost before, no fault is on but the scenario's, and only in its hold.   *)
OwnIncident ==
  at[1] \in Measuring /\ ~overtaken =>
    \A s \in Services : \A k \in Enabled(s) :
      at[1] = "hold" /\ plan = [service |-> s, op |-> k]

(* A clean-up that reported no failure has left the lab healthy, after an  *)
(* interrupt and after a call that was given up on too.                    *)
LeftHealthy ==
  at[1] = "idle" /\ cleared /\ ~overtaken => \A s \in Services : Enabled(s) = {}

(* Every scenario comes to its end: in particular a controller that waits  *)
(* for its goroutines under its lock is not waited for by them.            *)
ScenarioEnds == at[1] # "idle" ~> at[1] = "idle"
=============================================================================

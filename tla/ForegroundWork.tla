---------------------------- MODULE ForegroundWork ----------------------------
(***************************************************************************)
(* The foreground service that keeps the process alive while it works      *)
(* (core/ForegroundWork.kt, core/InferenceService.kt).  Callers on several *)
(* threads bracket their work with begin() and end(); an AtomicInteger     *)
(* counts them.  Only its own operations are atomic, so each of begin() and*)
(* end() is cut between the counter and the call to the system.  update()  *)
(* changes the notification's text only and is left out.                   *)
(***************************************************************************)
EXTENDS Integers, FiniteSets

CONSTANT Callers      \* pieces of work that may run at the same time

ASSUME CallersAssumption == IsFiniteSet(Callers)

VARIABLES
  active,   \* the AtomicInteger
  service,  \* InferenceService is started and in the foreground
  at,       \* where each caller is
  bare      \* history variable: since all callers were last out, the service was refused
            \* or removed by the system, or a begin() came inside another caller's end()

work == <<active, service, at, bare>>

\* starting: counted, the service not asked for yet; reset, stop: inside end().
Places == {"out", "starting", "working", "reset", "stop"}
Out == \A c \in Callers : at[c] = "out"
Holding == {c \in Callers : at[c] \in {"starting", "working"}}

TypeOKWork ==
  /\ active \in Int /\ service \in BOOLEAN /\ bare \in BOOLEAN
  /\ at \in [Callers -> Places]

InitWork == active = 0 /\ service = FALSE /\ at = [c \in Callers |-> "out"] /\ bare = FALSE

Go(c, from, to) == at[c] = from /\ at' = [at EXCEPT ![c] = to]

\* With the last caller out, what happened to the service is over.
BareUnless(out, cause) == bare' = (~out /\ (bare \/ cause))

BeginCount(c) ==
  /\ Go(c, "out", "starting") /\ active' = active + 1
  /\ BareUnless(FALSE, \E d \in Callers : at[d] = "reset")
  /\ UNCHANGED service

\* startForegroundService(): refused to an app in the background, which
\* runCatching swallows.
BeginStart(c) ==
  /\ Go(c, "starting", "working")
  /\ \E accepted \in BOOLEAN :
       /\ service' = (service \/ accepted)
       /\ BareUnless(FALSE, ~service' \/ \E d \in Callers : at[d] \in {"reset", "stop"})
  /\ UNCHANGED active

\* Mutation: the last caller is told apart by zero only.
EndCountZero(c) ==
  /\ active' = active - 1
  /\ Go(c, "working", IF active' = 0 THEN "reset" ELSE "out")
  /\ BareUnless(\A d \in Callers : at'[d] = "out", FALSE)
  /\ UNCHANGED service

\* Mutation: the second last caller stops the service too.
EndCountEarly(c) ==
  /\ active' = active - 1
  /\ Go(c, "working", IF active' <= 1 THEN "reset" ELSE "out")
  /\ BareUnless(\A d \in Callers : at'[d] = "out", FALSE)
  /\ UNCHANGED service

EndCount(c) ==
  /\ active' = active - 1
  /\ Go(c, "working", IF active' <= 0 THEN "reset" ELSE "out")
  /\ BareUnless(\A d \in Callers : at'[d] = "out", FALSE)
  /\ UNCHANGED service

EndReset(c) ==
  /\ Go(c, "reset", "stop") /\ active' = 0
  /\ UNCHANGED <<service, bare>>

EndStop(c) ==
  /\ Go(c, "stop", "out") /\ service' = FALSE
  /\ BareUnless(\A d \in Callers : at'[d] = "out", FALSE)
  /\ UNCHANGED active

\* onTaskRemoved() ends the service itself, whatever the count.
TaskRemoved ==
  /\ service /\ service' = FALSE
  /\ BareUnless(Out, TRUE)
  /\ UNCHANGED <<active, at>>

Killed ==
  /\ active' = 0 /\ service' = FALSE /\ bare' = FALSE
  /\ at' = [c \in Callers |-> "out"]

NextWork ==
  \/ \E c \in Callers : \/ BeginCount(c) \/ BeginStart(c)
                        \/ EndCount(c) \/ EndReset(c) \/ EndStop(c)
  \/ TaskRemoved \/ Killed

SpecWork == InitWork /\ [][NextWork]_work

(***************************************************************************)
(* Properties.                                                             *)
(***************************************************************************)
\* The service "stops when [the count] reaches 0" (ForegroundWork.kt, line 20):
\* once all work has ended no service is left behind and the count is zero again,
\* whatever the races between begin() and end() did to it meanwhile.
StopsAtRest == Out => active = 0 /\ ~service

\* "the service runs while the count is > 0" (line 19): work that began is covered
\* until it ends, unless the system refused or removed the service or a begin() ran
\* into the end() of the work before it.
Covered == ~bare => \A c \in Callers : at[c] = "working" => service
==============================================================================

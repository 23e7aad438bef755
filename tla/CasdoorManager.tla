--------------------------- MODULE CasdoorManager ---------------------------
(***************************************************************************)
(* The manager of the Casdoor sidecar (warden/casdoor.go:52-189): Start,   *)
(* which runs the process under the lock and waits for its health and for  *)
(* the leader's bootstrap outside of it, and Shutdown, called by its users *)
(* and by a Start that fails.  Callers run concurrently; a process may end *)
(* by itself.  The leader lock and the bootstrapper are external and       *)
(* answer as they like.  Killing a child that has not been reaped works or *)
(* finds it ended, which Shutdown takes for success.                       *)
(***************************************************************************)
EXTENDS Naturals

CONSTANTS
    Callers,    \* concurrent users of the manager
    MaxStarts   \* bound: Starts that find the manager stopped

ASSUME MaxStartsAssumption == MaxStarts \in Nat

(* What the configuration makes Start do: "command" runs a process and polls
   its health, "unprobed" runs one and has no URL to poll, "attached" (embedded,
   or a sidecar at a base URL) runs none, "bare" (a sidecar with neither, or an
   external Casdoor that is allowed) bootstraps at once, "refused" is an
   external Casdoor that is not allowed. *)
Modes == {"command", "unprobed", "attached", "bare", "refused"}

(* Processes are numbered as they are started. *)
Processes == 1 .. MaxStarts
NoProcess == 0

VARIABLES
    mode,           \* the configuration
    started, cmd,   \* the manager's fields
    process,        \* process -> "none", "running", "healthy", "ended"
    starts,         \* Starts so far that found the manager stopped
    at,             \* caller -> where it is
    bootstrapped    \* history: the bootstrap since the manager was last started has ended well

managerVars == <<mode, started, cmd, process, starts, at, bootstrapped>>
fields == <<started, cmd>>

ManagerTypeOK ==
    /\ mode \in Modes
    /\ started \in BOOLEAN /\ bootstrapped \in BOOLEAN
    /\ cmd \in Processes \cup {NoProcess}
    /\ process \in [Processes -> {"none", "running", "healthy", "ended"}]
    /\ starts \in 0 .. MaxStarts
    /\ at \in [Callers -> {"idle", "health", "leader", "bootstrap", "failing"}]

ManagerInit ==
    /\ mode \in Modes
    /\ started = FALSE /\ cmd = NoProcess /\ starts = 0 /\ bootstrapped = FALSE
    /\ process = [p \in Processes |-> "none"]
    /\ at = [c \in Callers |-> "idle"]

Alive(p) == process[p] \in {"running", "healthy"}

-----------------------------------------------------------------------------
(* A Start whose test of "started" the lock does not cover. *)
StartSidecarUnlocked(c) ==
    /\ at[c] = "idle" /\ starts < MaxStarts
    /\ mode \in {"command", "unprobed"}
    /\ starts' = starts + 1
    /\ process' = [process EXCEPT ![starts'] = "running"]
    /\ cmd' = starts'
    /\ started' = TRUE /\ bootstrapped' = FALSE
    /\ at' = [at EXCEPT ![c] = "health"]
    /\ UNCHANGED mode

(* The critical section of a Start that finds the manager stopped.  A Start
   that finds it started, is refused, or whose command does not start returns
   and changes nothing. *)
StartSidecar(c) ==
    /\ at[c] = "idle" /\ ~ started /\ starts < MaxStarts
    /\ mode \in {"command", "unprobed"}
    /\ starts' = starts + 1
    /\ process' = [process EXCEPT ![starts'] = "running"]
    /\ cmd' = starts'
    /\ started' = TRUE /\ bootstrapped' = FALSE
    /\ at' = [at EXCEPT ![c] = "health"]
    /\ UNCHANGED mode

StartAttached(c) ==
    /\ at[c] = "idle" /\ ~ started /\ starts < MaxStarts
    /\ mode \in {"attached", "bare"}
    /\ starts' = starts + 1
    /\ started' = TRUE /\ bootstrapped' = FALSE
    /\ at' = [at EXCEPT ![c] = "leader"]
    /\ UNCHANGED <<mode, cmd, process>>

(* waitHealthy: an answer to a poll of the health endpoint, from any healthy
   process behind it, or the timeout. *)
Healthy(c) ==
    /\ at[c] = "health"
    /\ mode = "unprobed" \/ \E p \in Processes : process[p] = "healthy"
    /\ at' = [at EXCEPT ![c] = "leader"]
    /\ UNCHANGED <<mode, fields, process, starts, bootstrapped>>

(* waitHealthy without its timeout. *)
NeverUnhealthy(c) ==
    /\ at[c] = "health" /\ FALSE
    /\ UNCHANGED managerVars

Unhealthy(c) ==
    /\ at[c] = "health" /\ mode = "command"
    /\ at' = [at EXCEPT ![c] = "failing"]
    /\ UNCHANGED <<mode, fields, process, starts, bootstrapped>>

(* A Start that leaves the manager started when its bootstrap fails. *)
AfterFailureKept == "idle"

(* A Start fails after its critical section: with a process or an attached
   Casdoor it shuts the manager down, the bare modes just return the error. *)
AfterFailure == IF mode = "bare" THEN "idle" ELSE "failing"

(* bootstrapIfLeader: who is not the leader leaves the bootstrap to others;
   without a bootstrapper nothing is asked. *)
AskLeader(c) ==
    /\ at[c] = "leader"
    /\ \/ /\ at' = [at EXCEPT ![c] = "bootstrap"]
          /\ UNCHANGED bootstrapped
       \/ /\ at' = [at EXCEPT ![c] = "idle"]
          /\ bootstrapped' = TRUE
       \/ /\ at' = [at EXCEPT ![c] = AfterFailure]
          /\ UNCHANGED bootstrapped
    /\ UNCHANGED <<mode, fields, process, starts>>

Bootstrap(c) ==
    /\ at[c] = "bootstrap"
    /\ \/ /\ at' = [at EXCEPT ![c] = "idle"]
          /\ bootstrapped' = TRUE
       \/ /\ at' = [at EXCEPT ![c] = AfterFailure]
          /\ UNCHANGED bootstrapped
    /\ UNCHANGED <<mode, fields, process, starts>>

(* A Shutdown that forgets to kill. *)
StopManagerOnly ==
    /\ started' = FALSE /\ cmd' = NoProcess
    /\ UNCHANGED process

(* Shutdown forgets the process whether or not it was still there to kill. *)
StopManager ==
    /\ started' = FALSE /\ cmd' = NoProcess
    /\ process' = [p \in Processes |-> IF p = cmd THEN "ended" ELSE process[p]]

Shutdown(c) ==
    /\ at[c] = "idle" /\ started
    /\ StopManager
    /\ UNCHANGED <<mode, starts, at, bootstrapped>>

ShutdownFailed(c) ==
    /\ at[c] = "failing"
    /\ StopManager
    /\ at' = [at EXCEPT ![c] = "idle"]
    /\ UNCHANGED <<mode, starts, bootstrapped>>

(* The process starts to answer, or ends by itself. *)
ProcessAnswers(p) ==
    /\ process[p] = "running"
    /\ process' = [process EXCEPT ![p] = "healthy"]
    /\ UNCHANGED <<mode, fields, starts, at, bootstrapped>>

ProcessEnds(p) ==
    /\ Alive(p)
    /\ process' = [process EXCEPT ![p] = "ended"]
    /\ UNCHANGED <<mode, fields, starts, at, bootstrapped>>

(* What a Start does after its critical section. *)
StartContinues(c) ==
    Healthy(c) \/ Unhealthy(c) \/ AskLeader(c) \/ Bootstrap(c) \/ ShutdownFailed(c)

ManagerNext ==
    \/ \E c \in Callers :
          StartSidecar(c) \/ StartAttached(c) \/ StartContinues(c) \/ Shutdown(c)
    \/ \E p \in Processes : ProcessAnswers(p) \/ ProcessEnds(p)

(* A Start goes on: its health poll ends by the timeout at the latest, and the
   leader lock and the bootstrapper answer. *)
ManagerSpec ==
    /\ ManagerInit /\ [][ManagerNext]_managerVars
    /\ \A c \in Callers : WF_managerVars(StartContinues(c))

-----------------------------------------------------------------------------
(* Every process that runs is the one the manager knows, and a manager that is
   not started knows none: whatever Starts, Shutdowns and failures overlap, no
   sidecar is left behind (casdoor.go:76-108, 123-136). *)
NoOrphan ==
    \A p \in Processes : Alive(p) => started /\ cmd = p

(* A started manager that nobody is starting any more has been bootstrapped
   since it was started, or found itself not the leader: a Start whose
   bootstrap fails shuts the manager down again, so that the next one tries
   anew (casdoor.go:116-119).  The bare modes are not held to it: their Start
   leaves the manager started (casdoor.go:87-89, 102-104). *)
StartedIsBootstrapped ==
    started /\ mode /= "bare" /\ (\A c \in Callers : at[c] = "idle") => bootstrapped

(* Every Start returns, although its process never answers (casdoor.go:151-172). *)
StartReturns ==
    \A c \in Callers : (at[c] /= "idle") ~> (at[c] = "idle")
=============================================================================

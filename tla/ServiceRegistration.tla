------------------------ MODULE ServiceRegistration ------------------------
(***************************************************************************)
(* A service's entry in the Redis service directory (discovery/redis.go,   *)
(* discovery/registration.go) from Start to Stop: the registering          *)
(* commands, the heartbeat loop that prolongs the entry's time to live,    *)
(* the connection they share, and a Redis that crashes, hangs and drops    *)
(* connections.  A tick is the unit of time; Go code and an answering      *)
(* Redis take none of it, so time passes only when nothing can run.        *)
(* A hung Redis accepts connections and answers once it recovers; the      *)
(* calls carry no deadline of their own, so they wait for it, and a        *)
(* canceled context ends only a dial that has not begun.  A command whose  *)
(* connection is cut stays in Redis's hands, which may carry it out later. *)
(***************************************************************************)
EXTENDS Naturals, FiniteSets

CONSTANTS
    TTL,        \* ticks a written or prolonged entry lives (RedisConfig.TTL)
    Interval,   \* ticks between heartbeats (instance TTL / 3)
    Outages,    \* bound: crashes and hangs of Redis
    Breaks      \* bound: connections that break by themselves, and errors that Redis answers

(* The heartbeat interval is a third of the instance's TTL while the entry's
   own TTL is another setting; the defaults of both are 30 seconds. *)
ASSUME TimesAssumption ==
    /\ TTL \in Nat /\ Interval \in Nat \ {0}
    /\ 3 * Interval <= TTL

ASSUME BoundsAssumption == Outages \in Nat /\ Breaks \in Nat

VARIABLES
    caller,     \* where the owner is: "starting", "running", "stopping", "stopped", "failed"
    loop,       \* the heartbeat goroutine: "none", "waiting", "beating", "done"
    canceled,   \* the loop's context (and with it the owner's) is canceled
    due,        \* ticks until the ticker fires
    pending,    \* a firing waits in the ticker's channel of one
    command,    \* the Redis command under way, or "none"; on an open connection it is sent
    attempt,    \* 1, or 2 after the reconnect
    conn,       \* "closed" (nil), "open", "broken" (open for all the registrar knows)
    redis,      \* "up", "down", "hung"
    entry,      \* ticks the entry still has to live, 0 when there is none
    late,       \* the writes that Redis may still carry out, their connections cut
    missed,     \* history: heartbeats in a row whose second attempt failed too
    disturbed,  \* history: Redis lost the entry, or hung in the middle of the registration
    outages, breaks

ownerVars == <<caller, canceled>>
timerVars == <<due, pending>>
callVars == <<command, attempt>>
historyVars == <<missed, disturbed>>
faultVars == <<outages, breaks>>
redisVars == <<redis, entry, late, historyVars, faultVars>>
vars == <<caller, loop, canceled, due, pending, command, attempt, conn, redis,
          entry, late, missed, disturbed, outages, breaks>>

(* The commands that write the entry. *)
Writes == {"SET", "EXPIRE"}

NoneLate == [c \in Writes |-> 0]

(* Two missed heartbeats tell all a reader needs to know. *)
MissCap == 2

TypeOK ==
    /\ caller \in {"starting", "running", "stopping", "stopped", "failed"}
    /\ loop \in {"none", "waiting", "beating", "done"}
    /\ canceled \in BOOLEAN /\ pending \in BOOLEAN /\ disturbed \in BOOLEAN
    /\ due \in 0 .. Interval
    /\ command \in {"none", "SET", "SADD", "PUBLISH", "EXPIRE"}
    /\ attempt \in {1, 2}
    /\ conn \in {"closed", "open", "broken"}
    /\ redis \in {"up", "down", "hung"}
    /\ entry \in 0 .. TTL
    /\ late \in [Writes -> Nat]
    /\ missed \in 0 .. MissCap
    /\ outages \in 0 .. Outages /\ breaks \in 0 .. Breaks

(* Start has been called and Register's first command is about to be sent. *)
Init ==
    /\ caller = "starting" /\ loop = "none" /\ canceled = FALSE
    /\ due = Interval /\ pending = FALSE
    /\ command = "SET" /\ attempt = 1 /\ conn = "closed" /\ redis = "up"
    /\ entry = 0 /\ late = NoneLate /\ missed = 0 /\ disturbed = FALSE
    /\ outages = 0 /\ breaks = 0

-----------------------------------------------------------------------------
(* A heartbeat that writes an entry again that had lapsed. *)
EntryRewritten(c) == IF c \in {"SET", "EXPIRE"} THEN TTL ELSE entry

(* What Redis does with a command: SET ... EX writes the entry, EXPIRE
   prolongs the entry there is and succeeds without one, SADD and PUBLISH
   leave it alone. *)
EntryAfter(c) ==
    CASE c = "SET" -> TTL
      [] c = "EXPIRE" /\ entry > 0 -> TTL
      [] OTHER -> entry

(* The command has returned to its caller.  Refresh goes on to the next
   command or Start fails, and StartFromEnv closes the provider; a heartbeat
   goes back to the ticker whatever came of it. *)
CommandReturns(ok, connLeft) ==
    LET next == [SET |-> "SADD", SADD |-> "PUBLISH", PUBLISH |-> "none"]
    IN
    /\ attempt' = 1
    /\ \/ /\ command = "EXPIRE"
          /\ command' = "none" /\ loop' = "waiting" /\ conn' = connLeft
          /\ UNCHANGED <<caller, timerVars>>
       \/ /\ command /= "EXPIRE" /\ ok
          /\ command' = next[command] /\ conn' = connLeft
          /\ IF command = "PUBLISH"
             THEN /\ caller' = "running" /\ loop' = "waiting"
                  /\ due' = Interval /\ pending' = FALSE
             ELSE UNCHANGED <<caller, loop, timerVars>>
       \/ /\ command /= "EXPIRE" /\ ~ ok
          /\ command' = "none" /\ caller' = "failed" /\ conn' = "closed"
          /\ UNCHANGED <<loop, timerVars>>

(* The first attempt has failed: the registrar closes the connection and
   tries once more on a new one. *)
Reconnect ==
    /\ attempt = 1
    /\ attempt' = 2 /\ conn' = "closed"
    /\ UNCHANGED <<caller, loop, timerVars, command>>

GiveUp(connLeft) == CommandReturns(FALSE, connLeft)

CommandFails(connLeft) == Reconnect \/ (attempt = 2 /\ GiveUp(connLeft))

(* The history of a step: a heartbeat is missed when its second attempt, on a
   connection of its own, has not prolonged the entry either. *)
CountBeat ==
    missed' = CASE entry' = TTL -> 0
                [] entry' < TTL /\ command = "EXPIRE" /\ command' = "none" /\ attempt = 2 ->
                     IF missed < MissCap THEN missed + 1 ELSE MissCap
                [] OTHER -> missed

(* An attempt without a connection dials one and sends its command, also to a
   hung Redis.  A canceled context does not dial. *)
Dial ==
    /\ command /= "none" /\ conn = "closed" /\ ~ canceled /\ redis /= "down"
    /\ conn' = "open"
    /\ UNCHANGED <<ownerVars, loop, timerVars, callVars, redisVars>>

(* A dial that is canceled or refused, a write to a broken connection, a read
   from one that broke while the answer was waited for. *)
Unreachable ==
    /\ command /= "none"
    /\ \/ conn = "broken"
       \/ conn = "closed" /\ (canceled \/ redis = "down")
    /\ CommandFails(conn)
    /\ UNCHANGED <<canceled, redis, entry, late, disturbed, faultVars>>
    /\ CountBeat

Succeed ==
    /\ command /= "none" /\ conn = "open" /\ redis = "up"
    /\ entry' = EntryAfter(command)
    /\ CommandReturns(TRUE, "open")
    /\ UNCHANGED <<canceled, redis, late, disturbed, faultVars>>
    /\ CountBeat

(* Redis answers an error: to the command, whose connection the second attempt
   leaves open, or to the AUTH of a new connection, which is closed. *)
Refuse ==
    /\ command /= "none" /\ conn = "open" /\ redis = "up"
    /\ breaks < Breaks /\ breaks' = breaks + 1
    /\ \E connLeft \in {"open", "closed"} : CommandFails(connLeft)
    /\ UNCHANGED <<canceled, redis, entry, late, disturbed, outages>>
    /\ CountBeat

(* The connection breaks while the answer is waited for, and what Redis makes
   of the command the caller never learns; or it breaks in the AUTH of a new
   one, and the command was not sent.  The second attempt's connection stays
   where the registrar keeps it. *)
CutOff ==
    /\ command /= "none" /\ conn = "open"
    /\ breaks < Breaks /\ breaks' = breaks + 1
    /\ \/ /\ late' = [c \in Writes |-> late[c] + (IF c = command THEN 1 ELSE 0)]
          /\ CommandFails("broken")
       \/ CommandFails("closed") /\ UNCHANGED late
    /\ UNCHANGED <<canceled, redis, entry, disturbed, outages>>
    /\ CountBeat

(* Redis carries out a command that nobody waits for any more: at once, when it
   recovers, or never. *)
CarryOutLate ==
    /\ redis = "up"
    /\ \E c \in Writes :
          /\ late[c] > 0 /\ late' = [late EXCEPT ![c] = @ - 1]
          /\ entry' = EntryAfter(c)
    /\ UNCHANGED <<ownerVars, loop, timerVars, callVars, conn, redis, disturbed, faultVars>>
    /\ CountBeat

-----------------------------------------------------------------------------
(* The loop takes a firing; select may do so although the context is canceled. *)
Beat ==
    /\ loop = "waiting" /\ pending
    /\ pending' = FALSE /\ loop' = "beating" /\ command' = "EXPIRE" /\ attempt' = 1
    /\ UNCHANGED <<ownerVars, due, conn, redisVars>>

(* The loop ends, and its ticker and the history of its heartbeats with it. *)
LoopEnds ==
    /\ loop = "waiting" /\ canceled
    /\ loop' = "done" /\ due' = Interval /\ pending' = FALSE
    /\ missed' = 0 /\ disturbed' = FALSE
    /\ UNCHANGED <<ownerVars, callVars, conn, redis, entry, late, faultVars>>

(* The owner's context ends, a shutdown signal say. *)
CancelContext ==
    /\ caller \in {"starting", "running"} /\ ~ canceled
    /\ canceled' = TRUE
    /\ UNCHANGED <<caller, loop, timerVars, callVars, conn, redisVars>>

(* Stop cancels the loop and waits for it to end ... *)
Stop ==
    /\ caller = "running"
    /\ caller' = "stopping" /\ canceled' = TRUE
    /\ UNCHANGED <<loop, timerVars, callVars, conn, redisVars>>

(* A Stop that leaves the connection open. *)
StopEndsUnclosed ==
    /\ caller = "stopping" /\ loop = "done"
    /\ caller' = "stopped"
    /\ UNCHANGED <<loop, canceled, timerVars, callVars, conn, redisVars>>

(* ... then deregisters, which leaves the entry to its TTL, and closes. *)
StopEnds ==
    /\ caller = "stopping" /\ loop = "done"
    /\ caller' = "stopped" /\ conn' = "closed"
    /\ UNCHANGED <<loop, canceled, timerVars, callVars, redisVars>>

-----------------------------------------------------------------------------
(* The environment: Redis crashes, with or without its data, and with the
   commands it had not carried out; it hangs and comes back; an idle
   connection is cut. *)
Crash ==
    /\ redis /= "down" /\ outages < Outages
    /\ redis' = "down" /\ outages' = outages + 1
    /\ conn' = IF conn = "open" THEN "broken" ELSE conn
    /\ late' = NoneLate
    /\ \/ UNCHANGED <<entry, disturbed>>
       \/ entry' = 0 /\ disturbed' = TRUE
    /\ UNCHANGED <<ownerVars, loop, timerVars, callVars, missed, breaks>>

Hang ==
    /\ redis = "up" /\ outages < Outages
    /\ redis' = "hung" /\ outages' = outages + 1
    /\ UNCHANGED <<ownerVars, loop, timerVars, callVars, conn, entry, late, historyVars, breaks>>

Recover ==
    /\ redis /= "up"
    /\ redis' = "up"
    /\ UNCHANGED <<ownerVars, loop, timerVars, callVars, conn, entry, late, historyVars, faultVars>>

Break ==
    /\ command = "none" /\ conn = "open" /\ breaks < Breaks
    /\ conn' = "broken" /\ breaks' = breaks + 1
    /\ UNCHANGED <<ownerVars, loop, timerVars, callVars, redis, entry, late, historyVars, outages>>

(* A goroutine can run: only one that has sent a hung Redis its command cannot. *)
Busy ==
    \/ command /= "none" /\ (redis /= "hung" \/ conn /= "open")
    \/ loop = "waiting" /\ (pending \/ canceled)
    \/ caller = "stopping" /\ loop = "done"

(* The ticker runs beside the loop; a firing that finds the channel full is
   dropped. *)
Tick ==
    /\ ~ Busy
    /\ entry' = IF entry > 0 THEN entry - 1 ELSE 0
    /\ disturbed' = (disturbed \/ (caller = "starting" /\ entry > 0))
    /\ IF loop \in {"waiting", "beating"}
       THEN IF due = 1 THEN due' = Interval /\ pending' = TRUE
                       ELSE due' = due - 1 /\ UNCHANGED pending
       ELSE UNCHANGED timerVars
    /\ UNCHANGED <<ownerVars, loop, callVars, conn, redis, late, missed, faultVars>>

Service == Dial \/ Succeed \/ Unreachable \/ Beat \/ LoopEnds \/ StopEnds

Faults == CutOff \/ Refuse \/ CarryOutLate \/ Crash \/ Hang \/ Break

-----------------------------------------------------------------------------
(* Heartbeats that are due: the one under way and the firing that waits. *)
Outstanding == Cardinality({b \in {"beating", "fired"} :
                              IF b = "fired" THEN pending ELSE loop = "beating"})
=============================================================================

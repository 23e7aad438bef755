------------------------- MODULE MultiRegistration -------------------------
(***************************************************************************)
(* A service that registers itself with two providers (StartFromEnv,       *)
(* MultiRegistration): with Redis, as in ServiceRegistration, and with     *)
(* mDNS or Consul.  The owner starts them one after the other, in the      *)
(* configured order, goes on without one that fails, and stops them one    *)
(* after the other.                                                        *)
(*                                                                         *)
(* Each registration has its own loop, which the owner's context and the   *)
(* registration's Stop end.  The mDNS registrar has a loop of its own      *)
(* beside it, which the owner's context and Close end.  A Consul request   *)
(* has no deadline: it is answered once Consul answers.                    *)
(***************************************************************************)
EXTENDS ServiceRegistration, Sequences

VARIABLES
    second,     \* the provider beside Redis: "mdns" or "consul"
    redisFirst, \* the order of the two
    step,       \* the owner: "start", "running", "stop", "stopped"
    place,      \* which of the two it starts or stops
    results,    \* what its calls of Stop returned
    context,    \* "live" or "canceled": the owner's context
    reg,        \* the second registration
    beats,      \* its loop
    socket,     \* mDNS: the UDP socket
    announcer,  \* mDNS: the registrar's own loop
    quit,       \* mDNS: its stop channel is closed
    request,    \* Consul: the request under way
    listed      \* Consul lists the service

multiVars == <<second, redisFirst, step, place, results, context, reg, beats, socket, announcer,
               quit, request, listed>>
allVars == <<vars, multiVars>>

MultiTypeOK ==
    /\ TypeOK
    /\ second \in {"mdns", "consul"} /\ redisFirst \in BOOLEAN
    /\ step \in {"start", "running", "stop", "stopped"} /\ place \in {1, 2}
    /\ results \in UNION {[1 .. n -> {"nil", "error"}] : n \in 0 .. 2}
    /\ context \in {"live", "canceled"}
    /\ reg \in {"none", "running", "stopping", "stopped", "failed"}
    /\ {beats, announcer} \subseteq {"none", "live", "done"}
    /\ socket \in {"closed", "open"}
    /\ request \in {"none", "register", "deregister"}
    /\ {quit, listed} \subseteq BOOLEAN

MultiInit ==
    /\ Init
    /\ second \in {"mdns", "consul"} /\ redisFirst \in BOOLEAN
    /\ step = "start" /\ place = 1 /\ results = <<>> /\ context = "live"
    /\ reg = "none" /\ beats = "none" /\ socket = "closed" /\ announcer = "none"
    /\ quit = FALSE /\ request = "none" /\ listed = FALSE

-----------------------------------------------------------------------------
(* The owner. *)

RedisHere == redisFirst <=> place = 1
RedisStarted == redisFirst \/ place = 2 \/ step /= "start"

Started == IF RedisHere THEN caller \in {"running", "failed"} ELSE reg \in {"running", "failed"}
Ended == IF RedisHere THEN caller \in {"stopped", "failed"} ELSE reg \in {"stopped", "failed"}

StartNext ==
    /\ step = "start" /\ Started
    /\ place' = 3 - place
    /\ step' = IF place = 1 THEN "start" ELSE "running"
    /\ UNCHANGED <<vars, second, redisFirst, results, context, reg, beats, socket, announcer,
                   quit, request, listed>>

StopAll ==
    /\ step = "running"
    /\ step' = "stop"
    /\ UNCHANGED <<vars, second, redisFirst, place, results, context, reg, beats, socket,
                   announcer, quit, request, listed>>

(* Stop returns the first error; only Consul's deregistration reports one, and
   leaves it in results. *)
StopNext ==
    /\ step = "stop" /\ Ended
    /\ place' = 3 - place
    /\ step' = IF place = 1 THEN "stop" ELSE "stopped"
    /\ results' = IF place = 2 /\ results = <<>> THEN <<"nil">> ELSE results
    /\ UNCHANGED <<vars, second, redisFirst, context, reg, beats, socket, announcer, quit,
                   request, listed>>

(* Every registration stops once: another Stop has nothing to report. *)
StopAgain ==
    /\ step = "stopped" /\ Len(results) = 1
    /\ results' = Append(results, "nil")
    /\ UNCHANGED <<vars, second, redisFirst, step, place, context, reg, beats, socket, announcer,
                   quit, request, listed>>

CancelOwner ==
    /\ context = "live" /\ context' = "canceled"
    /\ IF caller \in {"starting", "running"} THEN CancelContext ELSE UNCHANGED vars
    /\ UNCHANGED <<second, redisFirst, step, place, results, reg, beats, socket, announcer, quit,
                   request, listed>>

-----------------------------------------------------------------------------
(* The Redis registration, once it is its turn. *)

RedisRuns == RedisStarted /\ Service /\ UNCHANGED multiVars
RedisDisturbed == Faults /\ UNCHANGED multiVars
RedisRecovers == Recover /\ UNCHANGED multiVars
TimePasses == RedisStarted /\ Tick /\ UNCHANGED multiVars
StopRedis == step = "stop" /\ RedisHere /\ Stop /\ UNCHANGED multiVars

-----------------------------------------------------------------------------
(* mDNS. *)

(* A Close that ends only the socket. *)
CloseSocket == socket' = "closed" /\ UNCHANGED quit

(* Close ends the registrar's loop and the socket. *)
CloseMDNS == socket' = "closed" /\ quit' = TRUE

(* The first Register opens the socket and starts the registrar's own loop. *)
OpenSocket == socket' = "open" /\ announcer' = "live"

(* Register opens the socket, starts the registrar's loop and announces the
   service.  Without a socket or a first announcement Start fails, and
   StartFromEnv closes the registrar. *)
StartMDNS ==
    /\ step = "start" /\ ~ RedisHere /\ reg = "none" /\ second = "mdns"
    /\ \/ /\ reg' = "running" /\ beats' = "live"
          /\ OpenSocket
          /\ UNCHANGED quit
       \/ /\ reg' = "failed" /\ announcer' \in {"none", "live"}
          /\ CloseMDNS
          /\ UNCHANGED beats
    /\ UNCHANGED <<vars, second, redisFirst, step, place, results, context, request, listed>>

AnnouncerEnds ==
    /\ announcer = "live" /\ (context = "canceled" \/ quit)
    /\ announcer' = "done"
    /\ UNCHANGED <<vars, second, redisFirst, step, place, results, context, reg, beats, socket,
                   quit, request, listed>>

StopMDNS ==
    /\ reg = "stopping" /\ beats = "done" /\ second = "mdns"
    /\ reg' = "stopped"
    /\ CloseMDNS
    /\ UNCHANGED <<vars, second, redisFirst, step, place, results, context, beats, announcer,
                   request, listed>>

-----------------------------------------------------------------------------
(* Consul.  Whether a request that failed was carried out is anybody's guess. *)

StartConsul ==
    /\ step = "start" /\ ~ RedisHere /\ reg = "none" /\ second = "consul" /\ request = "none"
    /\ request' = "register"
    /\ UNCHANGED <<vars, second, redisFirst, step, place, results, context, reg, beats, socket,
                   announcer, quit, listed>>

Registered ==
    /\ request = "register" /\ request' = "none"
    /\ \/ listed' = TRUE /\ reg' = "running" /\ beats' = "live"
       \/ listed' \in BOOLEAN /\ reg' = "failed" /\ UNCHANGED beats
    /\ UNCHANGED <<vars, second, redisFirst, step, place, results, context, socket, announcer,
                   quit>>

StopConsul ==
    /\ reg = "stopping" /\ beats = "done" /\ second = "consul" /\ request = "none"
    /\ request' = "deregister"
    /\ UNCHANGED <<vars, second, redisFirst, step, place, results, context, reg, beats, socket,
                   announcer, quit, listed>>

(* A Stop that returns the error of Close, which is none. *)
DeregisterDropsError(carriedOut) == listed' = ~ carriedOut /\ UNCHANGED results

Deregister(carriedOut) ==
    /\ listed' = ~ carriedOut
    /\ \/ carriedOut /\ UNCHANGED results
       \/ results' = <<"error">>

Deregistered ==
    /\ request = "deregister" /\ request' = "none"
    /\ reg' = "stopped"
    /\ \E carriedOut \in BOOLEAN : Deregister(carriedOut)
    /\ UNCHANGED <<vars, second, redisFirst, step, place, context, beats, socket, announcer,
                   quit>>

-----------------------------------------------------------------------------
(* The second registration's loop. *)

(* Stop cancels the loop of that registration, and waits for it to end. *)
StopSecond ==
    /\ step = "stop" /\ ~ RedisHere /\ reg = "running"
    /\ reg' = "stopping"
    /\ UNCHANGED <<vars, second, redisFirst, step, place, results, context, beats, socket,
                   announcer, quit, request, listed>>

BeatsEnd ==
    /\ beats = "live" /\ (context = "canceled" \/ reg = "stopping")
    /\ beats' = "done"
    /\ UNCHANGED <<vars, second, redisFirst, step, place, results, context, reg, socket,
                   announcer, quit, request, listed>>

OwnerRuns == StartNext \/ StopNext \/ StopRedis \/ StopSecond
SecondRuns == StartMDNS \/ StopMDNS \/ StartConsul \/ StopConsul \/ BeatsEnd
ConsulAnswers == Registered \/ Deregistered

MultiNext ==
    \/ OwnerRuns \/ StopAll \/ StopAgain \/ CancelOwner
    \/ RedisRuns \/ RedisDisturbed \/ RedisRecovers \/ TimePasses
    \/ SecondRuns \/ AnnouncerEnds \/ ConsulAnswers

(* Goroutines that can run do, time passes, and outages end. *)
MultiSpec ==
    /\ MultiInit /\ [][MultiNext]_allVars
    /\ WF_allVars(OwnerRuns) /\ WF_allVars(RedisRuns) /\ WF_allVars(SecondRuns)
    /\ WF_allVars(AnnouncerEnds) /\ WF_allVars(TimePasses)
    /\ WF_allVars(RedisRecovers) /\ WF_allVars(ConsulAnswers)

-----------------------------------------------------------------------------
(* A running service's entry lapses only when two heartbeats in a row were
   missed or are kept waiting by a hung Redis, or Redis lost the entry or hung
   while it was registered: a connection cut now and then never costs the
   entry (redis.go:81-89, registration.go:28). *)
LapseNeedsMissedBeats ==
    [][(caller = "running") /\ ~ canceled /\ entry > 0 /\ entry' = 0
       => (missed + Outstanding >= 2 \/ disturbed)']_vars

(* Once a provider's Stop has returned, or StartFromEnv has given it up, the
   service holds no connection and no socket of it, nothing opens one or sends
   a command again, however the loops that are still ending interleave with it,
   and the entry grows only by a command of the time before, which Redis takes
   off its hands (registration.go:35-41, env.go:38-41, redis.go:75-89,
   mdns.go:73-98). *)
SilentAfterStop ==
    [][/\ (caller \in {"stopped", "failed"})
             => /\ caller' = caller /\ command' = "none" /\ conn' = "closed"
                /\ \A c \in Writes : late'[c] <= late[c]
                /\ entry' > entry => \E c \in Writes : late'[c] < late[c]
       /\ (reg \in {"stopped", "failed"})
             => reg' = reg /\ socket' = "closed" /\ (listed' => listed)]_allVars

(* A Stop returns, and then the Redis entry lapses and every goroutine of the
   registrations ends for good, also when a heartbeat is under way, Redis or
   Consul is out, or a registration had failed, provided outages end
   (registration.go:32-47, env.go:47-55, mdns.go:100-113). *)
StopEndsRegistration ==
    (step = "stop") ~>
        [](step = "stopped" /\ entry = 0 /\ loop \notin {"waiting", "beating"}
           /\ "live" \notin {beats, announcer})

(* The first Stop returns no error only if no provider it stopped lists the
   service any more, the Redis entry apart, which lapses (registration.go:40-46,
   env.go:47-55). *)
CleanStopUnlists ==
    step = "stopped" /\ results[1] = "nil" /\ reg = "stopped" => ~ listed

(* Any Stop that returns no error says so. *)
EveryCleanStopUnlists ==
    \A n \in DOMAIN results : results[n] = "nil" /\ reg = "stopped" => ~ listed

(* The caller as those who read the directory see it. *)
Holder ==
    CASE caller = "starting" -> "registering"
      [] caller = "running" -> "running"
      [] caller = "stopping" -> "leaving"
      [] OTHER -> "gone"

(* The entry in Redis is a lease: the whole registration, with its retries and
   whatever connections and Redis do, implements ServiceLease.  No heartbeat,
   retried, late or carried out twice, gives back an entry that had lapsed, and
   after Stop has returned or Start has failed only commands sent before still
   grow it, each once: the copies of a command whose connection was cut
   (redis.go:42-102, registration.go:17-60, env.go:37-41). *)
Lease == INSTANCE ServiceLease
    WITH holder <- Holder, lease <- entry,
         asked <- [grant |-> late["SET"], renew |-> late["EXPIRE"]]
ImplementsLease == Lease!Spec

(* A service that is not registered is not listed. *)
FailedIsUnlisted == reg = "failed" => ~ listed
=============================================================================

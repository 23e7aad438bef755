---------------------- MODULE MultiRegistration_proofs ----------------------
(***************************************************************************)
(* Theorems of MultiRegistration, for every time to live and heartbeat     *)
(* interval, either provider beside Redis in either order, and any number  *)
(* of outages, cut connections and refused commands.                       *)
(***************************************************************************)
EXTENDS MultiRegistration, FiniteSetTheorems, SequenceTheorems, TLAPS

-----------------------------------------------------------------------------
(* The invariant. *)

(* How far a registration has come: which goroutine runs, which command is
   under way, and whose the connection is. *)
Progress ==
    /\ caller = "starting" => loop = "none" /\ command \in {"SET", "SADD", "PUBLISH"}
    /\ caller \in {"running", "stopping"} => loop \in {"waiting", "beating", "done"}
    /\ loop = "done" \/ caller = "stopping" => canceled
    /\ loop = "beating" <=> command = "EXPIRE"
    /\ caller # "starting" => command \in {"none", "EXPIRE"}
    /\ caller = "failed" => loop = "none"
    /\ caller = "stopped" => loop = "done"
    /\ caller \in {"stopped", "failed"} => conn = "closed"
    /\ attempt = 2 => command # "none"

(* Heartbeats missed or due. *)
Behind == missed + Outstanding

(* What is left of the entry's time to live: a service that is starting has
   all of it, a running one has lost a heartbeat interval for every heartbeat
   that was missed or is due, and the time since the ticker fired. *)
Alive ==
    /\ loop \in {"waiting", "beating"} => due > 0
    /\ caller = "starting" /\ ~ disturbed => entry \in {0, TTL}
    /\ caller = "running" /\ ~ canceled /\ ~ disturbed /\ entry > 0 =>
           /\ Behind = 0 => entry >= TTL - Interval + due
           /\ Behind = 1 => entry >= TTL - 2 * Interval + due

(* The second registration: who may still touch its socket and its listing. *)
Second ==
    /\ request \in {"none", "register", "deregister"}
    /\ request # "none" => second = "consul"
    /\ request = "register" => reg = "none"
    /\ request = "deregister" => reg = "stopping"
    /\ socket # "closed" => second = "mdns" /\ reg \in {"running", "stopping"}
    /\ reg = "none" => ~ listed
    /\ second = "mdns" => ~ listed
    /\ reg = "stopped" => ~ listed \/ (results # <<>> /\ results[1] = "error")

(* What Stop returned, once or twice. *)
Outcome == {"nil", "error"}
Results == results \in Seq(Outcome) /\ Len(results) \in 0 .. 2

SecondInv == Second /\ Results

RegistrationInv == TypeOK /\ Progress /\ Alive

-----------------------------------------------------------------------------
(* Counting. *)

LEMMA Times ==
    /\ TTL \in Nat /\ Interval \in Nat /\ Interval >= 1 /\ 3 * Interval <= TTL /\ TTL >= 3
BY TimesAssumption

(* Facts Zenon does not know of. *)
LEMMA ZeroIsNotOne == 0 # 1
OBVIOUS

LEMMA DoneIsOver == "done" \notin {"waiting", "beating"}
OBVIOUS

LEMMA StoppingIsNotRunning == "running" # "stopping"
OBVIOUS

LEMMA Count ==
    ASSUME NEW p \in BOOLEAN, NEW b \in BOOLEAN
    PROVE  Cardinality({x \in {"beating", "fired"} : IF x = "fired" THEN p ELSE b})
             = (IF p THEN 1 ELSE 0) + (IF b THEN 1 ELSE 0)
<1> DEFINE S == {x \in {"beating", "fired"} : IF x = "fired" THEN p ELSE b}
<1>1. CASE ~ p /\ ~ b
  <2>1. S = {}
    BY <1>1
  <2> QED BY <1>1, <2>1, FS_EmptySet
<1>2. CASE p /\ ~ b
  <2>1. S = {"fired"}
    BY <1>2
  <2> QED BY <1>2, <2>1, FS_Singleton
<1>3. CASE ~ p /\ b
  <2>1. S = {"beating"}
    BY <1>3
  <2> QED BY <1>3, <2>1, FS_Singleton
<1>4. CASE p /\ b
  <2>1. S = {"beating"} \cup {"fired"}
    BY <1>4
  <2>2. IsFiniteSet({"beating"}) /\ Cardinality({"beating"}) = 1
    BY FS_Singleton
  <2>3. Cardinality({"beating"} \cup {"fired"}) = 1 + 1
    BY <2>2, FS_AddElement
  <2> QED BY <1>4, <2>1, <2>3
<1> QED BY <1>1, <1>2, <1>3, <1>4

LEMMA OutstandingNow ==
    ASSUME TypeOK
    PROVE  Outstanding = (IF pending THEN 1 ELSE 0) + (IF loop = "beating" THEN 1 ELSE 0)
BY Count DEF Outstanding, TypeOK

LEMMA OutstandingNext ==
    ASSUME TypeOK'
    PROVE  Outstanding' = (IF pending' THEN 1 ELSE 0) + (IF loop' = "beating" THEN 1 ELSE 0)
BY Count DEF Outstanding, TypeOK

-----------------------------------------------------------------------------
(* The Redis registration. *)

(* The steps that touch it. *)
CommandStep == Succeed \/ Unreachable \/ CutOff \/ Refuse
QuietStep ==
    \/ Dial \/ Beat \/ StopEnds \/ Stop \/ CancelContext
    \/ Crash \/ Hang \/ Recover \/ Break
RedisStep == CommandStep \/ QuietStep \/ LoopEnds \/ CarryOutLate \/ Tick

LEMMA EntryTyped ==
    ASSUME TypeOK, NEW c
    PROVE  /\ EntryAfter(c) \in 0 .. TTL /\ EntryAfter(c) \in {entry, TTL}
           /\ entry > 0 => EntryAfter(c) > 0
           /\ c = "EXPIRE" /\ entry > 0 => EntryAfter(c) = TTL
           /\ c = "EXPIRE" /\ entry = 0 => EntryAfter(c) = 0
           /\ c \in {"SADD", "PUBLISH"} => EntryAfter(c) = entry
BY Times DEF EntryAfter, TypeOK

LEMMA CountTyped ==
    ASSUME TypeOK, CountBeat
    PROVE  missed' \in 0 .. MissCap
BY DEF CountBeat, TypeOK, MissCap

(* The four ways a command's step ends. *)
Retries ==
    /\ attempt = 1 /\ attempt' = 2 /\ conn' = "closed"
    /\ UNCHANGED <<caller, loop, due, pending, command>>
HeartbeatEnds(connLeft) ==
    /\ command = "EXPIRE" /\ command' = "none" /\ loop' = "waiting" /\ conn' = connLeft
    /\ attempt' = 1 /\ UNCHANGED <<caller, due, pending>>
Advances ==
    /\ command \in {"SET", "SADD", "PUBLISH"} /\ conn' = "open" /\ attempt' = 1
    /\ \/ /\ command \in {"SET", "SADD"} /\ command' \in {"SADD", "PUBLISH"}
          /\ UNCHANGED <<caller, loop, due, pending>>
       \/ /\ command = "PUBLISH" /\ command' = "none"
          /\ caller' = "running" /\ loop' = "waiting" /\ due' = Interval /\ pending' = FALSE
StartFails ==
    /\ command \in {"SET", "SADD", "PUBLISH"} /\ command' = "none"
    /\ caller' = "failed" /\ conn' = "closed" /\ attempt' = 1
    /\ UNCHANGED <<loop, due, pending>>

LEMMA SucceedEnds ==
    ASSUME TypeOK, Succeed
    PROVE  HeartbeatEnds("open") \/ Advances
BY DEF Succeed, CommandReturns, TypeOK, HeartbeatEnds, Advances, timerVars

LEMMA FailureEnds ==
    ASSUME TypeOK, command # "none", NEW connLeft, CommandFails(connLeft)
    PROVE  Retries \/ (attempt = 2 /\ (HeartbeatEnds(connLeft) \/ StartFails))
BY DEF CommandFails, Reconnect, GiveUp, CommandReturns, TypeOK, Retries, HeartbeatEnds, StartFails,
       timerVars

(* The types in three parts, as the provers take them: the flags, the commands
   that Redis may carry out late, the rest. *)
Flags == canceled \in BOOLEAN /\ pending \in BOOLEAN /\ disturbed \in BOOLEAN
Shapes ==
    /\ caller \in {"starting", "running", "stopping", "stopped", "failed"}
    /\ loop \in {"none", "waiting", "beating", "done"}
    /\ due \in 0 .. Interval
    /\ command \in {"none", "SET", "SADD", "PUBLISH", "EXPIRE"}
    /\ attempt \in {1, 2}
    /\ conn \in {"closed", "open", "broken"}
    /\ redis \in {"up", "down", "hung"}
    /\ entry \in 0 .. TTL
    /\ missed \in 0 .. MissCap
    /\ outages \in 0 .. Outages /\ breaks \in 0 .. Breaks

LateTyped == late \in [Writes -> Nat]

LEMMA TypeParts == TypeOK <=> Flags /\ Shapes /\ LateTyped
BY Zenon DEF TypeOK, Flags, Shapes, LateTyped

(* What the four ends of a command have in common. *)
LEMMA CommandFacts ==
    ASSUME CommandStep
    PROVE  /\ command # "none" /\ CountBeat
           /\ entry' = entry \/ entry' = EntryAfter(command)
           /\ outages' = outages /\ redis' = redis
           /\ breaks' = breaks \/ (breaks < Breaks /\ breaks' = breaks + 1)
           /\ canceled' = canceled /\ disturbed' = disturbed
           /\ \/ Succeed
              \/ CommandFails("broken") \/ CommandFails("open") \/ CommandFails("closed")
              \/ CommandFails(conn)
BY Zenon DEF CommandStep, Succeed, CutOff, Refuse, Unreachable, faultVars

LEMMA CommandEnds ==
    ASSUME TypeOK, CommandStep
    PROVE  \/ HeartbeatEnds("open") \/ HeartbeatEnds("broken") \/ HeartbeatEnds("closed")
           \/ HeartbeatEnds(conn)
           \/ Advances \/ Retries \/ StartFails
BY Zenon, CommandFacts, SucceedEnds, FailureEnds

(* Nobody takes more off Redis's hands than is there. *)
LEMMA LateStays ==
    ASSUME TypeOK, RedisStep
    PROVE  LateTyped'
<1>0. LateTyped
  BY TypeParts
<1>1. CASE CutOff
  <2>1. \/ late' = late
        \/ late' = [c \in Writes |-> late[c] + (IF c = command THEN 1 ELSE 0)]
    BY Zenon, <1>1 DEF CutOff
  <2> QED BY <1>0, <2>1 DEF LateTyped
<1>2. CASE CarryOutLate
  <2>1. PICK c \in Writes : late[c] > 0 /\ late' = [late EXCEPT ![c] = @ - 1]
    BY Zenon, <1>2 DEF CarryOutLate
  <2> QED BY <1>0, <2>1 DEF LateTyped
<1>3. CASE Crash
  BY <1>3 DEF Crash, NoneLate, LateTyped
<1>4. CASE \/ Succeed \/ Unreachable \/ Refuse \/ Dial \/ Beat \/ StopEnds \/ Stop
           \/ CancelContext \/ Hang \/ Recover \/ Break \/ LoopEnds \/ Tick
  <2>1. late' = late
    BY Zenon, <1>4 DEF Succeed, Unreachable, Refuse, Dial, Beat, StopEnds, Stop, CancelContext,
       Hang, Recover, Break, LoopEnds, Tick, redisVars
  <2> QED BY <1>0, <2>1 DEF LateTyped
<1> QED BY Zenon, <1>1, <1>2, <1>3, <1>4 DEF RedisStep, CommandStep, QuietStep

LEMMA CommandTyped ==
    ASSUME TypeOK, CommandStep
    PROVE  TypeOK'
<1>0. Flags /\ Shapes
  BY TypeParts
<1>1. entry' \in 0 .. TTL
  BY <1>0, CommandFacts, EntryTyped DEF Shapes
<1>2. missed' \in 0 .. MissCap
  BY CountTyped, CommandFacts
<1>3. breaks' \in 0 .. Breaks /\ outages' \in 0 .. Outages /\ redis' \in {"up", "down", "hung"}
  BY <1>0, CommandFacts, BoundsAssumption DEF Shapes
<1>4. pending' = pending \/ pending' = FALSE
  BY Zenon, CommandEnds DEF HeartbeatEnds, Advances, Retries, StartFails
<1>5. Flags'
  BY Zenon, <1>0, <1>4, CommandFacts DEF Flags
<1>6. caller' \in {"starting", "running", "stopping", "stopped", "failed"}
  BY <1>0, CommandEnds DEF HeartbeatEnds, Advances, Retries, StartFails, Shapes
<1>7. loop' \in {"none", "waiting", "beating", "done"}
  BY <1>0, CommandEnds DEF HeartbeatEnds, Advances, Retries, StartFails, Shapes
<1>8. command' \in {"none", "SET", "SADD", "PUBLISH", "EXPIRE"}
  BY <1>0, CommandEnds DEF HeartbeatEnds, Advances, Retries, StartFails, Shapes
<1>9. conn' \in {"closed", "open", "broken"} /\ attempt' \in {1, 2}
  BY <1>0, CommandEnds DEF HeartbeatEnds, Advances, Retries, StartFails, Shapes
<1>10. due' = due \/ due' = Interval
  BY Zenon, CommandEnds DEF HeartbeatEnds, Advances, Retries, StartFails
<1>11. Shapes'
  BY <1>0, <1>1, <1>2, <1>3, <1>6, <1>7, <1>8, <1>9, <1>10, Times DEF Shapes
<1>12. LateTyped'
  BY LateStays DEF RedisStep
<1> QED BY Zenon, <1>5, <1>11, <1>12 DEF TypeOK, Flags, Shapes, LateTyped

LEMMA OtherTyped ==
    ASSUME TypeOK, QuietStep \/ LoopEnds \/ CarryOutLate
    PROVE  TypeOK'
<1>0. Flags /\ Shapes
  BY TypeParts
<1>1. /\ canceled' = canceled \/ canceled' = TRUE
      /\ disturbed' = disturbed \/ disturbed' = TRUE \/ disturbed' = FALSE
      /\ pending' = pending \/ pending' = FALSE
  BY Zenon DEF QuietStep, Dial, Beat, LoopEnds, CarryOutLate, StopEnds, Stop, CancelContext, Crash, Hang,
     Recover, Break,
     ownerVars, timerVars, callVars, redisVars, historyVars, faultVars
<1>2. Flags'
  BY Zenon, <1>0, <1>1 DEF Flags
<1>3. /\ entry' = entry \/ entry' = 0 \/ \E c \in Writes : entry' = EntryAfter(c)
      /\ missed' = missed \/ missed' = 0 \/ CountBeat
      /\ due' = due \/ due' = Interval
      /\ outages' = outages \/ (outages < Outages /\ outages' = outages + 1)
      /\ breaks' = breaks \/ (breaks < Breaks /\ breaks' = breaks + 1)
  BY Zenon DEF QuietStep, Dial, Beat, LoopEnds, CarryOutLate, StopEnds, Stop, CancelContext, Crash, Hang,
     Recover, Break,
     ownerVars, timerVars, callVars, redisVars, historyVars, faultVars
<1>4. /\ entry' \in 0 .. TTL /\ missed' \in 0 .. MissCap /\ due' \in 0 .. Interval
      /\ outages' \in 0 .. Outages /\ breaks' \in 0 .. Breaks
  <2>1. entry' \in 0 .. TTL
    BY <1>0, <1>3, EntryTyped, Times DEF Shapes
  <2>2. missed' \in 0 .. MissCap
    BY <1>0, <1>3, CountTyped DEF Shapes, MissCap
  <2> QED BY <1>0, <1>3, <2>1, <2>2, Times, BoundsAssumption DEF Shapes
<1>5. /\ caller' \in {caller, "stopped", "stopping"}
      /\ loop' \in {loop, "beating", "done"}
      /\ command' \in {command, "EXPIRE"} /\ attempt' \in {attempt, 1}
      /\ conn' \in {conn, "closed", "open", "broken"} /\ redis' \in {redis, "up", "down", "hung"}
  BY DEF QuietStep, Dial, Beat, LoopEnds, CarryOutLate, StopEnds, Stop, CancelContext, Crash, Hang,
     Recover, Break,
     ownerVars, timerVars, callVars, redisVars, historyVars, faultVars
<1>6. Shapes'
  BY <1>0, <1>4, <1>5 DEF Shapes
<1>7. LateTyped'
  BY LateStays DEF RedisStep
<1> QED BY Zenon, <1>2, <1>6, <1>7 DEF TypeOK, Flags, Shapes, LateTyped

LEMMA TickTyped ==
    ASSUME TypeOK, Tick, loop \in {"waiting", "beating"} => due > 0
    PROVE  TypeOK'
<1>0. Flags /\ Shapes
  BY TypeParts
<1>1. /\ canceled' = canceled
      /\ disturbed' = (disturbed \/ (caller = "starting" /\ entry > 0))
      /\ pending' = pending \/ pending' = TRUE
  BY Zenon DEF Tick, ownerVars, timerVars
<1>2. Flags'
  BY Zenon, <1>0, <1>1 DEF Flags
<1>3. /\ entry' = IF entry > 0 THEN entry - 1 ELSE 0
      /\ due' = due \/ due' = Interval \/ (due' = due - 1 /\ loop \in {"waiting", "beating"})
      /\ UNCHANGED <<caller, loop, command, attempt, conn, redis, missed, outages, breaks>>
  BY Zenon DEF Tick, ownerVars, timerVars, callVars, faultVars
<1>4. Shapes'
  BY <1>0, <1>3, Times DEF Shapes
<1>5. LateTyped'
  BY LateStays DEF RedisStep
<1> QED BY Zenon, <1>2, <1>4, <1>5 DEF TypeOK, Flags, Shapes, LateTyped

LEMMA CommandProgress ==
    ASSUME TypeOK, Progress, CommandStep
    PROVE  Progress'
<1>0. Shapes /\ Flags
  BY TypeParts
<1>1. canceled' = canceled /\ command # "none"
  BY CommandFacts
<1>2. ASSUME NEW connLeft, HeartbeatEnds(connLeft) PROVE Progress'
  <2>1. caller \in {"running", "stopping"}
    BY <1>0, <1>2 DEF HeartbeatEnds, Progress, Shapes
  <2> QED BY <1>1, <1>2, <2>1 DEF HeartbeatEnds, Progress
<1>3. CASE Advances
  <2>1. caller = "starting" /\ loop = "none"
    BY <1>0, <1>3 DEF Advances, Progress, Shapes
  <2>2. CASE command' = "none"
    <3>1. caller' = "running" /\ loop' = "waiting" /\ attempt' = 1
      BY <1>3, <2>2 DEF Advances
    <3> QED BY <1>1, <2>2, <3>1 DEF Progress
  <2>3. CASE command' # "none"
    <3>1. /\ caller' = "starting" /\ loop' = "none" /\ attempt' = 1
          /\ command' \in {"SADD", "PUBLISH"}
      BY <1>3, <2>1, <2>3 DEF Advances
    <3> QED BY <1>1, <3>1 DEF Progress
  <2> QED BY <2>2, <2>3
<1>4. CASE Retries
  <2>1. UNCHANGED <<caller, loop, command>> /\ attempt' = 2 /\ conn' = "closed"
    BY <1>4 DEF Retries
  <2> QED BY <1>1, <2>1 DEF Progress
<1>5. CASE StartFails
  <2>1. caller = "starting" /\ loop = "none"
    BY <1>0, <1>5 DEF StartFails, Progress, Shapes
  <2>2. caller' = "failed" /\ command' = "none" /\ conn' = "closed" /\ attempt' = 1 /\ loop' = loop
    BY <1>5 DEF StartFails
  <2> QED BY <1>1, <2>1, <2>2 DEF Progress
<1> QED BY <1>2, <1>3, <1>4, <1>5, CommandEnds

LEMMA OtherProgress ==
    ASSUME TypeOK, Progress, QuietStep \/ LoopEnds \/ CarryOutLate \/ Tick
    PROVE  Progress'
<1> USE DEF Progress, ownerVars, timerVars, callVars, redisVars, historyVars, faultVars
<1>0. Shapes
  BY TypeParts
<1>1. CASE Beat
  <2>1. /\ loop = "waiting" /\ loop' = "beating" /\ command' = "EXPIRE" /\ attempt' = 1
        /\ UNCHANGED <<caller, canceled, conn>>
    BY <1>1 DEF Beat
  <2>2. caller \in {"running", "stopping"}
    BY <1>0, <2>1 DEF Shapes
  <2> QED BY <2>1, <2>2
<1>2. CASE LoopEnds
  <2>1. /\ loop = "waiting" /\ canceled /\ loop' = "done"
        /\ UNCHANGED <<caller, canceled, command, attempt, conn>>
    BY <1>2 DEF LoopEnds
  <2>2. caller \in {"running", "stopping"}
    BY <1>0, <2>1 DEF Shapes
  <2> QED BY <2>1, <2>2
<1>3. CASE StopEnds
  <2>1. /\ loop = "done" /\ caller' = "stopped" /\ conn' = "closed" /\ caller = "stopping"
        /\ UNCHANGED <<canceled, command, attempt, loop>>
    BY <1>3 DEF StopEnds
  <2> QED BY <1>0, <2>1 DEF Shapes
<1>4. CASE Stop
  <2>1. /\ caller = "running" /\ caller' = "stopping" /\ canceled' = TRUE
        /\ UNCHANGED <<conn, command, attempt, loop>>
    BY <1>4 DEF Stop
  <2> QED BY <1>0, <2>1 DEF Shapes
<1>5. CASE CancelContext
  <2>1. canceled' = TRUE /\ UNCHANGED <<caller, conn, command, attempt, loop>>
    BY <1>5 DEF CancelContext
  <2> QED BY <1>0, <2>1 DEF Shapes
<1>6. CASE Crash \/ Hang \/ Recover \/ Break \/ Tick \/ CarryOutLate
  <2>1. /\ conn' = conn \/ (conn = "open" /\ conn' = "broken")
        /\ UNCHANGED <<caller, command, attempt, loop, canceled>>
    BY Zenon, <1>6 DEF Crash, Hang, Recover, Break, Tick, CarryOutLate
  <2> QED BY <1>0, <2>1 DEF Shapes
<1>7. CASE Dial
  <2>1. /\ command # "none" /\ conn' = "open"
        /\ UNCHANGED <<caller, canceled, command, attempt, loop>>
    BY Zenon, <1>7 DEF Dial
  <2>2. caller \notin {"stopped", "failed"}
    BY <1>0, <2>1 DEF Shapes
  <2> QED BY <2>1, <2>2
<1> QED BY Zenon, <1>1, <1>2, <1>3, <1>4, <1>5, <1>6, <1>7 DEF QuietStep

(* Flags as numbers. *)
LEMMA BehindNow ==
    ASSUME TypeOK
    PROVE  Behind = missed + (IF pending THEN 1 ELSE 0) + (IF loop = "beating" THEN 1 ELSE 0)
<1> DEFINE p == IF pending THEN 1 ELSE 0
           b == IF loop = "beating" THEN 1 ELSE 0
<1>1. Outstanding = p + b
  BY OutstandingNow
<1>2. p \in Nat /\ b \in Nat /\ missed \in Nat
  BY TypeParts DEF Shapes, MissCap
<1> HIDE DEF p, b
<1>3. Behind = missed + p + b
  BY <1>1, <1>2 DEF Behind
<1> QED BY <1>3 DEF p, b

LEMMA BehindNext ==
    ASSUME TypeOK'
    PROVE  Behind' = missed' + (IF pending' THEN 1 ELSE 0) + (IF loop' = "beating" THEN 1 ELSE 0)
<1> DEFINE p == IF pending' THEN 1 ELSE 0
           b == IF loop' = "beating" THEN 1 ELSE 0
<1>1. Outstanding' = p + b
  BY OutstandingNext
<1>2. p \in Nat /\ b \in Nat /\ missed' \in Nat
  BY DEF TypeOK, MissCap
<1> HIDE DEF p, b
<1>3. Behind' = missed' + p + b
  BY <1>1, <1>2 DEF Behind
<1> QED BY <1>3 DEF p, b

(* A whole entry is more than enough, whatever is late. *)
LEMMA WholeEntry ==
    ASSUME NEW d \in 0 .. Interval
    PROVE  TTL >= TTL - Interval + d /\ TTL >= TTL - 2 * Interval + d
<1>1. d <= Interval /\ d \in Nat
  BY Times
<1>2. TTL - Interval + d <= TTL
  BY <1>1, Times
<1>3. TTL - 2 * Interval + d <= TTL
  BY <1>1, Times
<1> QED BY <1>1, <1>2, <1>3, Times

LEMMA CommandAlive ==
    ASSUME TypeOK, TypeOK', Progress, Progress', Alive, CommandStep
    PROVE  Alive'
<1>0. Shapes
  BY TypeParts
<1>1. /\ canceled' = canceled /\ disturbed' = disturbed /\ command # "none" /\ CountBeat
      /\ entry' = entry \/ entry' = EntryAfter(command)
  BY CommandFacts
<1>2. (loop \in {"waiting", "beating"} => due > 0)' 
  <2>1. ASSUME NEW connLeft, HeartbeatEnds(connLeft) PROVE due' = due /\ due > 0
    <3>1. due' = due
      BY Zenon, <2>1 DEF HeartbeatEnds
    <3>2. loop = "beating"
      BY Zenon, <2>1 DEF HeartbeatEnds, Progress
    <3> QED BY <3>1, <3>2 DEF Alive
  <2>2. CASE Advances
    <3>1. \/ loop' = loop /\ due' = due
          \/ due' = Interval
      BY Zenon, <2>2 DEF Advances
    <3> QED BY <3>1, Times DEF Alive
  <2>3. CASE Retries \/ StartFails
    <3>1. loop' = loop /\ due' = due
      BY Zenon, <2>3 DEF Retries, StartFails
    <3> QED BY <3>1 DEF Alive
  <2> QED BY <2>1, <2>2, <2>3, CommandEnds
<1>3. (caller = "starting" /\ ~ disturbed => entry \in {0, TTL})'
  <2>1. caller' = "starting" => caller = "starting"
    <3>1. caller' = caller \/ caller' \in {"running", "failed"}
      BY CommandEnds DEF HeartbeatEnds, Advances, Retries, StartFails
    <3> QED BY <3>1
  <2>2. EntryAfter(command) \in {entry, TTL}
    BY EntryTyped
  <2>3. caller = "starting" /\ ~ disturbed => entry \in {0, TTL}
    BY DEF Alive
  <2> QED BY <1>1, <2>1, <2>2, <2>3
<1>4. (caller = "running" /\ ~ canceled /\ ~ disturbed /\ entry > 0 =>
           /\ Behind = 0 => entry >= TTL - Interval + due
           /\ Behind = 1 => entry >= TTL - 2 * Interval + due)'
  <2> SUFFICES ASSUME caller' = "running", ~ canceled', ~ disturbed', entry' > 0, entry' # TTL
               PROVE  /\ Behind' = 0 => entry' >= TTL - Interval + due'
                      /\ Behind' = 1 => entry' >= TTL - 2 * Interval + due'
    <3>1. due' \in 0 .. Interval
      BY DEF TypeOK
    <3> QED BY <3>1, WholeEntry
  <2>1. ~ Advances
    <3> SUFFICES ASSUME Advances PROVE FALSE
      OBVIOUS
    <3>1. caller = "starting"
      BY <1>0 DEF Advances, Progress, Shapes
    <3>2. command = "PUBLISH"
      BY <3>1 DEF Advances
    <3>3. entry' = entry
      BY <1>1, <3>2, EntryTyped
    <3>4. entry \in {0, TTL}
      BY <1>1, <3>1 DEF Alive
    <3> QED BY <3>3, <3>4
  <2>2. ~ StartFails
    BY DEF StartFails
  <2>3. command = "EXPIRE" /\ loop = "beating" /\ caller = "running" /\ due' = due /\ pending' = pending
    <3>1. caller = "running" /\ due' = due /\ pending' = pending
      BY Zenon, <2>1, <2>2, CommandEnds DEF HeartbeatEnds, Retries
    <3> QED BY <1>0, <1>1, <3>1 DEF Progress, Shapes
  <2>4. entry' = entry /\ ~ Succeed
    <3>1. entry > 0 /\ entry' = entry
      BY <1>0, <1>1, <2>3, EntryTyped DEF Shapes
    <3>2. EntryAfter(command) = TTL
      BY <2>3, <3>1, EntryTyped
    <3> QED BY Zenon, <3>1, <3>2 DEF Succeed
  <2>5. /\ Behind = 0 => entry >= TTL - Interval + due
        /\ Behind = 1 => entry >= TTL - 2 * Interval + due
    BY <1>1, <2>3, <2>4 DEF Alive
  <2> DEFINE p == IF pending THEN 1 ELSE 0
             p2 == IF pending' THEN 1 ELSE 0
             b == IF loop = "beating" THEN 1 ELSE 0
             b2 == IF loop' = "beating" THEN 1 ELSE 0
  <2>6. p = p2 /\ p \in {0, 1}
    BY Zenon, <2>3
  <2>7. Behind = missed + p + b /\ Behind' = missed' + p2 + b2
    BY BehindNow, BehindNext
  <2>8. b = 1
    BY <2>3
  <2>9. missed \in 0 .. 2 /\ entry \in Nat /\ entry < TTL
    BY <1>0, <2>4, Times DEF Shapes, MissCap
  <2>10. CASE Retries
    <3>1. command' = command /\ loop' = loop
      BY Zenon, <2>10 DEF Retries
    <3>2. missed' = missed
      BY <1>1, <2>3, <3>1 DEF CountBeat
    <3>3. b2 = 1
      BY <2>3, <3>1
    <3>4. Behind' = Behind
      BY <2>6, <2>7, <2>8, <3>2, <3>3
    <3> QED BY <2>3, <2>4, <2>5, <3>4
  <2>11. CASE ~ Retries
    <3>1. attempt = 2 /\ command' = "none" /\ loop' = "waiting"
      <4>1. attempt = 2 /\ ((\E connLeft : HeartbeatEnds(connLeft)) \/ StartFails)
        BY Zenon, <2>4, <2>11, CommandFacts, FailureEnds
      <4> QED BY Zenon, <2>2, <4>1 DEF HeartbeatEnds
    <3>3. missed' = IF missed < MissCap THEN missed + 1 ELSE MissCap
      BY <1>1, <2>3, <2>4, <2>9, <3>1, Times DEF CountBeat
    <3>4. b2 = 0
      BY <3>1
    <3> HIDE DEF p, p2, b, b2
    <3>5. CASE missed = 2
      <4>1. missed' = 2
        BY <3>3, <3>5 DEF MissCap
      <4> QED BY <2>6, <2>7, <3>4, <4>1
    <3>6. CASE missed # 2
      <4>1. missed' = missed + 1
        BY <2>9, <3>3, <3>6 DEF MissCap
      <4>2. Behind' = Behind
        BY <2>6, <2>7, <2>8, <2>9, <3>4, <4>1
      <4> QED BY <2>3, <2>4, <2>5, <4>2
    <3> QED BY <3>5, <3>6
  <2> QED BY <2>10, <2>11
<1> QED BY <1>2, <1>3, <1>4 DEF Alive

LEMMA QuietAlive ==
    ASSUME TypeOK, TypeOK', Progress, Alive, QuietStep
    PROVE  Alive'
<1>0. Flags /\ Shapes
  BY TypeParts
<1>1. /\ due' = due /\ missed' = missed
      /\ \/ entry' = entry /\ disturbed' = disturbed
         \/ disturbed' = TRUE
      /\ caller' = caller \/ caller' \in {"stopping", "stopped"}
  BY Zenon DEF QuietStep, Dial, Beat, StopEnds, Stop, CancelContext, Crash, Hang, Recover, Break,
     ownerVars, timerVars, callVars, redisVars, historyVars, faultVars
<1>a. canceled => canceled'
  BY Zenon DEF QuietStep, Dial, Beat, StopEnds, Stop, CancelContext, Crash, Hang, Recover, Break,
     ownerVars
<1>b. disturbed => disturbed'
  BY Zenon DEF QuietStep, Dial, Beat, StopEnds, Stop, CancelContext, Crash, Hang, Recover, Break,
     redisVars, historyVars
<1>2. \/ loop' = loop /\ pending' = pending
      \/ loop = "waiting" /\ pending /\ loop' = "beating" /\ ~ pending'
  BY Zenon DEF QuietStep, Dial, Beat, StopEnds, Stop, CancelContext, Crash, Hang, Recover, Break,
     ownerVars, timerVars, callVars, redisVars, historyVars, faultVars
<1>3. (loop \in {"waiting", "beating"} => due > 0)'
  <2>1. loop' \in {"waiting", "beating"} => loop \in {"waiting", "beating"}
    BY <1>2
  <2> QED BY <1>1, <2>1 DEF Alive
<1>4. (caller = "starting" /\ ~ disturbed => entry \in {0, TTL})'
  BY <1>1 DEF Alive
<1>5. (caller = "running" /\ ~ canceled /\ ~ disturbed /\ entry > 0 =>
           /\ Behind = 0 => entry >= TTL - Interval + due
           /\ Behind = 1 => entry >= TTL - 2 * Interval + due)'
  <2> SUFFICES ASSUME caller' = "running", ~ canceled', ~ disturbed', entry' > 0
               PROVE  (/\ Behind = 0 => entry >= TTL - Interval + due
                       /\ Behind = 1 => entry >= TTL - 2 * Interval + due)'
    OBVIOUS
  <2>1. caller = "running" /\ entry' = entry
    BY <1>1
  <2>2. ~ canceled /\ ~ disturbed
    BY Zenon, <1>a, <1>b
  <2> DEFINE p == IF pending THEN 1 ELSE 0
             p2 == IF pending' THEN 1 ELSE 0
             b == IF loop = "beating" THEN 1 ELSE 0
             b2 == IF loop' = "beating" THEN 1 ELSE 0
  <2>3. \/ p = p2 /\ b = b2
        \/ p = 1 /\ b = 0 /\ p2 = 0 /\ b2 = 1
    <3>1. CASE loop' = loop /\ pending' = pending
      BY Zenon, <3>1
    <3>2. CASE loop = "waiting" /\ pending /\ loop' = "beating" /\ ~ pending'
      <4>1. p = 1 /\ p2 = 0
        BY Zenon, <3>2
      <4> QED BY <3>2, <4>1
    <3> QED BY Zenon, <1>2, <2>2, <3>1, <3>2
  <2>4. Behind = missed + p + b /\ Behind' = missed' + p2 + b2
    BY BehindNow, BehindNext
  <2>5. p \in {0, 1} /\ missed \in Nat
    BY <1>0 DEF Shapes, MissCap
  <2>6. b \in {0, 1}
    OBVIOUS
  <2> HIDE DEF p, p2, b, b2
  <2>7. Behind' = Behind
    BY <1>1, <2>3, <2>4, <2>5, <2>6
  <2> QED BY <1>1, <2>1, <2>2, <2>7 DEF Alive
<1> QED BY <1>3, <1>4, <1>5 DEF Alive

LEMMA LoopEndsAlive ==
    ASSUME TypeOK, Progress, Alive, LoopEnds
    PROVE  Alive'
<1>1. loop = "waiting" /\ loop' = "done" /\ canceled' /\ caller' = caller
  BY Zenon DEF LoopEnds, ownerVars
<1>2. caller' # "starting"
  BY <1>1 DEF Progress
<1>3. ~ (caller' = "running" /\ ~ canceled')
  BY Zenon, <1>1
<1> QED BY Zenon, <1>1, <1>2, <1>3, DoneIsOver DEF Alive

(* What Redis carries out late gives the entry all of its time to live again,
   or leaves it as it was. *)
LEMMA CarryOutAlive ==
    ASSUME TypeOK, TypeOK', Alive, CarryOutLate
    PROVE  Alive'
<1>0. Flags /\ Shapes
  BY TypeParts
<1>1. /\ UNCHANGED <<caller, canceled, loop, due, pending, command, disturbed>>
      /\ CountBeat
      /\ \E c \in Writes : entry' = EntryAfter(c)
  BY Zenon DEF CarryOutLate, ownerVars, timerVars, callVars
<1>2. entry' = entry \/ entry' = TTL
  BY <1>1, EntryTyped
<1>3. (loop \in {"waiting", "beating"} => due > 0)'
  BY <1>1 DEF Alive
<1>4. (caller = "starting" /\ ~ disturbed => entry \in {0, TTL})'
  <2>1. (caller' = "starting" => caller = "starting") /\ (disturbed => disturbed')
    BY Zenon, <1>1
  <2> QED BY <1>2, <2>1 DEF Alive
<1>5. (caller = "running" /\ ~ canceled /\ ~ disturbed /\ entry > 0 =>
           /\ Behind = 0 => entry >= TTL - Interval + due
           /\ Behind = 1 => entry >= TTL - 2 * Interval + due)'
  <2> SUFFICES ASSUME caller' = "running", ~ canceled', ~ disturbed', entry' > 0, entry' # TTL
               PROVE  /\ Behind' = 0 => entry' >= TTL - Interval + due'
                      /\ Behind' = 1 => entry' >= TTL - 2 * Interval + due'
    <3>1. due' \in 0 .. Interval
      BY DEF TypeOK
    <3> QED BY <3>1, WholeEntry
  <2>1. entry' = entry /\ caller = "running" /\ due' = due
    BY <1>1, <1>2
  <2>2. ~ canceled /\ ~ disturbed
    BY Zenon, <1>1
  <2>3. missed' = missed
    BY <1>0, <1>1 DEF CountBeat, Shapes
  <2>4. Behind' = Behind
    BY Zenon, <1>1, <2>3 DEF Behind, Outstanding
  <2> QED BY <2>1, <2>2, <2>4 DEF Alive
<1> QED BY <1>3, <1>4, <1>5 DEF Alive

(* A tick takes one from the entry and one from the ticker; a ticker that
   fires takes an interval from what is left after the next firing. *)
LEMMA TickAlive ==
    ASSUME TypeOK, TypeOK', Progress, Alive, Tick
    PROVE  Alive'
<1>0. Flags /\ Shapes
  BY TypeParts
<1>1. /\ entry' = IF entry > 0 THEN entry - 1 ELSE 0
      /\ UNCHANGED <<caller, loop, missed, canceled>>
  BY Zenon DEF Tick, ownerVars
<1>2. disturbed' = (disturbed \/ (caller = "starting" /\ entry > 0))
  BY Zenon DEF Tick
<1>3. loop \in {"waiting", "beating"} =>
         \/ due = 1 /\ due' = Interval /\ pending' = TRUE
         \/ due # 1 /\ due' = due - 1 /\ pending' = pending
  BY Zenon DEF Tick
<1>4. (loop \in {"waiting", "beating"} => due > 0)'
  <2> SUFFICES ASSUME loop' \in {"waiting", "beating"} PROVE due' > 0
    OBVIOUS
  <2>1. loop \in {"waiting", "beating"}
    BY <1>1
  <2>2. due > 0
    BY <2>1 DEF Alive
  <2>3. due' = Interval \/ (due # 1 /\ due' = due - 1)
    BY Zenon, <1>3, <2>1
  <2> QED BY <1>0, <2>2, <2>3, Times DEF Shapes
<1>5. (caller = "starting" /\ ~ disturbed => entry \in {0, TTL})'
  <2> SUFFICES ASSUME caller' = "starting", ~ disturbed' PROVE entry' = 0
    OBVIOUS
  <2>1. caller = "starting"
    BY <1>1
  <2>2. ~ (entry > 0)
    BY Zenon, <1>2, <2>1
  <2> QED BY <1>1, <2>2
<1>6. (caller = "running" /\ ~ canceled /\ ~ disturbed /\ entry > 0 =>
           /\ Behind = 0 => entry >= TTL - Interval + due
           /\ Behind = 1 => entry >= TTL - 2 * Interval + due)'
  <2> SUFFICES ASSUME caller' = "running", ~ canceled', ~ disturbed', entry' > 0
               PROVE  (/\ Behind = 0 => entry >= TTL - Interval + due
                       /\ Behind = 1 => entry >= TTL - 2 * Interval + due)'
    OBVIOUS
  <2>1. ~ canceled /\ ~ disturbed
    BY Zenon, <1>1, <1>2
  <2>2. caller = "running" /\ entry \in Nat /\ entry > 0 /\ entry' = entry - 1
    BY <1>0, <1>1 DEF Shapes
  <2>3. loop \in {"waiting", "beating"}
    <3>1. loop \in {"waiting", "beating", "done"}
      BY <2>2 DEF Progress
    <3>2. loop # "done"
      BY Zenon, <2>1, <2>2, StoppingIsNotRunning DEF Progress
    <3> QED BY <3>1, <3>2
  <2>4. /\ Behind = 0 => entry >= TTL - Interval + due
        /\ Behind = 1 => entry >= TTL - 2 * Interval + due
    BY <2>1, <2>2 DEF Alive
  <2>5. due \in Nat /\ due > 0
    BY <1>0, <2>3 DEF Alive, Shapes
  <2> DEFINE p == IF pending THEN 1 ELSE 0
             p2 == IF pending' THEN 1 ELSE 0
             b == IF loop = "beating" THEN 1 ELSE 0
             b2 == IF loop' = "beating" THEN 1 ELSE 0
  <2>6. Behind = missed + p + b /\ Behind' = missed + p2 + b2
    BY <1>1, BehindNow, BehindNext
  <2>7. b = b2
    BY <1>1
  <2>8. missed \in Nat /\ p \in {0, 1}
    BY <1>0 DEF Shapes, MissCap
  <2>9. b \in {0, 1}
    OBVIOUS
  <2>10. CASE due = 1 /\ due' = Interval /\ pending' = TRUE
    <3>1. p2 = 1
      BY Zenon, <2>10
    <3>2. p = 1 => b = 1
      <4>1. pending => loop # "waiting"
        BY Zenon DEF Tick, Busy
      <4>2. p = 1 => pending
        BY Zenon, ZeroIsNotOne
      <4>3. p = 1 => loop = "beating"
        BY <2>3, <4>1, <4>2
      <4> QED BY <4>3
    <3> HIDE DEF p, p2, b, b2
    <3>3. CASE p = 1
      <4>1. Behind' # 0 /\ Behind' # 1
        BY <2>6, <2>7, <2>8, <3>1, <3>2, <3>3
      <4> QED BY <4>1
    <3>4. CASE p = 0
      <4>1. Behind' = Behind + 1 /\ Behind \in Nat
        BY <2>6, <2>7, <2>8, <2>9, <3>1, <3>4
      <4> QED BY <2>2, <2>4, <2>10, <4>1, Times
    <3> QED BY <2>8, <3>3, <3>4
  <2>11. CASE due # 1 /\ due' = due - 1 /\ pending' = pending
    <3>1. p2 = p
      BY Zenon, <2>11
    <3> HIDE DEF p, p2, b, b2
    <3>2. Behind' = Behind
      BY <2>6, <2>7, <3>1
    <3> QED BY <2>2, <2>4, <2>5, <2>11, <3>2, Times
  <2> QED BY Zenon, <1>3, <2>3, <2>10, <2>11
<1> QED BY <1>4, <1>5, <1>6 DEF Alive

LEMMA RegistrationInit == Init => RegistrationInv
<1> SUFFICES ASSUME Init PROVE RegistrationInv
  OBVIOUS
<1>1. Flags
  BY Zenon DEF Init, Flags
<1>2. Shapes
  BY Times, BoundsAssumption DEF Init, Shapes, MissCap
<1>3. Progress
  BY DEF Init, Progress
<1>4. Alive
  BY Times DEF Init, Alive
<1>5. LateTyped
  BY DEF Init, NoneLate, LateTyped
<1> QED BY <1>1, <1>2, <1>3, <1>4, <1>5, TypeParts DEF RegistrationInv

LEMMA RegistrationNext == RegistrationInv /\ (RedisStep \/ UNCHANGED vars) => RegistrationInv'
<1> SUFFICES ASSUME RegistrationInv, RedisStep \/ UNCHANGED vars PROVE RegistrationInv'
  OBVIOUS
<1>0. TypeOK /\ Progress /\ Alive
  BY DEF RegistrationInv
<1>1. CASE CommandStep
  BY <1>0, <1>1, CommandTyped, CommandProgress, CommandAlive DEF RegistrationInv
<1>2. CASE QuietStep \/ LoopEnds \/ CarryOutLate
  <2>1. TypeOK' /\ Progress'
    BY <1>0, <1>2, OtherTyped, OtherProgress
  <2>2. Alive'
    BY <1>0, <1>2, <2>1, QuietAlive, LoopEndsAlive, CarryOutAlive
  <2> QED BY <2>1, <2>2 DEF RegistrationInv
<1>3. CASE Tick
  <2>1. TypeOK'
    BY Zenon, <1>0, <1>3, TickTyped DEF Alive
  <2>2. Progress'
    BY <1>0, <1>3, OtherProgress
  <2>3. Alive'
    BY <1>0, <1>3, <2>1, TickAlive
  <2> QED BY <2>1, <2>2, <2>3 DEF RegistrationInv
<1>4. CASE UNCHANGED vars
  <2>1. TypeOK' /\ Progress' /\ Alive'
    BY Zenon, <1>0, <1>4 DEF vars, TypeOK, Progress, Alive, Behind, Outstanding
  <2> QED BY <2>1 DEF RegistrationInv
<1> QED BY Zenon, <1>1, <1>2, <1>3, <1>4 DEF RedisStep

LEMMA MultiIsRedis == MultiNext => RedisStep \/ UNCHANGED vars
BY Zenon DEF MultiNext, RedisStep, OwnerRuns, StartNext, StopNext, StopRedis, StopSecond, StopAll,
   StopAgain, CancelOwner, RedisRuns, RedisDisturbed, RedisRecovers, TimePasses, SecondRuns,
   AnnouncerEnds, ConsulAnswers, Service, Faults, CommandStep, QuietStep, StartMDNS, StopMDNS,
   StartConsul, StopConsul, BeatsEnd, Registered, Deregistered

(* The Redis registration, whatever the second one and the owner do: its types,
   how far it has come, and what is left of the entry's time to live
   (registration.go:9-47, redis.go:31-152). *)
THEOREM RegistrationHolds == MultiSpec => []RegistrationInv
<1>1. MultiInit => RegistrationInv
  BY RegistrationInit DEF MultiInit
<1>2. RegistrationInv /\ [MultiNext]_allVars => RegistrationInv'
  <2>1. UNCHANGED allVars => UNCHANGED vars
    BY DEF allVars
  <2> QED BY Zenon, <2>1, MultiIsRedis, RegistrationNext
<1> QED BY <1>1, <1>2, PTL DEF MultiSpec

-----------------------------------------------------------------------------
(* The entry's life. *)

(* An entry goes only by time or with Redis's data. *)
LEMMA LapseIsTickOrLoss ==
    ASSUME TypeOK, RedisStep \/ UNCHANGED vars, entry > 0, entry' = 0
    PROVE  Tick \/ disturbed'
<1>0. Shapes /\ \A c : EntryAfter(c) > 0
  BY TypeParts, EntryTyped
<1>1. entry' # entry /\ \A c : entry' # EntryAfter(c)
  BY <1>0
<1>2. ~ CommandStep
  BY Zenon, <1>1, CommandFacts
<1>3. ~ (Dial \/ Beat \/ LoopEnds \/ StopEnds \/ Stop \/ CancelContext \/ Hang \/ Recover \/ Break
         \/ CarryOutLate)
  BY Zenon, <1>1 DEF Dial, Beat, LoopEnds, StopEnds, Stop, CancelContext, Hang, Recover, Break,
     CarryOutLate, redisVars
<1>4. Crash => disturbed'
  BY Zenon, <1>1 DEF Crash
<1> QED BY Zenon, <1>1, <1>2, <1>3, <1>4 DEF RedisStep, QuietStep, vars

LEMMA LapseIsLate ==
    ASSUME RegistrationInv, RegistrationInv', RedisStep \/ UNCHANGED vars,
           caller = "running", ~ canceled, entry > 0, entry' = 0, ~ disturbed'
    PROVE  Behind' >= 2
<1>0. TypeOK /\ TypeOK' /\ Progress /\ Alive
  BY DEF RegistrationInv
<1>1. Flags /\ Shapes /\ Tick
  BY Zenon, <1>0, TypeParts, LapseIsTickOrLoss
<1>2. UNCHANGED <<loop, missed>> /\ entry' = (IF entry > 0 THEN entry - 1 ELSE 0)
  BY Zenon, <1>1 DEF Tick
<1>3. ~ disturbed /\ (pending' = pending \/ pending' = TRUE)
  BY Zenon, <1>1 DEF Tick, timerVars
<1>4. entry = 1
  BY <1>1, <1>2 DEF Shapes
<1>5. loop \in {"waiting", "beating"}
  <2>1. loop \in {"waiting", "beating", "done"}
    BY <1>0 DEF Progress
  <2>2. loop # "done"
    BY Zenon, <1>0, StoppingIsNotRunning DEF Progress
  <2> QED BY <2>1, <2>2
<1>6. due \in Nat /\ due > 0
  BY <1>0, <1>1, <1>5 DEF Alive, Shapes
<1>7. /\ Behind = 0 => entry >= TTL - Interval + due
      /\ Behind = 1 => entry >= TTL - 2 * Interval + due
  BY <1>0, <1>3 DEF Alive
<1>8. Behind # 0 /\ Behind # 1
  BY <1>4, <1>6, <1>7, Times
<1> DEFINE p == IF pending THEN 1 ELSE 0
           p2 == IF pending' THEN 1 ELSE 0
           b == IF loop = "beating" THEN 1 ELSE 0
<1>9. Behind = missed + p + b /\ Behind' = missed + p2 + b
  BY <1>0, <1>2, BehindNow, BehindNext
<1>10. p2 = p \/ p2 = 1
  <2>1. CASE pending' = pending
    BY Zenon, <2>1
  <2>2. CASE pending'
    BY Zenon, <2>2
  <2> QED BY Zenon, <1>3, <2>1, <2>2
<1>11. p \in {0, 1} /\ missed \in Nat
  BY <1>1 DEF Shapes, MissCap
<1>12. b \in {0, 1}
  OBVIOUS
<1> HIDE DEF p, p2, b
<1> QED BY <1>8, <1>9, <1>10, <1>11, <1>12

(* A running service's entry lapses only when two heartbeats in a row were
   missed or are kept waiting by a hung Redis, or Redis lost the entry or hung
   while it was registered (redis.go:81-89, registration.go:28), for every time
   to live of at least three heartbeat intervals: the entry never has less left
   than the heartbeats that are late have cost it. *)
THEOREM LapseIsEarned == MultiSpec => LapseNeedsMissedBeats
<1>1. RegistrationInv /\ RegistrationInv' /\ [MultiNext]_allVars =>
        [(caller = "running") /\ ~ canceled /\ entry > 0 /\ entry' = 0
           => (missed + Outstanding >= 2 \/ disturbed)']_vars
  <2> SUFFICES ASSUME RegistrationInv, RegistrationInv', [MultiNext]_allVars,
                      caller = "running", ~ canceled, entry > 0, entry' = 0, ~ disturbed'
               PROVE  missed' + Outstanding' >= 2
    BY Zenon
  <2>1. RedisStep \/ UNCHANGED vars
    BY Zenon, MultiIsRedis DEF allVars
  <2>2. Behind' >= 2
    BY <2>1, LapseIsLate
  <2> QED BY <2>2 DEF Behind
<1> QED BY <1>1, RegistrationHolds, PTL DEF MultiSpec, LapseNeedsMissedBeats

-----------------------------------------------------------------------------
(* The second registration. *)

(* What the first call of Stop returned is what later calls leave it. *)
LEMMA AnotherResult ==
    ASSUME NEW s \in Seq(Outcome), Len(s) = 1
    PROVE  /\ Append(s, "nil") \in Seq(Outcome) /\ Len(Append(s, "nil")) = 2
           /\ Append(s, "nil") # <<>> /\ Append(s, "nil")[1] = s[1]
<1>1. "nil" \in Outcome
  BY DEF Outcome
<1> DEFINE t == Append(s, "nil")
<1>2. /\ t \in Seq(Outcome) /\ t # <<>> /\ Len(t) = Len(s) + 1
      /\ \A i \in 1 .. Len(s) : t[i] = s[i]
  BY <1>1, AppendProperties
<1> HIDE DEF t
<1>3. 1 \in 1 .. Len(s) /\ Len(t) = 2
  BY <1>2
<1>4. t[1] = s[1]
  BY <1>2, <1>3
<1> QED BY <1>2, <1>3, <1>4 DEF t

LEMMA OneResult ==
    ASSUME NEW r \in Outcome
    PROVE  <<r>> \in Seq(Outcome) /\ Len(<<r>>) = 1 /\ <<r>> # <<>> /\ <<r>>[1] = r
BY EmptySeq

LEMMA SecondInit == MultiInit => SecondInv
<1>1. <<>> \in Seq(Outcome) /\ Len(<<>>) = 0
  BY EmptySeq
<1> QED BY <1>1 DEF MultiInit, SecondInv, Second, Results

(* The steps that leave the second registration alone. *)
LEMMA SecondKept ==
    ASSUME \/ StartNext \/ StopAll \/ CancelOwner \/ StopRedis \/ RedisRuns \/ RedisDisturbed
           \/ RedisRecovers \/ TimePasses \/ AnnouncerEnds \/ BeatsEnd \/ UNCHANGED allVars
    PROVE  UNCHANGED <<second, request, reg, socket, results, listed>>
BY Zenon DEF StartNext, StopAll, CancelOwner, StopRedis, RedisRuns, RedisDisturbed, RedisRecovers,
   TimePasses, AnnouncerEnds, BeatsEnd, allVars, multiVars

(* Only an answer of Consul lists the service, and only a stopping registration
   waits for one that takes it off. *)
LEMMA SecondNext == SecondInv /\ [MultiNext]_allVars => SecondInv'
<1> SUFFICES ASSUME Second, Results, [MultiNext]_allVars
             PROVE  Second' /\ Results'
  BY DEF SecondInv
<1>1. CASE StartMDNS
  <2>1. /\ reg = "none" /\ second = "mdns" /\ UNCHANGED <<second, results, request>>
        /\ \/ reg' = "running"
           \/ reg' = "failed" /\ socket' = "closed"
    BY Zenon, <1>1 DEF StartMDNS, CloseMDNS, OpenSocket
  <2>2. ~ listed'
    BY Zenon, <1>1 DEF StartMDNS, Second
  <2> QED BY <2>1, <2>2 DEF Second, Results
<1>2. CASE StopMDNS
  <2>1. /\ reg = "stopping" /\ second = "mdns" /\ reg' = "stopped" /\ socket' = "closed"
        /\ UNCHANGED <<second, results, request>>
    BY Zenon, <1>2 DEF StopMDNS, CloseMDNS
  <2>2. ~ listed'
    BY Zenon, <1>2 DEF StopMDNS, Second
  <2> QED BY <2>1, <2>2 DEF Second, Results
<1>3. CASE StartConsul \/ StopConsul
  <2>1. /\ second = "consul"
        /\ \/ reg = "none" /\ request' = "register"
           \/ reg = "stopping" /\ request' = "deregister"
        /\ UNCHANGED <<second, results, reg, socket>>
    BY Zenon, <1>3 DEF StartConsul, StopConsul
  <2>2. listed' => listed
    BY Zenon, <1>3 DEF StartConsul, StopConsul
  <2> QED BY <2>1, <2>2 DEF Second, Results
<1>4. CASE Registered
  <2>1. /\ request = "register" /\ request' = "none" /\ reg' \in {"running", "failed"}
        /\ UNCHANGED <<second, results, socket>>
    BY <1>4 DEF Registered
  <2>2. second = "consul" /\ socket = "closed"
    BY <2>1 DEF Second
  <2> QED BY <2>1, <2>2 DEF Second, Results
<1>5. CASE Deregistered
  <2>1. /\ request = "deregister" /\ request' = "none" /\ reg' = "stopped"
        /\ UNCHANGED <<second, socket>>
    BY Zenon, <1>5 DEF Deregistered
  <2>2. \/ ~ listed' /\ results' = results
        \/ results' = <<"error">>
    BY Zenon, <1>5 DEF Deregistered, Deregister
  <2>3. second = "consul" /\ socket = "closed"
    BY <2>1 DEF Second
  <2>4. "error" \in Outcome
    BY DEF Outcome
  <2>5. CASE ~ listed' /\ results' = results
    <3>1. Results'
      BY <2>5 DEF Results
    <3> QED BY <2>1, <2>3, <2>5, <3>1 DEF Second
  <2>6. CASE results' = <<"error">>
    <3>1. Results' /\ results' # <<>> /\ results'[1] = "error"
      BY <2>4, <2>6, OneResult DEF Results
    <3> QED BY <2>1, <2>3, <3>1 DEF Second
  <2> QED BY Zenon, <2>2, <2>5, <2>6
<1>6. CASE StopSecond
  <2>1. reg = "running" /\ reg' = "stopping" /\ UNCHANGED <<second, results, request, socket>>
    BY Zenon, <1>6 DEF StopSecond
  <2>2. listed' => listed
    BY Zenon, <1>6 DEF StopSecond
  <2> QED BY <2>1, <2>2 DEF Second, Results
<1>7. CASE StopNext \/ StopAgain
  <2>1. UNCHANGED <<second, request, reg, socket, listed>>
    BY Zenon, <1>7 DEF StopNext, StopAgain
  <2>2. \/ results = <<>> /\ results' = <<"nil">>
        \/ results' = results
        \/ Len(results) = 1 /\ results' = Append(results, "nil")
    BY Zenon, <1>7 DEF StopNext, StopAgain
  <2>3. "nil" \in Outcome
    BY DEF Outcome
  <2>4. Results' /\ (results # <<>> => results' # <<>> /\ results'[1] = results[1])
    <3>1. CASE results = <<>> /\ results' = <<"nil">>
      BY <2>3, <3>1, OneResult DEF Results
    <3>2. CASE results' = results
      BY <3>2 DEF Results
    <3>3. CASE Len(results) = 1 /\ results' = Append(results, "nil")
      BY <3>3, AnotherResult DEF Results
    <3> QED BY <2>2, <3>1, <3>2, <3>3
  <2>5. Second'
    BY Zenon, <2>1, <2>4 DEF Second
  <2> QED BY <2>4, <2>5
<1>8. CASE UNCHANGED <<second, request, reg, socket, results, listed>>
  BY Zenon, <1>8 DEF Second, Results
<1> QED BY Zenon, <1>1, <1>2, <1>3, <1>4, <1>5, <1>6, <1>7, <1>8, SecondKept
        DEF MultiNext, OwnerRuns, SecondRuns, ConsulAnswers

LEMMA SecondHolds == MultiSpec => []SecondInv
BY SecondInit, SecondNext, PTL DEF MultiSpec

(* The first Stop returns no error only if no provider it stopped lists the
   service any more (registration.go:40-46, env.go:47-55): a listing that a
   stopped registration left behind has its error in the first place of the
   results, where nothing overwrites it. *)
THEOREM CleanStopIsClean == MultiSpec => []CleanStopUnlists
<1>1. SecondInv => CleanStopUnlists
  BY StoppingIsNotRunning DEF SecondInv, Second, CleanStopUnlists
<1> QED BY <1>1, SecondHolds, PTL

-----------------------------------------------------------------------------
(* After the end. *)

(* The entry grows only by what Redis has left to carry out. *)
Silent ==
    /\ caller' = caller /\ command' = "none" /\ conn' = "closed"
    /\ \A c \in Writes : late'[c] <= late[c]
    /\ entry' > entry => \E c \in Writes : late'[c] < late[c]

LEMMA RedisSilent ==
    ASSUME RegistrationInv, RedisStep \/ UNCHANGED vars, caller \in {"stopped", "failed"}
    PROVE  Silent
<1>0. TypeOK /\ Shapes /\ LateTyped /\ Progress
  BY TypeParts DEF RegistrationInv
<1>1. command = "none" /\ loop \in {"none", "done"} /\ conn = "closed"
  BY <1>0 DEF Progress, Shapes
<1>2. ~ CommandStep
  BY <1>1, CommandFacts
<1>3. ~ (Dial \/ Beat \/ LoopEnds \/ StopEnds \/ Stop \/ Break)
  BY <1>1 DEF Dial, Beat, LoopEnds, StopEnds, Stop, Break
<1>4. CASE CancelContext \/ Hang \/ Recover \/ UNCHANGED vars
  <2>1. UNCHANGED <<caller, command, conn, entry, late>>
    BY Zenon, <1>4 DEF CancelContext, Hang, Recover, vars, ownerVars, callVars, redisVars
  <2>2. (\A c \in Writes : late'[c] <= late[c]) /\ ~ (entry' > entry)
    BY <1>0, <2>1 DEF LateTyped, Shapes
  <2> QED BY <1>1, <2>1, <2>2 DEF Silent
<1>5. CASE Crash
  <2>1. /\ caller' = caller /\ command' = command
        /\ conn' = IF conn = "open" THEN "broken" ELSE conn
        /\ late' = NoneLate /\ (entry' = entry \/ entry' = 0)
    BY Zenon, <1>5 DEF Crash, ownerVars, callVars
  <2>2. (\A c \in Writes : late'[c] <= late[c]) /\ ~ (entry' > entry)
    BY <1>0, <2>1 DEF LateTyped, NoneLate, Shapes
  <2> QED BY <1>1, <2>1, <2>2 DEF Silent
<1>6. CASE Tick
  <2>1. /\ UNCHANGED <<caller, command, conn, late>>
        /\ entry' = IF entry > 0 THEN entry - 1 ELSE 0
    BY Zenon, <1>6 DEF Tick, ownerVars, callVars
  <2>2. (\A c \in Writes : late'[c] <= late[c]) /\ ~ (entry' > entry)
    BY <1>0, <2>1 DEF LateTyped, Shapes
  <2> QED BY <1>1, <2>1, <2>2 DEF Silent
<1>7. CASE CarryOutLate
  <2>1. UNCHANGED <<caller, command, conn>>
    BY Zenon, <1>7 DEF CarryOutLate, ownerVars, callVars
  <2>2. PICK c \in Writes : late[c] > 0 /\ late' = [late EXCEPT ![c] = @ - 1]
    BY Zenon, <1>7 DEF CarryOutLate
  <2>3. late'[c] < late[c] /\ \A d \in Writes : late'[d] <= late[d]
    BY <1>0, <2>2 DEF LateTyped
  <2> QED BY <1>1, <2>1, <2>3 DEF Silent
<1> QED BY Zenon, <1>2, <1>3, <1>4, <1>5, <1>6, <1>7 DEF RedisStep, QuietStep

LEMMA SecondSilent ==
    ASSUME Second, [MultiNext]_allVars, reg \in {"stopped", "failed"}
    PROVE  reg' = reg /\ socket' = "closed" /\ (listed' => listed)
<1>1. socket = "closed" /\ request = "none"
  <2>1. /\ request \in {"none", "register", "deregister"}
        /\ request = "register" => reg = "none"
        /\ request = "deregister" => reg = "stopping"
        /\ socket # "closed" => reg \in {"running", "stopping"}
    BY Zenon DEF Second
  <2> QED BY <2>1
<1>2. ~ (StartMDNS \/ StopMDNS \/ StartConsul \/ StopConsul \/ Registered \/ Deregistered
         \/ StopSecond)
  BY <1>1 DEF StartMDNS, StopMDNS, StartConsul, StopConsul, Registered, Deregistered, StopSecond
<1>3. CASE StopNext \/ StopAgain
  <2>1. UNCHANGED <<reg, socket, listed>>
    BY Zenon, <1>3 DEF StopNext, StopAgain
  <2> QED BY Zenon, <1>1, <2>1
<1>4. CASE UNCHANGED <<second, request, reg, socket, results, listed>>
  BY Zenon, <1>1, <1>4
<1> QED BY Zenon, <1>2, <1>3, <1>4, SecondKept DEF MultiNext, OwnerRuns, SecondRuns, ConsulAnswers

(* Once a provider's Stop has returned, or StartFromEnv has given it up, the
   service holds no connection and no socket of it, nothing opens one or sends
   a command again, and the entry grows only by a command of the time before,
   which Redis takes off its hands (registration.go:35-41, env.go:38-41,
   redis.go:75-89, mdns.go:73-98): by then no command, no heartbeat and no
   request of it is under way, so none can finish late. *)
THEOREM EndIsSilent == MultiSpec => SilentAfterStop
<1> DEFINE Quiet == /\ caller \in {"stopped", "failed"} => Silent
                    /\ (reg \in {"stopped", "failed"})
                          => reg' = reg /\ socket' = "closed" /\ (listed' => listed)
<1>1. RegistrationInv /\ SecondInv /\ [MultiNext]_allVars => [Quiet]_allVars
  <2> SUFFICES ASSUME RegistrationInv, SecondInv, [MultiNext]_allVars
               PROVE  Quiet
    BY Zenon
  <2>1. RedisStep \/ UNCHANGED vars
    BY Zenon, MultiIsRedis DEF allVars
  <2> QED BY Zenon, <2>1, RedisSilent, SecondSilent DEF SecondInv
<1>2. [][Quiet]_allVars => SilentAfterStop
  BY DEF SilentAfterStop, Silent
<1> HIDE DEF Quiet
<1> QED BY <1>1, <1>2, RegistrationHolds, SecondHolds, PTL DEF MultiSpec
-----------------------------------------------------------------------------
(* The lease. *)

(* The holder's place from the caller's. *)
LEMMA HolderIs ==
    /\ caller = "starting" => Holder = "registering"
    /\ caller = "running" => Holder = "running"
    /\ caller = "stopping" => Holder = "leaving"
    /\ caller \in {"stopped", "failed"} => Holder = "gone"
BY DEF Holder

LEMMA HolderNext ==
    /\ caller' = "starting" => Holder' = "registering"
    /\ caller' = "running" => Holder' = "running"
    /\ caller' = "stopping" => Holder' = "leaving"
    /\ caller' \in {"stopped", "failed"} => Holder' = "gone"
    /\ caller' = caller => Holder' = Holder
BY DEF Holder

(* What Redis may carry out late, as the lease's requests. *)
Asked == [grant |-> late["SET"], renew |-> late["EXPIRE"]]

LEMMA AskedIs ==
    ASSUME LateTyped, LateTyped'
    PROVE  /\ late' = late => Asked' = Asked
           /\ late' = NoneLate => Asked' = Lease!Nothing
           /\ late' = [late EXCEPT !["SET"] = @ + 1] => Asked' = [Asked EXCEPT !.grant = @ + 1]
           /\ late' = [late EXCEPT !["EXPIRE"] = @ + 1] => Asked' = [Asked EXCEPT !.renew = @ + 1]
           /\ late' = [late EXCEPT !["SET"] = @ - 1] => Asked' = [Asked EXCEPT !.grant = @ - 1]
           /\ late' = [late EXCEPT !["EXPIRE"] = @ - 1] => Asked' = [Asked EXCEPT !.renew = @ - 1]
           /\ Asked.grant = late["SET"] /\ Asked.renew = late["EXPIRE"]
BY DEF Asked, LateTyped, NoneLate, Writes, Lease!Nothing

(* A command either leaves a request behind, or does something to the entry. *)
LEMMA CommandLate ==
    ASSUME TypeOK, CommandStep
    PROVE  \/ late' = late
           \/ command \in Writes /\ late' = [late EXCEPT ![command] = @ + 1] /\ entry' = entry
<1>0. LateTyped
  BY TypeParts
<1>1. CASE CutOff
  <2>1. /\ entry' = entry
        /\ \/ late' = late
           \/ late' = [c \in Writes |-> late[c] + (IF c = command THEN 1 ELSE 0)]
    BY Zenon, <1>1 DEF CutOff
  <2>2. CASE late' = [c \in Writes |-> late[c] + (IF c = command THEN 1 ELSE 0)]
    <3>1. CASE command \in Writes
      <4> DEFINE more == [late EXCEPT ![command] = @ + 1]
      <4>1. /\ more \in [Writes -> Nat]
            /\ \A c \in Writes : more[c] = IF c = command THEN late[c] + 1 ELSE late[c]
        BY <1>0, <3>1 DEF LateTyped
      <4>2. /\ late' \in [Writes -> Nat]
            /\ \A c \in Writes : late'[c] = IF c = command THEN late[c] + 1 ELSE late[c]
        BY <1>0, <2>2 DEF LateTyped
      <4> HIDE DEF more
      <4>3. late' = more
        BY <4>1, <4>2
      <4> QED BY <2>1, <3>1, <4>3 DEF more
    <3>2. CASE command \notin Writes
      <4>1. late' = late
        BY <1>0, <2>2, <3>2 DEF LateTyped
      <4> QED BY <4>1
    <3> QED BY <3>1, <3>2
  <2> QED BY <2>1, <2>2
<1>2. CASE Succeed \/ Unreachable \/ Refuse
  BY Zenon, <1>2 DEF Succeed, Unreachable, Refuse
<1> QED BY Zenon, <1>1, <1>2 DEF CommandStep

LEMMA CommandLease ==
    ASSUME TypeOK, Progress, CommandStep
    PROVE  Lease!Next \/ UNCHANGED <<Holder, entry, Asked>>
<1>0. Shapes /\ LateTyped /\ LateTyped'
  BY TypeParts, LateStays DEF RedisStep
<1>1. entry' = entry \/ entry' = EntryAfter(command)
  BY CommandFacts
<1>2. /\ loop = "beating" <=> command = "EXPIRE"
      /\ caller = "failed" => loop = "none"
      /\ caller = "stopped" => loop = "done"
      /\ caller = "starting" => command \in {"SET", "SADD", "PUBLISH"}
      /\ caller # "starting" => command \in {"none", "EXPIRE"}
  BY Zenon DEF Progress
<1>3. CASE command = "EXPIRE"
  <2>1. caller \in {"running", "stopping"}
    BY <1>0, <1>2, <1>3 DEF Shapes
  <2>2. caller' = caller
    BY <1>3, CommandEnds DEF HeartbeatEnds, Advances, Retries, StartFails
  <2>3. entry' = entry \/ (entry > 0 /\ entry' = TTL)
    BY <1>0, <1>1, <1>3, EntryTyped DEF Shapes
  <2>4. Holder \in {"running", "leaving"} /\ Holder' = Holder
    BY <2>1, <2>2, HolderIs, HolderNext
  <2>5. CASE late' = late
    <3>1. Asked' = Asked
      BY <1>0, <2>5, AskedIs
    <3> QED BY <2>3, <2>4, <3>1 DEF Lease!Next, Lease!Renew, Asked
  <2>6. CASE late' = [late EXCEPT ![command] = @ + 1] /\ entry' = entry
    <3>1. Asked' = [Asked EXCEPT !.renew = @ + 1]
      BY <1>0, <1>3, <2>6, AskedIs
    <3> QED BY <2>4, <2>6, <3>1 DEF Lease!Next, Lease!LeaveAsked, Asked
  <2> QED BY <2>5, <2>6, CommandLate
<1>4. CASE command # "EXPIRE"
  <2>1. caller = "starting" /\ command \in {"SET", "SADD", "PUBLISH"}
    BY <1>2, <1>4, CommandFacts
  <2>2. Holder = "registering"
    BY <2>1, HolderIs
  <2>3. entry' = entry \/ (command = "SET" /\ entry' = TTL)
    BY <1>1, <2>1, EntryTyped DEF EntryAfter
  <2>4. \/ caller' \in {"starting", "failed"}
        \/ caller' = "running" /\ command = "PUBLISH" /\ command' = "none" /\ Advances
    BY <1>4, <2>1, CommandEnds DEF HeartbeatEnds, Advances, Retries, StartFails
  <2>5. \/ Holder' \in {"registering", "gone"}
        \/ Holder' = "running" /\ command = "PUBLISH"
    BY <2>4, HolderNext
  <2>6. CASE late' = late
    <3>1. Asked' = Asked
      BY <1>0, <2>6, AskedIs
    <3> QED BY <2>2, <2>3, <2>5, <3>1 DEF Lease!Next, Lease!Grant, Lease!GoOn, Asked
  <2>7. CASE command \in Writes /\ late' = [late EXCEPT ![command] = @ + 1] /\ entry' = entry
    <3>1. command = "SET"
      BY <1>4, <2>7 DEF Writes
    <3>2. Asked' = [Asked EXCEPT !.grant = @ + 1]
      BY <1>0, <2>7, <3>1, AskedIs
    <3>3. Holder' \in {"registering", "gone"}
      BY <2>5, <3>1
    <3> QED BY <2>2, <2>7, <3>2, <3>3 DEF Lease!Next, Lease!LeaveAsked, Asked
  <2> QED BY <2>6, <2>7, CommandLate
<1> QED BY <1>3, <1>4

LEMMA LeaseStep ==
    ASSUME TypeOK, Progress, RedisStep \/ UNCHANGED vars
    PROVE  Lease!Next \/ UNCHANGED <<Holder, entry, Asked>>
<1>0. Shapes /\ LateTyped /\ LateTyped'
  <2>1. UNCHANGED vars => late' = late
    BY Zenon DEF vars
  <2>2. Shapes /\ LateTyped
    BY TypeParts
  <2>3. CASE UNCHANGED vars
    BY <2>1, <2>2, <2>3 DEF LateTyped
  <2>4. CASE RedisStep
    BY <2>2, <2>4, LateStays
  <2> QED BY <2>2, <2>3, <2>4
<1>1. CASE CommandStep
  BY <1>1, CommandLease
<1>2. CASE \/ Dial \/ Beat \/ LoopEnds \/ CancelContext \/ Hang \/ Recover \/ Break
           \/ UNCHANGED vars
  <2>1. caller' = caller /\ entry' = entry /\ late' = late
    BY Zenon, <1>2 DEF Dial, Beat, LoopEnds, CancelContext, Hang, Recover, Break, vars, ownerVars,
       redisVars
  <2> QED BY <1>0, <2>1, HolderNext, AskedIs
<1>3. CASE Stop \/ StopEnds
  <2>1. /\ entry' = entry /\ late' = late
        /\ \/ caller = "running" /\ caller' = "stopping"
           \/ caller = "stopping" /\ caller' = "stopped"
    BY Zenon, <1>3 DEF Stop, StopEnds, redisVars
  <2> QED BY <1>0, <2>1, HolderIs, HolderNext, AskedIs DEF Lease!Next, Lease!GoOn, Asked
<1>4. CASE Crash \/ Tick
  <2>1. /\ caller' = caller
        /\ entry' = entry \/ entry' = 0 \/ entry' = (IF entry > 0 THEN entry - 1 ELSE 0)
        /\ late' = late \/ late' = NoneLate
    BY Zenon, <1>4 DEF Crash, Tick, ownerVars
  <2>2. entry' <= entry /\ entry' \in Nat
    BY <1>0, <2>1 DEF Shapes
  <2>3. Asked' \in {Asked, Lease!Nothing} /\ Holder' = Holder
    BY <1>0, <2>1, HolderNext, AskedIs
  <2> QED BY <2>2, <2>3 DEF Lease!Next, Lease!Shrink, Asked
<1>5. CASE CarryOutLate
  <2>1. caller' = caller
    BY Zenon, <1>5 DEF CarryOutLate, ownerVars
  <2>2. PICK c \in Writes : /\ late[c] > 0 /\ late' = [late EXCEPT ![c] = @ - 1]
                            /\ entry' = EntryAfter(c)
    BY Zenon, <1>5 DEF CarryOutLate
  <2>3. Holder' = Holder
    BY <2>1, HolderNext
  <2>4. CASE c = "SET"
    <3>1. Asked' = [Asked EXCEPT !.grant = @ - 1] /\ Asked.grant > 0
      BY <1>0, <2>2, <2>4, AskedIs
    <3>2. entry' = TTL
      BY <2>2, <2>4 DEF EntryAfter
    <3> QED BY <2>3, <3>1, <3>2 DEF Lease!Next, Lease!CarryOut, Asked
  <2>5. CASE c = "EXPIRE"
    <3>1. Asked' = [Asked EXCEPT !.renew = @ - 1] /\ Asked.renew > 0
      BY <1>0, <2>2, <2>5, AskedIs
    <3>2. entry' = IF entry > 0 THEN TTL ELSE entry
      BY <2>2, <2>5 DEF EntryAfter
    <3> QED BY <2>3, <3>1, <3>2 DEF Lease!Next, Lease!CarryOut, Asked
  <2> QED BY <2>4, <2>5 DEF Writes
<1> QED BY Zenon, <1>1, <1>2, <1>3, <1>4, <1>5 DEF RedisStep, QuietStep

(* The registration implements the lease of ServiceLease: whatever is retried,
   broken or lost, only a service that is registering asks for an entry, one
   that runs or stops prolongs the entry it has, and what is left afterwards
   only runs out, but for the commands sent before whose connections were cut,
   each carried out once at most (redis.go:42-102, registration.go:17-60).  A
   command under way tells, by Progress, how far its caller can have come, and
   so whose request it leaves behind. *)
THEOREM LeaseImplemented == MultiSpec => ImplementsLease
<1>1. MultiInit => Lease!Init
  <2> SUFFICES ASSUME MultiInit PROVE Lease!Init
    OBVIOUS
  <2>1. caller = "starting" /\ entry = 0 /\ late = [c \in Writes |-> 0]
    BY Zenon DEF MultiInit, Init, NoneLate
  <2> QED BY <2>1, HolderIs DEF Lease!Init, Lease!Nothing, Writes
<1>2. RegistrationInv /\ [MultiNext]_allVars => [Lease!Next]_<<Holder, entry, Asked>>
  <2>1. [MultiNext]_allVars => RedisStep \/ UNCHANGED vars
    BY Zenon, MultiIsRedis DEF allVars
  <2> QED BY Zenon, <2>1, LeaseStep DEF RegistrationInv
<1> QED BY <1>1, <1>2, RegistrationHolds, PTL DEF MultiSpec, ImplementsLease, Lease!Spec, Asked
-----------------------------------------------------------------------------
(* The types. *)

MultiFlags == redisFirst \in BOOLEAN /\ quit \in BOOLEAN /\ listed \in BOOLEAN
MultiShapes ==
    /\ second \in {"mdns", "consul"}
    /\ step \in {"start", "running", "stop", "stopped"} /\ place \in {1, 2}
    /\ context \in {"live", "canceled"}
    /\ reg \in {"none", "running", "stopping", "stopped", "failed"}
    /\ beats \in {"none", "live", "done"} /\ announcer \in {"none", "live", "done"}
    /\ socket \in {"closed", "open"}
    /\ request \in {"none", "register", "deregister"}

LEMMA MultiTypeParts ==
    TypeOK /\ Results /\ MultiFlags /\ MultiShapes => MultiTypeOK
<1> SUFFICES ASSUME TypeOK, Results, MultiFlags, MultiShapes PROVE MultiTypeOK
  OBVIOUS
<1>1. results \in UNION {[1 .. n -> {"nil", "error"}] : n \in 0 .. 2}
  BY LenProperties DEF Results, Outcome
<1>2. {beats, announcer} \subseteq {"none", "live", "done"}
  BY DEF MultiShapes
<1>3. {quit, listed} \subseteq BOOLEAN
  BY Zenon DEF MultiFlags
<1> QED BY Zenon, <1>1, <1>2, <1>3 DEF MultiTypeOK, MultiFlags, MultiShapes

(* What a step can make of the owner's place and of the second registration. *)
LEMMA MultiValues ==
    ASSUME [MultiNext]_allVars
    PROVE  /\ UNCHANGED <<second, redisFirst>>
           /\ step' = step \/ step' \in {"start", "running", "stop", "stopped"}
           /\ place' = place \/ place' = 3 - place
           /\ context' = context \/ context' = "canceled"
           /\ reg' = reg \/ reg' \in {"running", "failed", "stopping", "stopped"}
           /\ beats' = beats \/ beats' \in {"live", "done"}
           /\ announcer' = announcer \/ announcer' \in {"none", "live", "done"}
           /\ socket' = socket \/ socket' \in {"closed", "open"}
           /\ request' = request \/ request' \in {"none", "register", "deregister"}
           /\ quit' = quit \/ quit' = TRUE
           /\ listed' = listed \/ listed' \in BOOLEAN
<1> USE DEF vars, multiVars
<1>1. CASE StartNext \/ StopNext \/ StopAll \/ StopAgain \/ CancelOwner \/ StopSecond \/ BeatsEnd
  BY <1>1 DEF StartNext, StopNext, StopAll, StopAgain, CancelOwner, StopSecond, BeatsEnd
<1>2. CASE \/ StopRedis \/ RedisRuns \/ RedisDisturbed \/ RedisRecovers \/ TimePasses
           \/ UNCHANGED allVars
  BY Zenon, <1>2 DEF StopRedis, RedisRuns, RedisDisturbed, RedisRecovers, TimePasses, allVars
<1>3. CASE StartMDNS \/ StopMDNS \/ AnnouncerEnds
  BY <1>3 DEF StartMDNS, StopMDNS, AnnouncerEnds, OpenSocket, CloseMDNS
<1>4. CASE StartConsul \/ StopConsul \/ Registered \/ Deregistered
  BY <1>4 DEF StartConsul, StopConsul, Registered, Deregistered, Deregister
<1> QED BY Zenon, <1>1, <1>2, <1>3, <1>4 DEF MultiNext, OwnerRuns, SecondRuns, ConsulAnswers

(* Every variable keeps its type: the owner's place, both registrations, their
   loops, the sockets and requests, and the results of at most two Stops. *)
THEOREM TypeCorrect == MultiSpec => []MultiTypeOK
<1>1. MultiInit => MultiFlags /\ MultiShapes
  <2>1. MultiInit => MultiFlags
    BY Zenon DEF MultiInit, MultiFlags
  <2>2. MultiInit => MultiShapes
    BY DEF MultiInit, MultiShapes
  <2> QED BY <2>1, <2>2
<1>2. MultiFlags /\ MultiShapes /\ [MultiNext]_allVars => MultiFlags' /\ MultiShapes'
  <2> SUFFICES ASSUME MultiFlags, MultiShapes, [MultiNext]_allVars
               PROVE  MultiFlags' /\ MultiShapes'
    OBVIOUS
  <2>1. MultiFlags'
    BY Zenon, MultiValues DEF MultiFlags
  <2>2. /\ second' = second
        /\ step' = step \/ step' \in {"start", "running", "stop", "stopped"}
        /\ place' = place \/ place' = 3 - place
        /\ context' = context \/ context' = "canceled"
        /\ reg' = reg \/ reg' \in {"running", "failed", "stopping", "stopped"}
        /\ beats' = beats \/ beats' \in {"live", "done"}
        /\ announcer' = announcer \/ announcer' \in {"none", "live", "done"}
        /\ socket' = socket \/ socket' \in {"closed", "open"}
        /\ request' = request \/ request' \in {"none", "register", "deregister"}
    BY Zenon, MultiValues
  <2>3. MultiShapes'
    BY <2>2 DEF MultiShapes
  <2> QED BY <2>1, <2>3
<1>3. RegistrationInv /\ SecondInv /\ MultiFlags /\ MultiShapes => MultiTypeOK
  BY MultiTypeParts DEF RegistrationInv, SecondInv
<1> QED BY <1>1, <1>2, <1>3, RegistrationHolds, SecondHolds, PTL DEF MultiSpec

=============================================================================

--------------------------- MODULE BrokerProcess ---------------------------
(***************************************************************************)
(* The life of the broker process: func main of cmd/broker, what it calls  *)
(* in internal/config and internal/db, and the signal that ends it.  The   *)
(* module has no next-state relation of its own: Session composes these    *)
(* actions with the memory of the process and the calls it serves.         *)
(*                                                                         *)
(* phase is how far main has come.  "closed" is the deferred pool.Close at *)
(* its end.  A process that has ended may be started again.                *)
(***************************************************************************)
EXTENDS Integers

CONSTANTS Environments,  \* environments the process may be started in
          NotANumber,    \* a text that strconv.Atoi refuses
          StartBound     \* bound on starts of the process

VARIABLES phase, attempt, signalled, env, starts

lifeVars == <<phase, attempt, signalled, env, starts>>

\* internal/config.  A variable of the environment is a set: empty when it is
\* unset or the empty string, otherwise its one value.
Fallback ==
    [ DB_CONNECT_RETRIES |-> 5, DB_CONNECT_RETRY_DELAY_MS |-> 1000,
      MAX_MESSAGE_SIZE |-> 1024 * 1024, MAX_ROUTING_KEY_LENGTH |-> 255,
      MAX_QUEUE_FILTERS |-> 32, MAX_IN_FLIGHT |-> 32 ]

\* What strconv.Atoi accepts is an int.
ASSUME ProcessAssumption ==
    /\ \A e \in Environments : \A key \in DOMAIN Fallback :
          \A v \in e[key] : v # NotANumber => v \in Int
    /\ StartBound \in Nat

NoEnvironment == [key \in DOMAIN Fallback \cup {"ROOT_TOKEN"} |-> {}]

InitLife ==
    /\ phase = "down" /\ attempt = 0 /\ signalled = FALSE
    /\ env = NoEnvironment
    /\ starts = 0
----------------------------------------------------------------------------
\* Defect: zero is let through.
AcceptsZero(key) == \A v \in env[key] : v # NotANumber /\ v >= 0

\* getPositiveIntEnv: whether it returns without an error, and what.
AcceptsInt(key) == \A v \in env[key] : v # NotANumber /\ v > 0

getPositiveIntEnv(key) == CHOOSE v \in (IF env[key] = {} THEN {Fallback[key]} ELSE env[key]) : TRUE

loadDBConfig ==
    AcceptsInt("DB_CONNECT_RETRIES") /\ AcceptsInt("DB_CONNECT_RETRY_DELAY_MS")

loadAuthConfig == env["ROOT_TOKEN"] # {}

loadLimitsConfig ==
    /\ AcceptsInt("MAX_MESSAGE_SIZE") /\ AcceptsInt("MAX_ROUTING_KEY_LENGTH")
    /\ AcceptsInt("MAX_QUEUE_FILTERS") /\ AcceptsInt("MAX_IN_FLIGHT")

Load == loadDBConfig /\ loadAuthConfig /\ loadLimitsConfig

ConnectRetries == getPositiveIntEnv("DB_CONNECT_RETRIES")
MaxInFlight    == getPositiveIntEnv("MAX_IN_FLIGHT")
----------------------------------------------------------------------------
Goto(p) == phase' = p /\ UNCHANGED <<attempt, signalled, env, starts>>

\* The process ends: os.Exit, the end of main, or a crash.
ProcessEnds ==
    /\ phase' = "down" /\ attempt' = 0 /\ signalled' = FALSE
    /\ env' = NoEnvironment
    /\ UNCHANGED starts

\* Each start may find another environment: a limit or the token has changed.
Start ==
    /\ phase = "down" /\ starts < StartBound
    /\ phase' = "config" /\ starts' = starts + 1
    /\ env' \in Environments
    /\ UNCHANGED <<attempt, signalled>>

\* signal.NotifyContext: the context of main is done from now on.
Signal ==
    /\ phase # "down" /\ ~signalled
    /\ signalled' = TRUE
    /\ UNCHANGED <<phase, attempt, env, starts>>

LoadConfig ==
    /\ phase = "config" /\ Load
    /\ phase' = "connect" /\ attempt' = 1
    /\ UNCHANGED <<signalled, env, starts>>

ConfigRefused == phase = "config" /\ ~Load /\ ProcessEnds

\* db.Connect: pgxpool.New and Ping succeed, which they cannot once the
\* context is done; or fail, the last attempt without a delay after it.
Connected == phase = "connect" /\ ~signalled /\ Goto("restore")

\* Defect: the comparison that ends the loop is off by one.
OneAttemptMore == phase = "connect" /\ attempt <= ConnectRetries /\ Goto("delay")

AttemptFails == phase = "connect" /\ attempt < ConnectRetries /\ Goto("delay")

ConnectFails == phase = "connect" /\ attempt = ConnectRetries /\ ProcessEnds

\* Defect: the loop variable is not advanced.
RetryForEver == phase = "delay" /\ Goto("connect")

\* The select over the timer and the context.
RetryDelay ==
    /\ phase = "delay"
    /\ phase' = "connect" /\ attempt' = attempt + 1
    /\ UNCHANGED <<signalled, env, starts>>

ConnectCancelled == phase = "delay" /\ signalled /\ ProcessEnds

\* brokerService.Restore, whose statements have the context too, and net.Listen.
Restored  == phase = "restore" /\ ~signalled /\ Goto("listen")
Listening == phase = "listen" /\ Goto("serving")

\* Restore returns an error, or Listen does.
StartFails == phase \in {"restore", "listen"} /\ ProcessEnds

\* The goroutine that waits for the context calls GracefulStop: no new calls
\* from here on.
GracefulStop == phase = "serving" /\ signalled /\ Goto("draining")

\* grpc: GracefulStop, and with it Serve, returns when the last handler has
\* returned; main closes the pool and ends.
Stopped(busy) == phase = "draining" /\ ~busy /\ Goto("closed")

MainReturns == phase = "closed" /\ ProcessEnds

\* The process is killed, or Serve returns an error of the listener.
Crash == phase # "down" /\ ProcessEnds
============================================================================

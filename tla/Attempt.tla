------------------------------- MODULE Attempt -------------------------------
(* utils.Attempt (src/attempt.go): a loop of attempts spaced by Delay, for a  *)
(* time Total and at least Min times.  Its state is that of the struct, plus  *)
(* the clock, which passes between any two steps and does not go back.        *)
EXTENDS Integers

CONSTANTS Strategies,   \* the AttemptStrategy values in use
          MaxTime,      \* bound on the clock
          MaxCount      \* bound on the attempts of one sequence

AttemptStrategy == [Total : Int, Delay : Int, Min : Int]

ASSUME StrategiesAssumption == Strategies \subseteq AttemptStrategy

ASSUME AttemptBoundsAssumption == MaxTime \in Nat /\ MaxCount \in Nat

VARIABLES
  now,        \* what time.Now returns
  strategy, last, end, force, count,   \* the Attempt
  wake,       \* when the time.Sleep of Next may return
  next,       \* where the call of Next is, or what the last one returned
  hasNext     \* what HasNext returned since the last Next, "none" if not called

attemptVars == <<now, strategy, last, end, force, count, wake, next, hasNext>>

AttemptInit ==                                               \* Start
  /\ now = 0
  /\ strategy \in Strategies
  /\ last = now
  /\ end = now + strategy.Total
  /\ force = TRUE
  /\ count = 0
  /\ wake = 0
  /\ next = "none"
  /\ hasNext = "none"

Idle == next # "sleep"

(* The clock.  The bound does not keep a sleeper from waking.                 *)
Tick ==
  /\ now < MaxTime \/ (next = "sleep" /\ now < wake)
  /\ now' = now + 1
  /\ UNCHANGED <<strategy, last, end, force, count, wake, next, hasNext>>

nextSleepShort(t) ==                                              \* mutant
  IF strategy.Delay - (t - last) - 1 < 0 THEN 0 ELSE strategy.Delay - (t - last) - 1
nextSleep(t) ==
  IF strategy.Delay - (t - last) < 0 THEN 0 ELSE strategy.Delay - (t - last)

nearlyEnough == strategy.Min <= count + 1                         \* mutant
enough == strategy.Min <= count

(* The next attempt would begin before the end.                               *)
inTime == now + nextSleep(now) < end

(* Next decides not to try again ...                                          *)
rearm == force' = TRUE                                            \* mutant
leaveForce == UNCHANGED force

AttemptFalse ==
  /\ Idle
  /\ ~force /\ ~inTime /\ enough
  /\ next' = "false"
  /\ hasNext' = "none"
  /\ leaveForce
  /\ UNCHANGED <<now, strategy, last, end, count, wake>>

(* ... or to try, at once or after a sleep; either way now is read afresh     *)
(* only after a sleep.                                                        *)
BeginUncounted == last' = now /\ next' = "true" /\ UNCHANGED count       \* mutant
Begin == count' = count + 1 /\ last' = now /\ next' = "true"

AttemptTrue ==
  /\ Idle
  /\ count < MaxCount
  /\ force \/ inTime \/ ~enough
  /\ force' = FALSE
  /\ hasNext' = "none"
  /\ IF nextSleep(now) > 0 /\ count > 0
       THEN /\ wake' = now + nextSleep(now)
            /\ next' = "sleep"
            /\ UNCHANGED <<count, last>>
       ELSE Begin /\ UNCHANGED wake
  /\ UNCHANGED <<now, strategy, end>>

(* time.Sleep returns, on time or late.                                       *)
Woken ==
  /\ next = "sleep"
  /\ now >= wake
  /\ Begin
  /\ UNCHANGED <<now, strategy, end, force, wake, hasNext>>

(* HasNext, which commits Next to what it says.                               *)
forget == UNCHANGED force                                         \* mutant
commit == force' = TRUE

HasNext ==
  /\ Idle
  /\ \/ (force \/ ~enough) /\ hasNext' = "true" /\ UNCHANGED force
     \/ ~force /\ enough /\ inTime /\ hasNext' = "true" /\ commit
     \/ ~force /\ enough /\ ~inTime /\ hasNext' = "false" /\ UNCHANGED force
  /\ UNCHANGED <<now, strategy, last, end, count, wake, next>>

AttemptNext == Tick \/ AttemptFalse \/ AttemptTrue \/ Woken \/ HasNext

AttemptSpec == AttemptInit /\ [][AttemptNext]_attemptVars

-----------------------------------------------------------------------------
(* The types of the variables.                                                *)
AttemptTypeOK ==
  /\ now \in Nat /\ last \in Nat /\ wake \in Nat /\ count \in Nat
  /\ strategy \in AttemptStrategy
  /\ end \in Int
  /\ force \in BOOLEAN
  /\ next \in {"none", "sleep", "true", "false"}
  /\ hasNext \in {"none", "true", "false"}

(* "If it returns true, the following call to Next is guaranteed to return    *)
(* true" (HasNext), however late that call comes; and if it returns false, no *)
(* attempt will be made.                                                      *)
HasNextKept ==
  [][/\ hasNext = "true" => ~AttemptFalse
     /\ hasNext = "false" => ~AttemptTrue]_attemptVars

(* A sequence stops for good: once Next has returned false, it does so again, *)
(* whenever it is called.                                                     *)
StopsForGood ==
  [][next = "false" => next' = "false"]_attemptVars

(* A sequence stops only after as many attempts as promised: one ("we are     *)
(* guaranteed to make at least one attempt") and Min.                         *)
EnoughAttempts == next = "false" => count >= 1 /\ count >= strategy.Min

(* "Interval between each try": two attempts never begin closer than Delay.   *)
Spaced ==
  [][(count > 0 /\ count' # count) => last' - last >= strategy.Delay]_attemptVars
=============================================================================

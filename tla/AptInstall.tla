----------------------------- MODULE AptInstall ------------------------------
(* apt.GetInstall (src/apt/apt.go): run apt-get install under an attempt      *)
(* strategy, until it succeeds, fails with a status other than 100, or the    *)
(* attempts are over.  The command is external: it may end in any way.  The *)
(* attempts may also be those of another client, which calls Next and HasNext *)
(* as it likes.                                                               *)
EXTENDS Attempt

VARIABLES at,        \* where GetInstall is, "client" if it is not called
          err,       \* its variable err: how the last command ended
          statuses   \* history: how many commands ended in each way (to 2)

Outcomes == {"ok", "exit100", "exitOther", "noExit"}

installVars == <<at, err, statuses>>

aptVars == <<attemptVars, installVars>>

(* installAttemptStrategy: a Delay and a Min, and no Total.                   *)
AptInit ==
  /\ AttemptInit
  /\ \/ at = "loop" /\ strategy.Total = 0
     \/ at = "client"
  /\ err = "ok"
  /\ statuses = [o \in Outcomes |-> 0]

(* The loop's condition a.Next() ...                                          *)
AskTrue ==
  /\ at = "loop"
  /\ AttemptTrue
  /\ at' = IF next' = "true" THEN "command" ELSE "loop"
  /\ UNCHANGED <<err, statuses>>

AskWoken ==
  /\ at = "loop"
  /\ Woken
  /\ at' = "command"
  /\ UNCHANGED <<err, statuses>>

(* ... false: the loop ends with the error of the last command.               *)
shadowed == "nil"                                                 \* mutant
result == IF err = "ok" THEN "nil" ELSE "failed"

AskFalse ==
  /\ at = "loop"
  /\ AttemptFalse
  /\ at' = result
  /\ UNCHANGED <<err, statuses>>

(* The body of the loop: only exit status 100 is tried again.                 *)
RetryAll(o) == IF o = "ok" THEN "nil" ELSE "loop"                 \* mutant
Retry(o) == CASE o = "ok" -> "nil"
              [] o = "exit100" -> "loop"
              [] OTHER -> "failed"

Command ==
  /\ at = "command"
  /\ \E o \in Outcomes :
       /\ err' = o
       /\ statuses' = [statuses EXCEPT ![o] = IF @ < 2 THEN @ + 1 ELSE @]
       /\ at' = Retry(o)
  /\ UNCHANGED attemptVars

Client ==
  /\ at = "client"
  /\ AttemptFalse \/ AttemptTrue \/ Woken \/ HasNext
  /\ UNCHANGED installVars

Pass == Tick /\ UNCHANGED installVars

AptNext == AskTrue \/ AskWoken \/ AskFalse \/ Command \/ Client \/ Pass

AptSpec == AptInit /\ [][AptNext]_aptVars

(* Time passes, apt-get ends and the goroutine runs.                          *)
AptLiveSpec ==
  /\ AptSpec
  /\ WF_aptVars(Pass) /\ WF_aptVars(AskTrue \/ AskWoken \/ AskFalse \/ Command)

-----------------------------------------------------------------------------
(* apt-get is run Min times (at least once) if it always exits with 100, and  *)
(* never more often; it is run again only after exit 100, and GetInstall      *)
(* reports success exactly if the last command succeeded.                     *)
InstallReported ==
  /\ at # "client" => count <= IF strategy.Min > 1 THEN strategy.Min ELSE 1
  /\ statuses["ok"] + statuses["exitOther"] + statuses["noExit"] <= 1
  /\ at = "failed" /\ err = "exit100" => count >= strategy.Min
  /\ at \in {"nil", "failed"} => ((at = "nil") <=> (statuses["ok"] = 1))

(* GetInstall ends.                                                           *)
InstallEnds == (at = "loop") ~> (at \in {"nil", "failed"})
=============================================================================

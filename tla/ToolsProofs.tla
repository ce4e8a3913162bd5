----------------------------- MODULE ToolsProofs -----------------------------
(* What the small tools guarantee: the limiter for any limit and number of    *)
(* users, a request for any use of the response writer, a FileMetadata for    *)
(* any calls, a process for any exit codes, the HTTP clients for any number   *)
(* of goroutines, Attempt and apt.GetInstall for every strategy, clock and    *)
(* number of attempts, and Voyeur for any number of watchers and mutators.    *)
EXTENDS Limiter, JsonHttp, Metadata, Exec, HttpClient, AptInstall, Voyeur,
        FiniteSetTheorems, SequenceTheorems, TLAPS

(* The limiter's invariant: the types, and the property itself.               *)
LimiterInv ==
  /\ limit \in Nat /\ units \in Nat /\ senders \in Seq(Users)
  /\ LimiterBounded

(* Never more units out than the limit, and nobody waits while one is         *)
(* available.                                                                 *)
THEOREM LimiterBoundedHolds == LimiterSpec => []LimiterBounded
<1> USE DEF LimiterInv, LimiterBounded
<1>1. (\E n \in Nat : LimiterInit(n)) => LimiterInv
  BY DEF LimiterInit
<1>2. LimiterInv /\ [LimiterNext]_limiterVars => LimiterInv'
  <2> SUFFICES ASSUME LimiterInv, [LimiterNext]_limiterVars PROVE LimiterInv'
    OBVIOUS
  <2>1. ASSUME NEW u \in Users, Acquire(u) PROVE LimiterInv'
    BY <2>1 DEF Acquire, Take, ready
  <2>2. ASSUME NEW u \in Users, AcquireWait(u) PROVE LimiterInv'
    <3>1. CASE ready
      BY <2>2, <3>1 DEF AcquireWait, Take, ready
    <3>2. CASE ~ready
      <4>1. units = limit
        BY <3>2 DEF ready
      <4> QED
        BY <2>2, <3>2, <4>1 DEF AcquireWait
    <3> QED
      BY <3>1, <3>2
  <2>3. ASSUME NEW u \in Users, Release(u) PROVE LimiterInv'
    BY <2>3 DEF Release, HandOver
  <2>4. CASE UNCHANGED limiterVars
    BY <2>4 DEF limiterVars
  <2> QED
    BY <2>1, <2>2, <2>3, <2>4 DEF LimiterNext
<1>3. LimiterInv => LimiterBounded
  OBVIOUS
<1> QED
  BY <1>1, <1>2, <1>3, PTL DEF LimiterSpec

-----------------------------------------------------------------------------
(* What is known of a response while it is made: nothing is sent before the   *)
(* handler runs, WriteError begins with nothing sent, and a handler that has  *)
(* set headerWritten has sent a status, or flushed in vain.                   *)
HttpInv ==
  /\ serving \in {"idle", "errors", "json", "writeError", "done"}
  /\ serving \in {"idle", "json", "writeError"} => status = 0 /\ body = {}
  /\ serving = "idle" => headerWritten = FALSE
  /\ serving = "writeError" => failure = TRUE
  /\ serving = "errors" =>
       /\ status \in {0, StatusOK, Teapot} /\ body \subseteq {"handler"}
       /\ status = 0 => body = {} /\ (headerWritten = FALSE \/ lost = TRUE)
       /\ headerWritten = FALSE => status = 0
       /\ headerWritten \in BOOLEAN
  /\ serving = "done" =>
       \/ status = ErrCode /\ body = {"error"} /\ failure = TRUE
       \/ status \in {StatusOK, Teapot} /\ body \subseteq {"handler"}
       \/ status = StatusOK /\ body = {"value"}
       \/ status = 0 /\ body = {} /\ (failure = FALSE \/ lost = TRUE)

(* The client is told of every error unless something was sent before, and    *)
(* never of an error after what the handler sent.                             *)
THEOREM ErrorReportedHolds == HttpSpec => []ErrorReported
<1> USE DEF HttpInv, StatusOK, Teapot, ErrCode
<1>1. HttpInit => HttpInv
  BY DEF HttpInit
<1>2. HttpInv /\ [HttpNext]_httpVars => HttpInv'
  <2> SUFFICES ASSUME HttpInv, [HttpNext]_httpVars PROVE HttpInv'
    OBVIOUS
  <2>1. CASE Serve
    BY <2>1 DEF Serve
  <2>2. CASE Write
    BY <2>2 DEF Write, noticed, Sent
  <2>3. CASE WriteHeader
    BY <2>3 DEF WriteHeader, noticed, Sent
  <2>4. CASE Flush
    <3>1. /\ serving = "errors" /\ serving' = "errors" /\ headerWritten' = TRUE
          /\ body' = body /\ status' \in {status, Sent(StatusOK)}
      BY <2>4 DEF Flush, noticed
    <3>2. CASE flusher
      <4>1. status' # 0
        BY <2>4, <3>2 DEF Flush, Sent
      <4> QED
        BY <3>1, <4>1 DEF Sent
    <3>3. CASE ~flusher
      <4>1. status' = status /\ lost' = (lost \/ status = 0)
        BY <2>4, <3>3 DEF Flush
      <4>2. status' = 0 => lost' = TRUE
        BY <4>1, Zenon
      <4> QED
        BY <3>1, <4>1, <4>2
    <3> QED
      BY <3>2, <3>3
  <2>5. CASE HandlerReturn
    BY <2>5 DEF HandlerReturn
  <2>6. CASE JSONHandlerReturn
    BY <2>6 DEF JSONHandlerReturn, WriteJSON, noticed, Sent
  <2>7. CASE WriteError
    <3>1. CASE WriteJSON(ErrCode, "error")
      <4>1. serving = "writeError" /\ serving' = "done" /\ failure' = failure
        BY <2>7 DEF WriteError
      <4>2. status' = ErrCode /\ body' = {"error"}
        BY <3>1, <4>1 DEF WriteJSON, Sent
      <4> QED
        BY <4>1, <4>2
    <3>2. CASE lost' = TRUE /\ UNCHANGED <<status, body>>
      BY <2>7, <3>2 DEF WriteError
    <3> QED
      BY <2>7, <3>1, <3>2 DEF WriteError
  <2>8. CASE UNCHANGED httpVars
    BY <2>8 DEF httpVars
  <2> QED
    BY <2>1, <2>2, <2>3, <2>4, <2>5, <2>6, <2>7, <2>8 DEF HttpNext
<1>3. HttpInv => ErrorReported
  <2> SUFFICES ASSUME HttpInv PROVE ErrorReported
    OBVIOUS
  <2>1. \E x : body = {x} \/ body = {}
    OBVIOUS
  <2>2. Cardinality(body) \in {0, 1}
    <3>1. CASE body = {}
      BY <3>1, FS_EmptySet, Zenon
    <3>2. ASSUME NEW x, body = {x} PROVE Cardinality(body) = 1
      BY <3>2, FS_Singleton
    <3> QED
      BY <2>1, <3>1, <3>2
  <2> QED
    BY <2>1, <2>2 DEF ErrorReported
<1> QED
  BY <1>1, <1>2, <1>3, PTL DEF HttpSpec

-----------------------------------------------------------------------------
(* The metadata and the accepted arguments have all three fields.             *)
IsInfo(n) == n = [size |-> n.size, checksum |-> n.checksum, format |-> n.format]

MetadataInv == InfoAgrees /\ IsInfo(info)

(* The metadata are what the accepted calls have said, and all of it, over    *)
(* any sequence of calls of SetFileInfo and SetID.                            *)
THEOREM InfoAgreesHolds == MetadataSpec => []InfoAgrees
<1>1. MetadataInit => MetadataInv
  BY DEF MetadataInit, MetadataInv, InfoAgrees, IsInfo, complete
<1>2. MetadataInv /\ [MetadataNext]_metadataVars => MetadataInv'
  <2> SUFFICES ASSUME MetadataInv, [MetadataNext]_metadataVars PROVE MetadataInv'
    OBVIOUS
  <2>1. CASE SetFileInfo
    <3>1. PICK a \in Arguments :
             IF complete(fallback(a)) /\ unchanged(fallback(a))
               THEN info' = fallback(a) /\ accepted' = accepted \cup {a}
               ELSE UNCHANGED <<info, accepted>>
      BY <2>1 DEF SetFileInfo
    <3>2. UNCHANGED <<id, named>>
      BY <2>1 DEF SetFileInfo
    <3>3. CASE UNCHANGED <<info, accepted>>
      BY <3>2, <3>3 DEF MetadataInv, InfoAgrees, IsInfo, complete
    <3>4. CASE /\ complete(fallback(a)) /\ unchanged(fallback(a))
               /\ info' = fallback(a) /\ accepted' = accepted \cup {a}
      <4>1. /\ info'.size = IF a.size = 0 THEN info.size ELSE a.size
            /\ info'.checksum = IF a.checksum = Unset THEN info.checksum ELSE a.checksum
            /\ info'.format = IF a.format = Unset THEN info.format ELSE a.format
            /\ IsInfo(info')
        BY <3>4 DEF fallback, IsInfo
      <4>2. /\ complete(info')
            /\ info.size # 0 => info'.size = info.size
            /\ info.checksum # Unset => info'.checksum = info.checksum
            /\ info.format # Unset => info'.format = info.format
        BY <3>4 DEF unchanged
      <4>3. ASSUME NEW b \in accepted'
            PROVE  /\ b.size \in {0, info'.size} /\ b.checksum \in {Unset, info'.checksum}
                   /\ b.format \in {Unset, info'.format}
        <5>1. CASE b = a
          BY <4>1, <5>1
        <5>2. CASE b \in accepted
          BY <4>2, <5>2 DEF MetadataInv, InfoAgrees
        <5> QED
          BY <3>4, <5>1, <5>2
      <4>4. info'.size # 0 => \E b \in accepted' : b.size = info'.size
        BY <3>4, <4>1, <4>2 DEF MetadataInv, InfoAgrees
      <4>5. info'.checksum # Unset =>
              \E b \in accepted' : b.checksum = info'.checksum /\ b.format = info'.format
        <5>1. CASE info.checksum = Unset
          BY <3>4, <4>1, <4>2, <5>1 DEF MetadataInv, InfoAgrees, complete
        <5>2. CASE info.checksum # Unset
          BY <3>4, <4>2, <5>2 DEF MetadataInv, InfoAgrees, complete
        <5> QED
          BY <5>1, <5>2
      <4> QED
        BY <3>2, <4>1, <4>2, <4>3, <4>4, <4>5 DEF MetadataInv, InfoAgrees
    <3> QED
      BY <3>1, <3>3, <3>4
  <2>2. CASE SetID
    BY <2>2, ArgumentsAssumption DEF SetID, MetadataInv, InfoAgrees, IsInfo, complete
  <2>3. CASE UNCHANGED <<id, info, named, accepted>>
    BY <2>3 DEF MetadataInv, InfoAgrees, IsInfo, complete
  <2> QED
    BY <2>1, <2>2, <2>3 DEF MetadataNext, SetStored, metadataVars
<1> QED
  BY <1>1, <1>2, PTL DEF MetadataSpec, MetadataInv

-----------------------------------------------------------------------------
(* A process that runs has not been answered about.                           *)
ExecInv ==
  /\ ps = "running" => answer = NoAnswer
  /\ ExitReported

(* A Wait without error is about a process that exited by itself.             *)
THEOREM ExitReportedHolds == ExecSpec => []ExitReported
<1> USE DEF ExecInv, ExitReported, NoAnswer
<1>1. ExecInit => ExecInv
  BY DEF ExecInit
<1>2. ExecInv /\ [ExecNext]_execVars => ExecInv'
  <2> SUFFICES ASSUME ExecInv, [ExecNext]_execVars PROVE ExecInv'
    OBVIOUS
  <2>1. CASE Run
    BY <2>1 DEF Run
  <2>2. CASE ProcessWrite
    BY <2>2 DEF ProcessWrite
  <2>3. CASE ProcessExit
    BY <2>3 DEF ProcessExit
  <2>4. CASE Kill
    BY <2>4 DEF Kill
  <2>5. CASE WaitRefused
    BY <2>5 DEF WaitRefused, Answer
  <2>6. CASE WaitCall
    BY <2>6 DEF WaitCall
  <2>7. CASE WaitReturn
    BY <2>7 DEF WaitReturn, Answer, isExited
  <2>8. CASE UNCHANGED execVars
    BY <2>8 DEF execVars
  <2> QED
    BY <2>1, <2>2, <2>3, <2>4, <2>5, <2>6, <2>7, <2>8 DEF ExecNext
<1>3. ExecInv => ExitReported
  OBVIOUS
<1> QED
  BY <1>1, <1>2, <1>3, PTL DEF ExecSpec

-----------------------------------------------------------------------------
(* A goroutine in the critical section holds the mutex, and one that makes a  *)
(* client has seen that there is none.                                        *)
ClientInv ==
  /\ DOMAIN getting = Getters /\ DOMAIN got = Getters
  /\ \A g \in Getters : getting[g] # "idle" => mutex = g
  /\ \A g \in Getters : getting[g] = "make" => insecureClient = Nil
  /\ ClientShared

(* However many goroutines ask at once, they share one client.                *)
THEOREM ClientSharedHolds == ClientSpec => []ClientShared
<1> USE GettersAssumption DEF ClientInv, ClientShared, Nil, DefaultClient
<1>1. ClientInit => ClientInv
  BY DEF ClientInit
<1>2. ClientInv /\ [ClientNext]_clientVars => ClientInv'
  <2> SUFFICES ASSUME ClientInv, [ClientNext]_clientVars PROVE ClientInv'
    OBVIOUS
  <2>1. ASSUME NEW g \in Getters, GetValidatingHTTPClient(g) PROVE ClientInv'
    BY <2>1 DEF GetValidatingHTTPClient
  <2>2. ASSUME NEW g \in Getters, GetNonValidatingHTTPClient(g) PROVE ClientInv'
    BY <2>2 DEF GetNonValidatingHTTPClient, ClientGoto, unlocked
  <2>3. ASSUME NEW g \in Getters, TestClient(g) PROVE ClientInv'
    BY <2>3 DEF TestClient, ClientGoto
  <2>4. ASSUME NEW g \in Getters, MakeClient(g) PROVE ClientInv'
    BY <2>4 DEF MakeClient, ClientGoto
  <2>5. ASSUME NEW g \in Getters, ReturnClient(g) PROVE ClientInv'
    BY <2>5 DEF ReturnClient, ClientGoto
  <2>6. CASE UNCHANGED clientVars
    BY <2>6 DEF clientVars
  <2> QED
    BY <2>1, <2>2, <2>3, <2>4, <2>5, <2>6 DEF ClientNext
<1>3. ClientInv => ClientShared
  OBVIOUS
<1> QED
  BY <1>1, <1>2, <1>3, PTL DEF ClientSpec

-----------------------------------------------------------------------------
(* Attempt, and GetInstall on top of it.                                      *)

(* The inductive invariant behind the properties of Attempt: what each state  *)
(* of the loop remembers about force, count and the clock.                    *)
AttemptInv ==
  /\ AttemptTypeOK
  /\ last <= now
  /\ ~force => count >= 1
  /\ next = "sleep" => ~force /\ hasNext = "none" /\ wake >= last + strategy.Delay
  /\ next = "false" => ~force /\ enough /\ ~inTime
  /\ hasNext = "true" => force \/ ~enough
  /\ hasNext = "false" => ~force /\ enough /\ ~inTime

(* AttemptInv holds in every reachable state.                                 *)
LEMMA AttemptInvariant == AttemptSpec => []AttemptInv
<1>1. AttemptInit => AttemptInv
  BY StrategiesAssumption DEF AttemptInit, AttemptInv, AttemptTypeOK, AttemptStrategy
<1>2. AttemptInv /\ [AttemptNext]_attemptVars => AttemptInv'
  <2> SUFFICES ASSUME AttemptInv, [AttemptNext]_attemptVars PROVE AttemptInv'
    OBVIOUS
  <2> USE DEF AttemptInv, AttemptTypeOK, AttemptStrategy, enough, inTime, nextSleep
  <2>1. CASE Tick
    BY <2>1 DEF Tick
  <2>2. CASE AttemptFalse
    BY <2>2 DEF AttemptFalse, Idle, leaveForce
  <2>3. CASE AttemptTrue
    <3>0. /\ force' \in BOOLEAN /\ ~force' /\ hasNext' = "none"
          /\ UNCHANGED <<now, strategy, end>>
      BY <2>3 DEF AttemptTrue
    <3>1. CASE nextSleep(now) > 0 /\ count > 0
      <4>1. wake' = now + nextSleep(now) /\ next' = "sleep" /\ UNCHANGED <<count, last>>
        BY <2>3, <3>1 DEF AttemptTrue
      <4> QED
        BY <3>0, <3>1, <4>1
    <3>2. CASE ~(nextSleep(now) > 0 /\ count > 0)
      <4>1. Begin /\ UNCHANGED wake
        BY <2>3, <3>2 DEF AttemptTrue
      <4> QED
        BY <3>0, <4>1 DEF Begin
    <3> QED
      BY <3>1, <3>2
  <2>4. CASE Woken
    BY <2>4 DEF Woken, Begin
  <2>5. CASE HasNext
    <3>1. CASE force \/ ~enough
      BY <2>5, <3>1 DEF HasNext, Idle
    <3>2. CASE ~force /\ enough /\ inTime
      BY <2>5, <3>2 DEF HasNext, Idle, commit
    <3>3. CASE ~force /\ enough /\ ~inTime
      BY <2>5, <3>3 DEF HasNext, Idle
    <3> QED
      BY <3>1, <3>2, <3>3
  <2>6. CASE UNCHANGED attemptVars
    BY <2>6 DEF attemptVars
  <2> QED
    BY <2>1, <2>2, <2>3, <2>4, <2>5, <2>6 DEF AttemptNext
<1> QED
  BY <1>1, <1>2, PTL DEF AttemptSpec

(* The variables have their types.                                            *)
THEOREM AttemptTypeCorrect == AttemptSpec => []AttemptTypeOK
BY AttemptInvariant, PTL DEF AttemptInv

(* A sequence of attempts ends only after one attempt and Min attempts.       *)
THEOREM EnoughAttemptsHolds == AttemptSpec => []EnoughAttempts
<1>1. AttemptInv => EnoughAttempts
  BY DEF AttemptInv, AttemptTypeOK, AttemptStrategy, EnoughAttempts, enough
<1> QED
  BY <1>1, AttemptInvariant, PTL

(* What HasNext returned is what the following Next returns, at any later     *)
(* time.                                                                      *)
THEOREM HasNextKeptHolds == AttemptSpec => HasNextKept
<1>1. AttemptInv => /\ hasNext = "true" => ~AttemptFalse
                    /\ hasNext = "false" => ~AttemptTrue
  BY DEF AttemptInv, AttemptFalse, AttemptTrue
<1> QED
  BY <1>1, AttemptInvariant, PTL DEF HasNextKept

(* Once Next has returned false it never returns true again.                  *)
THEOREM StopsForGoodHolds == AttemptSpec => StopsForGood
<1>1. AttemptInv /\ [AttemptNext]_attemptVars
        => [next = "false" => next' = "false"]_attemptVars
  BY DEF AttemptInv, AttemptNext, Tick, AttemptFalse, AttemptTrue, Woken, HasNext, attemptVars
<1> QED
  BY <1>1, AttemptInvariant, PTL DEF AttemptSpec, StopsForGood

(* Two attempts never begin closer than Delay.                                *)
THEOREM SpacedHolds == AttemptSpec => Spaced
<1>1. AttemptInv /\ [AttemptNext]_attemptVars
        => [(count > 0 /\ count' # count) => last' - last >= strategy.Delay]_attemptVars
  BY DEF AttemptInv, AttemptTypeOK, AttemptStrategy, AttemptNext, Tick, AttemptFalse,
         AttemptTrue, Woken, HasNext, Begin, nextSleep, attemptVars
<1> QED
  BY <1>1, AttemptInvariant, PTL DEF AttemptSpec, Spaced
-----------------------------------------------------------------------------
(* GetInstall uses its attempts as any client may, so that all of the above   *)
(* holds of them too.                                                         *)
THEOREM AptUsesAttempt == AptSpec => AttemptSpec
<1>1. AptInit => AttemptInit
  BY DEF AptInit
<1>2. [AptNext]_aptVars => [AttemptNext]_attemptVars
  BY DEF AptNext, AskTrue, AskWoken, AskFalse, Command, Client, Pass, AttemptNext,
         aptVars, attemptVars
<1> QED
  BY <1>1, <1>2, PTL DEF AptSpec, AttemptSpec

(* GetInstall has no Total and does not call HasNext, so Next returns true    *)
(* only for the first attempt or for want of Min; as long as it goes on, the  *)
(* commands have all ended with exit status 100.                              *)
InstallInv ==
  /\ at \in {"client", "loop", "command", "nil", "failed"}
  /\ statuses \in [Outcomes -> Nat] /\ err \in Outcomes
  /\ at # "client" =>
       /\ end = 0
       /\ force => count = 0
       /\ next = "sleep" => count < strategy.Min
       /\ count = 0 \/ count <= strategy.Min \/ count <= 1
  /\ at \in {"client", "loop", "command"} =>
       statuses["ok"] = 0 /\ statuses["exitOther"] = 0 /\ statuses["noExit"] = 0
  /\ at = "loop" => err = "exit100" \/ count = 0
  /\ at = "nil" =>
       statuses["ok"] = 1 /\ statuses["exitOther"] = 0 /\ statuses["noExit"] = 0
  /\ at = "failed" =>
       /\ statuses["ok"] = 0 /\ statuses["exitOther"] + statuses["noExit"] <= 1
       /\ err = "exit100" => count >= strategy.Min

LEMMA InstallStep ==
  AttemptInv /\ InstallInv /\ [AptNext]_aptVars => InstallInv'
<1> SUFFICES ASSUME AttemptInv, InstallInv, [AptNext]_aptVars PROVE InstallInv'
  OBVIOUS
<1> USE DEF InstallInv, AttemptInv, AttemptTypeOK, AttemptStrategy, Outcomes
<1>1. CASE AskTrue
  <2>1. /\ at = "loop" /\ AttemptTrue /\ UNCHANGED <<err, statuses, strategy, end>>
        /\ at' = IF next' = "true" THEN "command" ELSE "loop"
        /\ ~force'
    BY <1>1 DEF AskTrue, AttemptTrue
  <2>2. ~inTime
    BY <2>1 DEF inTime, nextSleep
  <2>3. count = 0 \/ count < strategy.Min
    BY <2>1, <2>2 DEF AttemptTrue, enough
  <2>4. CASE nextSleep(now) > 0 /\ count > 0
    <3>1. next' = "sleep" /\ UNCHANGED count
      BY <2>1, <2>4 DEF AttemptTrue
    <3> QED
      BY <2>1, <2>3, <2>4, <3>1
  <2>5. CASE ~(nextSleep(now) > 0 /\ count > 0)
    <3>1. next' = "true" /\ count' = count + 1
      BY <2>1, <2>5 DEF AttemptTrue, Begin
    <3> QED
      BY <2>1, <2>3, <3>1
  <2> QED
    BY <2>4, <2>5
<1>2. CASE AskWoken
  BY <1>2 DEF AskWoken, Woken, Begin
<1>3. CASE AskFalse
  BY <1>3 DEF AskFalse, AttemptFalse, enough, result, leaveForce
<1>4. CASE Command
  <2> PICK o \in Outcomes :
        /\ err' = o /\ at' = Retry(o)
        /\ statuses' = [statuses EXCEPT ![o] = IF @ < 2 THEN @ + 1 ELSE @]
    BY <1>4 DEF Command
  <2>1. at = "command" /\ UNCHANGED attemptVars
    BY <1>4 DEF Command
  <2>2. CASE o = "ok"
    BY <2>1, <2>2 DEF Retry, attemptVars
  <2>3. CASE o = "exit100"
    BY <2>1, <2>3 DEF Retry, attemptVars
  <2>4. CASE o \in {"exitOther", "noExit"}
    BY <2>1, <2>4 DEF Retry, attemptVars
  <2> QED
    BY <2>2, <2>3, <2>4
<1>5. CASE Client
  BY <1>5 DEF Client, installVars
<1>6. CASE Pass
  BY <1>6 DEF Pass, Tick, installVars
<1>7. CASE UNCHANGED aptVars
  BY <1>7 DEF aptVars, attemptVars, installVars
<1> QED
  BY <1>1, <1>2, <1>3, <1>4, <1>5, <1>6, <1>7 DEF AptNext

(* apt-get is run at most Min times (once if Min is less), again only after   *)
(* exit status 100, and GetInstall reports how the last command ended.        *)
THEOREM InstallReportedHolds == AptSpec => []InstallReported
<1>1. AptInit => InstallInv
  BY StrategiesAssumption
  DEF AptInit, AttemptInit, InstallInv, Outcomes, AttemptStrategy
<1>2. AttemptInv /\ InstallInv => InstallReported
  BY DEF AttemptInv, AttemptTypeOK, AttemptStrategy, InstallInv, InstallReported, Outcomes
<1> QED
  BY <1>1, <1>2, InstallStep, AptUsesAttempt, AttemptInvariant, PTL DEF AptSpec

-----------------------------------------------------------------------------
(* Voyeur.                                                                    *)

(* The part of the type invariant that the proofs need.                       *)
VersionsTyped ==
  /\ version \in Nat
  /\ wversion \in [Watchers -> Nat] /\ DOMAIN current = Watchers
  /\ DOMAIN wclosed = Watchers /\ DOMAIN mpc = Mutators /\ DOMAIN wpc = Watchers

(* Between its look at the versions and its return, or its wait, a watcher    *)
(* has the read lock, and so the version it has copied is still the Value's.  *)
Guarded ==
  \A w \in Watchers :
    /\ wpc[w] \in {"check", "copy", "added"} => w \in readers
    /\ wpc[w] = "copy" => wversion[w] = version

(* The nth value belongs to version n; a watcher has what the Value had.      *)
VoyeurInv ==
  /\ VersionsTyped /\ Guarded
  /\ val = IF version = 0 THEN None ELSE Vals[version]
  /\ CurrentIsVersion
  /\ NoLostWakeup

(* Every step keeps the invariant.                                            *)
LEMMA VoyeurStep == VoyeurInv /\ [Next]_vars => VoyeurInv'
<1> SUFFICES ASSUME VoyeurInv, [Next]_vars PROVE VoyeurInv'
  OBVIOUS
<1> USE DEF VoyeurInv, VersionsTyped, Guarded, CurrentIsVersion, NoLostWakeup, Ready
(* Steps that leave the value and the watchers' versions alone, make nobody   *)
(* wait and do not finish a broadcast.                                        *)
<1>1. ASSUME UNCHANGED <<val, version, closed, wversion, current, wclosed, waiting>>,
             DOMAIN mpc' = Mutators, Guarded', DOMAIN wpc' = Watchers,
             \A w \in Watchers : wpc[w] = "copy" <=> wpc'[w] = "copy",
             \A m \in Mutators : mpc[m] = "broadcast" => mpc'[m] = "broadcast"
      PROVE  VoyeurInv'
  BY <1>1
<1>2. ASSUME NEW m \in Mutators, Call(m) \/ Lock(m) PROVE VoyeurInv'
  <2>1. /\ UNCHANGED <<val, version, closed, wversion, current, wclosed, waiting, wpc, readers>>
        /\ mpc[m] # "broadcast"
        /\ \E l : mpc' = [mpc EXCEPT ![m] = l]
    BY <1>2 DEF Call, Lock, valueVars, watchVars
  <2> QED
    BY <1>1, <2>1
<1>3. ASSUME NEW m \in Mutators, Mutate(m) PROVE VoyeurInv'
  <2>1. mpc'[m] = "broadcast" /\ DOMAIN mpc' = Mutators
    BY <1>3 DEF Mutate
  <2>2. NoLostWakeup'
    BY <2>1
  <2>3. UNCHANGED <<wversion, current, wpc>>
    BY <1>3 DEF Mutate, watchVars
  <2>4. \A w \in Watchers : wpc[w] \notin {"check", "copy", "added"}
    BY <1>3 DEF Mutate, noReaders
  <2>5. CASE Set
    BY <2>1, <2>2, <2>3, <2>4, <2>5 DEF Set
  <2>6. CASE ValueClose
    BY <2>1, <2>2, <2>3, <2>4, <2>6 DEF ValueClose
  <2>7. CASE WatcherClose(op[m][2])
    BY <2>1, <2>2, <2>3, <2>4, <2>7 DEF WatcherClose, valueVars
  <2> QED
    BY <1>3, <2>5, <2>6, <2>7 DEF Mutate
<1>4. ASSUME NEW m \in Mutators, Broadcast(m) PROVE VoyeurInv'
  BY <1>4 DEF Broadcast, Notified, valueVars, watchVars
<1>5. ASSUME NEW w \in Watchers,
             NextCall(w) \/ RLock(w) \/ InitLock(w) \/ InitValue(w) \/ CondUnlock(w)
             \/ CondWake(w)
      PROVE  VoyeurInv'
  <2>1. UNCHANGED <<val, version, closed, wversion, current, wclosed, waiting, mpc>>
    BY <1>5 DEF NextCall, RLock, InitLock, InitValue, CondUnlock, CondWake,
                valueVars, watchVars
  <2>2. /\ wpc[w] # "copy" /\ \E l : l # "copy" /\ wpc' = [wpc EXCEPT ![w] = l]
        /\ wpc'[w] = "check" => w \in readers'
        /\ wpc'[w] # "added"
        /\ \A v \in Watchers \ {w} : v \in readers => v \in readers'
    BY <1>5 DEF NextCall, RLock, InitLock, InitValue, CondUnlock, CondWake, Round
  <2>3. Guarded'
    BY <2>1, <2>2
  <2> QED
    BY <1>1, <2>1, <2>2, <2>3
<1>6. ASSUME NEW w \in Watchers, NextVersion(w) PROVE VoyeurInv'
  <2>1. /\ UNCHANGED <<val, version, closed, current, wclosed, waiting, mpc, readers>>
        /\ wversion' = [wversion EXCEPT ![w] = version] /\ wpc[w] = "check"
        /\ wpc' = [wpc EXCEPT ![w] = "copy"]
    BY <1>6 DEF NextVersion, valueVars
  <2>2. VersionsTyped' /\ Guarded'
    BY <2>1
  <2>3. CurrentIsVersion'
    BY <2>1
  <2>4. NoLostWakeup'
    BY <2>1
  <2> QED
    BY <2>1, <2>2, <2>3, <2>4
<1>7. ASSUME NEW w \in Watchers, NextTrue(w) PROVE VoyeurInv'
  BY <1>7 DEF NextTrue, NextReturn, valueVars
<1>8. ASSUME NEW w \in Watchers, NextFalse(w) PROVE VoyeurInv'
  BY <1>8 DEF NextFalse, NextReturn, valueVars, watchVars
<1>9. ASSUME NEW w \in Watchers, CondAdd(w) PROVE VoyeurInv'
  BY <1>9 DEF CondAdd, valueVars, watchVars
<1>10. CASE UNCHANGED vars
  BY <1>10 DEF vars
<1> QED
  BY <1>2, <1>3, <1>4, <1>5, <1>6, <1>7, <1>8, <1>9, <1>10 DEF Next, MutatorStep, NextStep

LEMMA VoyeurInvariant == Spec => []VoyeurInv
<1>1. Init => VoyeurInv
  BY DEF Init, VoyeurInv, VersionsTyped, Guarded, CurrentIsVersion, NoLostWakeup
<1> QED
  BY <1>1, VoyeurStep, PTL DEF Spec

(* No watcher sleeps through a change: if there is something to report to it, *)
(* a broadcast is still to come.                                              *)
THEOREM NoLostWakeupHolds == Spec => []NoLostWakeup
BY VoyeurInvariant, PTL DEF VoyeurInv

(* The value and the version of a watcher always belong together.             *)
THEOREM CurrentIsVersionHolds == Spec => []CurrentIsVersion
BY VoyeurInvariant, PTL DEF VoyeurInv
=============================================================================

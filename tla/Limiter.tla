------------------------------- MODULE Limiter -------------------------------
(* src/limiter.go: a counting semaphore, the buffered channel l.  Any user    *)
(* may call any method at any time, Release without having acquired included. *)
EXTENDS Naturals, Sequences

CONSTANT Users         \* the goroutines that share the limiter

VARIABLES
  limit,    \* the capacity of the channel, the argument of NewLimiter
  units,    \* the number of elements in it
  senders,  \* the users blocked in AcquireWait, in the order they came
  out,      \* history: the acquisitions that returned less the releases
  reply     \* what the last call returned

limiterVars == <<limit, units, senders, out, reply>>

LimiterInit(n) ==                                               \* NewLimiter
  limit = n /\ units = 0 /\ senders = <<>> /\ out = 0 /\ reply = "none"

Free(u) == \A k \in DOMAIN senders : senders[k] # u

(* A send on l that does not block: nobody ever waits to receive.             *)
overfull == units <= limit                                        \* mutant
ready == units < limit

Take == units' = units + 1 /\ out' = out + 1 /\ UNCHANGED <<limit, senders>>

Acquire(u) ==
  /\ Free(u)
  /\ \/ ready /\ Take /\ reply' = "acquired"
     \/ ~ready /\ reply' = "refused" /\ UNCHANGED <<limit, units, senders, out>>

AcquireWait(u) ==
  /\ Free(u)
  /\ \/ ready /\ Take /\ reply' = "acquired"
     \/ /\ ~ready /\ senders' = Append(senders, u)
        /\ UNCHANGED <<limit, units, out, reply>>

(* A receive from l lets the first blocked sender put its element in, or, in  *)
(* a channel without capacity, takes it from the sender.                      *)
HandOver == senders' = Tail(senders) /\ UNCHANGED <<units, out>>

Release(u) ==
  /\ Free(u)
  /\ \/ senders # <<>> /\ HandOver /\ reply' = "released"
     \/ /\ senders = <<>> /\ units > 0
        /\ units' = units - 1 /\ out' = out - 1 /\ reply' = "released"
        /\ UNCHANGED senders
     \/ /\ senders = <<>> /\ units = 0 /\ reply' = "error"
        /\ UNCHANGED <<units, senders, out>>
  /\ UNCHANGED limit

LimiterNext == \E u \in Users : Acquire(u) \/ AcquireWait(u) \/ Release(u)

LimiterSpec == (\E n \in Nat : LimiterInit(n)) /\ [][LimiterNext]_limiterVars

(* Never more units out than the limit, nobody waits while one is available,  *)
(* and Release and Acquire refuse only when nothing is out and everything is. *)
LimiterBounded ==
  /\ out = units /\ out <= limit
  /\ senders # <<>> => out = limit
  /\ reply = "error" => out = 0
  /\ reply = "refused" => out = limit
=============================================================================

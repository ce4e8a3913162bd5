----------------------------- MODULE HttpClient ------------------------------
(* src/http.go: the client that does not validate certificates is made when   *)
(* it is first asked for and kept in a variable that a mutex guards.          *)
CONSTANTS Getters      \* goroutines that ask for a client

VARIABLES
  insecureClient,  \* the client: nil, or named after its maker
  mutex,           \* who holds insecureClientMutex
  getting,         \* getting[g]: where g is in a call
  got              \* got[g]: the client g was given last

clientVars == <<insecureClient, mutex, getting, got>>

Nil == "nil"
DefaultClient == "http.DefaultClient"

(* A client is not nil.                                                       *)
ASSUME GettersAssumption == Nil \notin Getters

ClientInit ==
  /\ insecureClient = Nil /\ mutex = Nil
  /\ getting = [g \in Getters |-> "idle"] /\ got = [g \in Getters |-> Nil]

ClientGoto(g, l) == getting' = [getting EXCEPT ![g] = l]

(* GetHTTPClient(VerifySSLHostnames)                                          *)
GetValidatingHTTPClient(g) ==
  /\ getting[g] = "idle"
  /\ got' = [got EXCEPT ![g] = DefaultClient]
  /\ UNCHANGED <<insecureClient, mutex, getting>>

(* GetHTTPClient(NoVerifySSLHostnames): the lock, the test, the new client,   *)
(* and the return.  Mutant: without the lock.                                 *)
unguarded == TRUE
unlocked == mutex = Nil

GetNonValidatingHTTPClient(g) ==
  /\ getting[g] = "idle" /\ unlocked
  /\ mutex' = g /\ ClientGoto(g, "test")
  /\ UNCHANGED <<insecureClient, got>>

TestClient(g) ==
  /\ getting[g] = "test"
  /\ ClientGoto(g, IF insecureClient = Nil THEN "make" ELSE "return")
  /\ UNCHANGED <<insecureClient, mutex, got>>

MakeClient(g) ==
  /\ getting[g] = "make"
  /\ insecureClient' = g /\ ClientGoto(g, "return")
  /\ UNCHANGED <<mutex, got>>

ReturnClient(g) ==
  /\ getting[g] = "return"
  /\ got' = [got EXCEPT ![g] = insecureClient]
  /\ mutex' = Nil /\ ClientGoto(g, "idle")
  /\ UNCHANGED insecureClient

ClientNext ==
  \E g \in Getters :
    \/ GetValidatingHTTPClient(g) \/ GetNonValidatingHTTPClient(g)
    \/ TestClient(g) \/ MakeClient(g) \/ ReturnClient(g)

ClientSpec == ClientInit /\ [][ClientNext]_clientVars

(* However many goroutines ask at once, they share one client that does not   *)
(* validate, and keep it, as the code and TestInsecureClientCached have it;   *)
(* the comments of both functions say that they return "a new http.Client".   *)
ClientShared ==
  \A g \in Getters : got[g] \in {Nil, DefaultClient, insecureClient}
=============================================================================

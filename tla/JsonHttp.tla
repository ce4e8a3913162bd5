------------------------------ MODULE JsonHttp -------------------------------
(* src/jsonhttp/jsonhttp.go: one request served by HandleErrors or HandleJSON.*)
(* The handler may use the wrapped ResponseWriter in any way before it        *)
(* returns.  net/http keeps the first status written and sends 200 with the   *)
(* first byte, or at the end, if there is none.                               *)
EXTENDS Naturals, FiniteSets

VARIABLES
  serving,        \* what is going on: idle, errors, json, writeError, done
  flusher,        \* the underlying ResponseWriter is an http.Flusher
  headerWritten,  \* the field of responseWriter
  status, body,   \* what has been sent: the status, and whose bytes
  failure,        \* history: the error to be reported, if any
  lost            \* history: a Marshal failed on an error's response, or Flush
                  \* was called in vain

httpVars == <<serving, flusher, headerWritten, status, body, failure, lost>>

HttpInit ==
  /\ serving = "idle" /\ flusher = FALSE /\ headerWritten = FALSE
  /\ status = 0 /\ body = {} /\ failure = FALSE /\ lost = FALSE

StatusOK == 200
Teapot   == 418        \* a status the handler chooses
ErrCode  == 500        \* the status errToResp chooses

Sent(code) == IF status = 0 THEN code ELSE status

Serve ==
  /\ serving = "idle"
  /\ serving' \in {"errors", "json"} /\ flusher' \in BOOLEAN
  /\ UNCHANGED <<headerWritten, status, body, failure, lost>>

(* The wrapped methods, called by the handler of HandleErrors.                *)
unnoticed == headerWritten                                        \* mutant
noticed == TRUE

Write ==
  /\ serving = "errors"
  /\ headerWritten' = noticed
  /\ status' = Sent(StatusOK) /\ body' = body \cup {"handler"}
  /\ UNCHANGED <<serving, flusher, failure, lost>>

WriteHeader ==
  /\ serving = "errors"
  /\ headerWritten' = noticed
  /\ status' = Sent(Teapot)
  /\ UNCHANGED <<serving, flusher, body, failure, lost>>

Flush ==
  /\ serving = "errors"
  /\ headerWritten' = noticed
  /\ IF flusher THEN status' = Sent(StatusOK) /\ UNCHANGED lost
                ELSE lost' = (lost \/ status = 0) /\ UNCHANGED status
  /\ UNCHANGED <<serving, flusher, body, failure>>

(* The handler returns; an error is written if nothing else was.              *)
HandlerReturn ==
  /\ serving = "errors"
  /\ failure' \in BOOLEAN
  /\ serving' = IF failure' /\ ~headerWritten THEN "writeError" ELSE "done"
  /\ UNCHANGED <<flusher, headerWritten, status, body, lost>>

(* WriteJSON of a value that can be marshalled.                               *)
WriteJSON(code, what) == status' = Sent(code) /\ body' = body \cup {what}

(* HandleJSON: the handler returns a value, which may not be marshallable, or *)
(* an error.                                                                  *)
JSONHandlerReturn ==
  /\ serving = "json"
  /\ \/ /\ WriteJSON(StatusOK, "value") /\ headerWritten' = noticed
        /\ serving' = "done" /\ UNCHANGED failure
     \/ /\ failure' = TRUE /\ serving' = "writeError"
        /\ UNCHANGED <<status, body, headerWritten>>
  /\ UNCHANGED <<flusher, lost>>

(* WriteError, which ignores the error of WriteJSON.                          *)
WriteError ==
  /\ serving = "writeError"
  /\ \/ WriteJSON(ErrCode, "error") /\ UNCHANGED lost
     \/ lost' = TRUE /\ UNCHANGED <<status, body>>
  /\ serving' = "done"
  /\ UNCHANGED <<flusher, headerWritten, failure>>

HttpNext ==
  \/ Serve \/ Write \/ WriteHeader \/ Flush \/ HandlerReturn
  \/ JSONHandlerReturn \/ WriteError

HttpSpec == HttpInit /\ [][HttpNext]_httpVars

(* An error response never follows what the handler has sent, and the client  *)
(* is told of every error with the status of errToResp, unless the handler    *)
(* has already sent something, the response to the error cannot be            *)
(* marshalled, or the handler has flushed a writer that cannot flush: then it *)
(* is answered 200 with no body.                                              *)
ErrorReported ==
  /\ Cardinality(body) <= 1
  /\ serving = "done" /\ failure =>
       \/ status = ErrCode /\ body = {"error"}
       \/ status \in {StatusOK, Teapot} /\ "error" \notin body
       \/ lost /\ status = 0 /\ body = {}
  /\ serving = "done" /\ ~failure => "error" \notin body
=============================================================================

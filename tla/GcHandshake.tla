----------------------------- MODULE GcHandshake -----------------------------
(***************************************************************************)
(* The request/response handshake between klox's interpreter (the main     *)
(* thread) and its garbage collector (the GC thread), src/c/memory.cpp and *)
(* src/c/cb_integration.cpp.                                               *)
(*                                                                         *)
(* The interpreter writes a gc_request_response record somewhere in the    *)
(* ring, publishes its address in gc_current_request, and later finds the  *)
(* same address in gc_current_response.  Both threads recognise news by    *)
(* comparing that address with the last one they dealt with, so the        *)
(* address is the message: the handshake rests on no address being used    *)
(* for two requests in a row.                                              *)
(*                                                                         *)
(* The atomics are modelled as sequentially consistent: each is a single   *)
(* location, written with release and read with acquire before anything    *)
(* behind the pointer is touched.                                          *)
(***************************************************************************)
EXTENDS Naturals

CONSTANTS
  Addr,         \* addresses a gc_request_response can be allocated at
  NULL,         \* the null pointer
  MaxRequests   \* bound on the number of collections, for TLC

ASSUME HandshakeAssumption ==
  /\ NULL \notin Addr
  /\ MaxRequests \in Nat

VARIABLES
  sync_gc,      \* KLOX_SYNC_GC, chosen when klox is built: collectGarbage()
                \* waits for the response
  \* shared between the threads
  gc_current_request,
  gc_current_response,
  gc_stop_flag,
  rr_mem,                      \* the record held at each address
  \* the main thread
  pc,
  rr,                          \* collectGarbage()'s local rr
  rr1,                         \* integrate_any_gc_response()'s local rr1
  gc_request_is_outstanding,
  gc_last_processed_response,
  requests,                    \* number of requests published so far
  integrated,                  \* number carried by the last answer integrated
  \* the GC thread
  gpc,
  last_request,
  curr_request

shared == <<gc_current_request, gc_current_response, gc_stop_flag, rr_mem>>
main == <<pc, rr, rr1, gc_request_is_outstanding, gc_last_processed_response,
          requests, integrated>>
gc == <<gpc, last_request, curr_request>>
vars == <<sync_gc, shared, main, gc>>

(***************************************************************************)
(* A record is abstracted to the number of the request written in it and   *)
(* the number of the request its response part answers (0: none yet).      *)
(***************************************************************************)
Record == [req : 0..MaxRequests, resp : 0..MaxRequests]

Init ==
  /\ sync_gc \in BOOLEAN
  /\ gc_current_request = NULL
  /\ gc_current_response = NULL
  /\ gc_stop_flag = FALSE
  /\ rr_mem = [a \in Addr |-> [req |-> 0, resp |-> 0]]
  /\ pc = "run"
  /\ rr = NULL
  /\ rr1 = NULL
  /\ gc_request_is_outstanding = FALSE
  /\ gc_last_processed_response = NULL
  /\ requests = 0
  /\ integrated = 0
  /\ gpc = "loop"
  /\ last_request = NULL
  /\ curr_request = NULL
-----------------------------------------------------------------------------
(***************************************************************************)
(* The main thread.                                                        *)
(***************************************************************************)

\* Bug form of PrepareRequest: the do/while around the record's allocation is
\* gone, so the record may land where the last one was.
PrepareRequestAnywhere(a) ==
  /\ pc = "run"
  /\ ~gc_request_is_outstanding
  /\ requests < MaxRequests
  /\ rr' = a
  /\ rr_mem' = [rr_mem EXCEPT ![a] = [req |-> requests + 1, resp |-> 0]]
  /\ pc' = "submit"
  /\ UNCHANGED <<sync_gc, gc_current_request, gc_current_response,
                 gc_stop_flag, rr1, gc_request_is_outstanding,
                 gc_last_processed_response, requests, integrated, gc>>

\* Bug form of PrepareRequest: reallocate_within() collects without asking
\* whether a request is outstanding.
PrepareRequestWhileOutstanding(a) ==
  /\ pc = "run"
  /\ requests < MaxRequests
  /\ a # gc_last_processed_response
  /\ rr' = a
  /\ rr_mem' = [rr_mem EXCEPT ![a] = [req |-> requests + 1, resp |-> 0]]
  /\ pc' = "submit"
  /\ UNCHANGED <<sync_gc, gc_current_request, gc_current_response,
                 gc_stop_flag, rr1, gc_request_is_outstanding,
                 gc_last_processed_response, requests, integrated, gc>>

\* An allocation needs a collection and none is outstanding: collectGarbage()
\* allocates the record, again until its address differs from the last
\* processed response's, then clears and fills it.
PrepareRequest(a) ==
  /\ pc = "run"
  /\ ~gc_request_is_outstanding
  /\ requests < MaxRequests
  /\ a # gc_last_processed_response
  /\ rr' = a
  /\ rr_mem' = [rr_mem EXCEPT ![a] = [req |-> requests + 1, resp |-> 0]]
  /\ pc' = "submit"
  /\ UNCHANGED <<sync_gc, gc_current_request, gc_current_response,
                 gc_stop_flag, rr1, gc_request_is_outstanding,
                 gc_last_processed_response, requests, integrated, gc>>

\* Bug form of SubmitRequest: goes round the submission again.
SubmitRequestRepeatedly ==
  /\ pc = "submit"
  /\ gc_current_request' = rr
  /\ gc_request_is_outstanding' = TRUE
  /\ requests' = requests + 1
  /\ UNCHANGED <<sync_gc, gc_current_response, gc_stop_flag, rr_mem, pc, rr,
                 rr1, gc_last_processed_response, integrated, gc>>

\* gc_submit_request(): publish the record, then note it is outstanding (the
\* flag is the main thread's own).  Under KLOX_SYNC_GC wait for the answer.
SubmitRequest ==
  /\ pc = "submit"
  /\ gc_current_request' = rr
  /\ gc_request_is_outstanding' = TRUE
  /\ requests' = requests + 1
  /\ pc' = IF sync_gc THEN "await" ELSE "run"
  /\ UNCHANGED <<sync_gc, gc_current_response, gc_stop_flag, rr_mem, rr, rr1,
                 gc_last_processed_response, integrated, gc>>

\* integrateGCResponse(resp) as this protocol sees it: take the answer over,
\* allow the next request, and then remember the response as processed.
IntegrateGCResponse(resp) ==
  /\ integrated' = rr_mem[resp].resp
  /\ gc_request_is_outstanding' = FALSE
  /\ gc_last_processed_response' = resp
  /\ pc' = "run"
  /\ UNCHANGED <<sync_gc, shared, rr, rr1, requests, gc>>

\* The KLOX_SYNC_GC end of collectGarbage(): gc_await_response() spins while
\* the response is the last processed one, then the answer is integrated.
AwaitResponse ==
  /\ pc = "await"
  /\ gc_current_response # gc_last_processed_response
  /\ IntegrateGCResponse(gc_current_response)

\* integrate_any_gc_response(), first load: nothing happens unless the
\* response is news.  Run at every OP_LOOP, OP_CALL, OP_INVOKE,
\* OP_SUPER_INVOKE and OP_RETURN.
SampleResponse ==
  /\ pc = "run"
  /\ gc_current_response # gc_last_processed_response
  /\ rr1' = gc_current_response
  /\ pc' = "sampled"
  /\ UNCHANGED <<sync_gc, shared, rr, gc_request_is_outstanding,
                 gc_last_processed_response, requests, integrated, gc>>

\* integrate_any_gc_response(), second load and integration.
IntegrateResponse ==
  /\ pc = "sampled"
  /\ IntegrateGCResponse(gc_current_response)

\* The program ends, normally or through exitWithError(): gc_deinit() raises
\* the stop flag and joins the GC thread, whatever is outstanding.
Stop ==
  /\ pc = "run"
  /\ gc_stop_flag' = TRUE
  /\ pc' = "join"
  /\ UNCHANGED <<sync_gc, gc_current_request, gc_current_response, rr_mem,
                 rr, rr1, gc_request_is_outstanding,
                 gc_last_processed_response, requests, integrated, gc>>

Join ==
  /\ pc = "join"
  /\ gpc = "exited"
  /\ pc' = "exited"
  /\ UNCHANGED <<sync_gc, shared, rr, rr1, gc_request_is_outstanding,
                 gc_last_processed_response, requests, integrated, gc>>
-----------------------------------------------------------------------------
(***************************************************************************)
(* The GC thread: gc_main_loop().                                          *)
(***************************************************************************)

\* Bug form of CheckStop: the loop's condition is lost.
NeverStop ==
  /\ gpc = "loop"
  /\ gpc' = "poll"
  /\ UNCHANGED <<sync_gc, shared, main, last_request, curr_request>>

\* The loop's condition.
CheckStop ==
  /\ gpc = "loop"
  /\ gpc' = IF gc_stop_flag THEN "exited" ELSE "poll"
  /\ UNCHANGED <<sync_gc, shared, main, last_request, curr_request>>

\* Load the current request; sleep and go round again if it is the last one.
PollRequest ==
  /\ gpc = "poll"
  /\ curr_request' = gc_current_request
  /\ gpc' = IF gc_current_request = last_request THEN "loop" ELSE "perform"
  /\ UNCHANGED <<sync_gc, shared, main, last_request>>

\* gc_perform(): read the request, write the response into the same record.
Perform ==
  /\ gpc = "perform"
  /\ rr_mem' = [rr_mem EXCEPT ![curr_request].resp = rr_mem[curr_request].req]
  /\ gpc' = "respond"
  /\ UNCHANGED <<sync_gc, gc_current_request, gc_current_response,
                 gc_stop_flag, main, last_request, curr_request>>

\* gc_submit_response().
SubmitResponse ==
  /\ gpc = "respond"
  /\ gc_current_response' = curr_request
  /\ gpc' = "finish"
  /\ UNCHANGED <<sync_gc, gc_current_request, gc_stop_flag, rr_mem, main,
                 last_request, curr_request>>

\* Bug form of FinishRequest: remembers what is current, not what was done.
FinishWithCurrent ==
  /\ gpc = "finish"
  /\ last_request' = gc_current_request
  /\ gpc' = "loop"
  /\ UNCHANGED <<sync_gc, shared, main, curr_request>>

\* last_request = curr_request, after the response was published: the main
\* thread may already have integrated it and published another request.
FinishRequest ==
  /\ gpc = "finish"
  /\ last_request' = curr_request
  /\ gpc' = "loop"
  /\ UNCHANGED <<sync_gc, shared, main, curr_request>>
-----------------------------------------------------------------------------
\* Both threads are gone.
Terminated ==
  /\ pc = "exited"
  /\ gpc = "exited"
  /\ UNCHANGED vars

MainNext ==
  \/ \E a \in Addr : PrepareRequest(a)
  \/ SubmitRequest
  \/ AwaitResponse
  \/ SampleResponse
  \/ IntegrateResponse
  \/ Stop
  \/ Join

GcNext ==
  \/ CheckStop
  \/ PollRequest
  \/ Perform
  \/ SubmitResponse
  \/ FinishRequest

Next == MainNext \/ GcNext \/ Terminated

(***************************************************************************)
(* The GC thread keeps being scheduled.  Of the main thread, only the      *)
(* steps it is committed to once begun are fair: it may run forever        *)
(* without collecting, and may wait for input without reaching a point     *)
(* where it looks for a response.                                          *)
(***************************************************************************)
Fairness ==
  /\ WF_vars(GcNext)
  /\ WF_vars(SubmitRequest)
  /\ WF_vars(AwaitResponse)
  /\ WF_vars(IntegrateResponse)
  /\ WF_vars(Join)

Spec == Init /\ [][Next]_vars /\ Fairness
-----------------------------------------------------------------------------
(***************************************************************************)
(* Properties.                                                             *)
(***************************************************************************)

\* Every variable holds a value of its C++ type (pointers are NULL or an
\* address a record can have).
TypeOK ==
  /\ sync_gc \in BOOLEAN
  /\ gc_current_request \in Addr \cup {NULL}
  /\ gc_current_response \in Addr \cup {NULL}
  /\ gc_stop_flag \in BOOLEAN
  /\ rr_mem \in [Addr -> Record]
  /\ pc \in {"run", "submit", "await", "sampled", "join", "exited"}
  /\ rr \in Addr \cup {NULL}
  /\ rr1 \in Addr \cup {NULL}
  /\ gc_request_is_outstanding \in BOOLEAN
  /\ gc_last_processed_response \in Addr \cup {NULL}
  /\ requests \in 0..MaxRequests
  /\ integrated \in 0..MaxRequests
  /\ gpc \in {"loop", "poll", "perform", "respond", "finish", "exited"}
  /\ last_request \in Addr \cup {NULL}
  /\ curr_request \in Addr \cup {NULL}

\* When the main thread sees a response that is news to it, that response is
\* the current request's, it is the one outstanding, and its record holds the
\* finished answer to the newest request.  This is what the asserts in
\* gc_await_response() and integrate_any_gc_response() state ("We have at most
\* one outstanding GC request", rr2 == rr1) and what integration relies on.
FreshResponseIsCurrent ==
  /\ gc_current_response # gc_last_processed_response =>
       /\ gc_request_is_outstanding
       /\ gc_current_response = gc_current_request
       /\ rr_mem[gc_current_response].resp = requests
  /\ pc = "sampled" =>
       /\ gc_current_response = rr1
       /\ gc_current_response # gc_last_processed_response

\* Between publication and answer, the GC thread can still tell the request
\* from the one it did last: no request is ever mistaken for an old one.  This
\* is the "exceedingly rare" address reuse collectGarbage()'s loop guards
\* against.
PendingRequestIsNoticeable ==
  (gc_request_is_outstanding /\ gc_current_response = gc_last_processed_response)
    => /\ gc_current_request # gc_last_processed_response
       /\ gpc \in {"perform", "respond"} => curr_request = gc_current_request
       /\ gpc \in {"loop", "poll"} => last_request # gc_current_request

\* While the GC thread works on a record the main thread does not touch it.
RecordBelongsToGcThread ==
  [][(gpc \in {"perform", "respond"} =>
        rr_mem'[curr_request].req = rr_mem[curr_request].req)]_vars

\* The handshake implements GcCycle: one collection at a time, answers
\* integrated exactly once and in the order of their requests.
Phase ==
  IF ~gc_request_is_outstanding THEN "idle"
  ELSE IF gc_current_response = gc_current_request THEN "answered"
  ELSE "requested"

Cycle == INSTANCE GcCycle
           WITH phase <- Phase, requested <- requests, integrated <- integrated

CycleSpec == Cycle!Spec

\* Every request is answered in the end, unless the program stops first:
\* gc_main_loop() does not sleep past a request, whenever it is published.
RequestIsAnswered == (Phase = "requested") ~> (Phase = "answered" \/ gc_stop_flag)

\* Under KLOX_SYNC_GC the interpreter does not spin forever in
\* gc_await_response().
AwaitReturns == (pc = "await") ~> (pc = "run")

\* gc_deinit() returns: the GC thread is not stuck when it is told to stop,
\* even in the middle of a collection.
ShutdownCompletes == (pc = "join") ~> (pc = "exited")
=============================================================================

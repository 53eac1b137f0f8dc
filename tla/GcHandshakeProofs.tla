-------------------------- MODULE GcHandshakeProofs --------------------------
(***************************************************************************)
(* Proofs about GcHandshake: its type invariant, the two safety            *)
(* invariants, the ownership of the record, and that it implements         *)
(* GcCycle, for every set of addresses and every number of requests, with  *)
(* and without KLOX_SYNC_GC.                                               *)
(***************************************************************************)
EXTENDS GcHandshake, TLAPS

(***************************************************************************)
(* The inductive invariant.  It follows a collection through its three     *)
(* phases and says in each of them what the four addresses (current        *)
(* request, current response, last processed response, and the one the GC  *)
(* thread remembers) have to do with each other.                           *)
(***************************************************************************)

\* The address the GC thread will next compare gc_current_request with.
Remembered == IF gpc = "finish" THEN curr_request ELSE last_request

\* Between integration and the next request all four are the same address.
IdleInv ==
  ~gc_request_is_outstanding =>
    /\ gc_current_response = gc_last_processed_response
    /\ gc_current_request = gc_last_processed_response
    /\ Remembered = gc_current_request
    /\ gpc \notin {"perform", "respond"}
    /\ integrated = requests

\* A request that was published is at an address other than the last one, and
\* its record keeps it.
OutstandingInv ==
  gc_request_is_outstanding =>
    /\ gc_current_request \in Addr
    /\ gc_current_request # gc_last_processed_response
    /\ rr_mem[gc_current_request].req = requests

\* Until it is answered the GC thread either remembers the last address, and so
\* will notice, or works on this one.
PendingInv ==
  (gc_request_is_outstanding /\ gc_current_response = gc_last_processed_response)
    => IF gpc \in {"perform", "respond"}
         THEN /\ curr_request = gc_current_request
              /\ gpc = "respond" => rr_mem[gc_current_request].resp = requests
         ELSE Remembered = gc_last_processed_response

\* Once answered, the response is the request's record and holds its answer.
AnsweredInv ==
  gc_current_response # gc_last_processed_response =>
    /\ gc_request_is_outstanding
    /\ gc_current_response = gc_current_request
    /\ rr_mem[gc_current_request].resp = requests
    /\ Remembered = gc_current_request
    /\ gpc \notin {"perform", "respond"}

\* What each place in the main thread's code knows.
ControlInv ==
  /\ pc = "submit" => /\ ~gc_request_is_outstanding
                      /\ requests < MaxRequests
                      /\ rr \in Addr
                      /\ rr # gc_last_processed_response
                      /\ rr_mem[rr].req = requests + 1
  /\ pc = "await" => gc_request_is_outstanding
  /\ pc = "sampled" => /\ gc_current_response # gc_last_processed_response
                       /\ rr1 = gc_current_response

IInv ==
  /\ TypeOK
  /\ IdleInv
  /\ OutstandingInv
  /\ PendingInv
  /\ AnsweredInv
  /\ ControlInv
-----------------------------------------------------------------------------
(***************************************************************************)
(* Type correctness.  PrepareRequest is the one that needs the bound on    *)
(* the requests; SubmitRequest needs to know what PrepareRequest left.     *)
(***************************************************************************)

\* In the initial state no request was made and every pointer is null.
LEMMA InitIInv == Init => IInv
<1> USE HandshakeAssumption DEF Init
<1>1. Init => TypeOK
  <2>1. Init => rr_mem \in [Addr -> Record]
    BY DEF Record
  <2>2. Init => requests \in 0..MaxRequests /\ integrated \in 0..MaxRequests
    OBVIOUS
  <2> HIDE HandshakeAssumption
  <2> QED
    BY <2>1, <2>2 DEF TypeOK
<1>2. Init => IdleInv /\ OutstandingInv /\ PendingInv /\ AnsweredInv /\ ControlInv
  BY DEF IdleInv, OutstandingInv, PendingInv, AnsweredInv, ControlInv, Remembered
<1> QED
  BY <1>1, <1>2 DEF IInv

\* Every step of the main thread keeps the types.
LEMMA MainTypeOK == IInv /\ MainNext => TypeOK'
<1> SUFFICES ASSUME IInv, MainNext PROVE TypeOK'
  OBVIOUS
<1> USE HandshakeAssumption DEF IInv, TypeOK, Record, gc, shared, main
<1>1. ASSUME NEW a \in Addr, PrepareRequest(a) PROVE TypeOK'
  BY <1>1 DEF PrepareRequest
<1>2. CASE SubmitRequest
  BY <1>2 DEF SubmitRequest, ControlInv
<1>3. CASE AwaitResponse
  BY <1>3 DEF AwaitResponse, IntegrateGCResponse, AnsweredInv, OutstandingInv
<1>4. CASE SampleResponse
  BY <1>4 DEF SampleResponse
<1>5. CASE IntegrateResponse
  BY <1>5 DEF IntegrateResponse, IntegrateGCResponse, AnsweredInv, OutstandingInv,
              ControlInv
<1>6. CASE Stop
  BY <1>6 DEF Stop
<1>7. CASE Join
  BY <1>7 DEF Join
<1> HIDE DEF TypeOK, IInv, Record
<1> QED
  BY <1>1, <1>2, <1>3, <1>4, <1>5, <1>6, <1>7 DEF MainNext

\* So does every step of the GC thread.
LEMMA GcTypeOK == IInv /\ GcNext => TypeOK'
<1> SUFFICES ASSUME IInv, GcNext PROVE TypeOK'
  OBVIOUS
<1> USE HandshakeAssumption DEF IInv, TypeOK, Record, gc, shared, main
<1>1. CASE CheckStop
  BY <1>1 DEF CheckStop
<1>2. CASE PollRequest
  BY <1>2 DEF PollRequest
<1>3. CASE Perform
  <2>1. rr_mem' \in [Addr -> Record]
    BY <1>3 DEF Perform
  <2> QED
    BY <1>3, <2>1 DEF Perform
<1>4. CASE SubmitResponse
  BY <1>4 DEF SubmitResponse
<1>5. CASE FinishRequest
  BY <1>5 DEF FinishRequest
<1> QED
  BY <1>1, <1>2, <1>3, <1>4, <1>5 DEF GcNext
-----------------------------------------------------------------------------
(***************************************************************************)
(* The other conjuncts, one lemma for each action that disturbs them.      *)
(***************************************************************************)

\* The part of IInv that relates the addresses.
Related == IdleInv /\ OutstandingInv /\ PendingInv /\ AnsweredInv /\ ControlInv

\* The record is written at an address the last collection did not use, while
\* no other record is in use.
LEMMA PrepareRequestRelated ==
  ASSUME IInv, NEW a \in Addr, PrepareRequest(a)
  PROVE  Related'
<1> USE DEF IInv, TypeOK, Record, gc, PrepareRequest
<1>1. IdleInv'
  BY DEF IdleInv, Remembered
<1>2. OutstandingInv' /\ PendingInv'
  BY DEF OutstandingInv, PendingInv
<1>3. AnsweredInv'
  BY DEF IdleInv, AnsweredInv
<1>4. ControlInv'
  BY DEF ControlInv
<1> QED
  BY <1>1, <1>2, <1>3, <1>4 DEF Related

\* Publication takes the collection from idle to pending.
LEMMA SubmitRequestRelated ==
  ASSUME IInv, SubmitRequest
  PROVE  Related'
<1> USE DEF IInv, TypeOK, Record, gc, SubmitRequest
<1>1. IdleInv' /\ OutstandingInv'
  BY DEF IdleInv, OutstandingInv, ControlInv
<1>2. PendingInv'
  BY DEF PendingInv, IdleInv, ControlInv, Remembered
<1>3. AnsweredInv'
  BY DEF AnsweredInv, IdleInv, ControlInv
<1>4. ControlInv'
  BY DEF ControlInv
<1> QED
  BY <1>1, <1>2, <1>3, <1>4 DEF Related

\* Integration of the response takes it back to idle.
LEMMA IntegrateRelated ==
  ASSUME IInv, IntegrateGCResponse(gc_current_response),
         gc_current_response # gc_last_processed_response
  PROVE  Related'
<1> USE DEF IInv, TypeOK, Record, gc, shared, IntegrateGCResponse
<1>1. IdleInv'
  BY DEF IdleInv, AnsweredInv, Remembered
<1>2. OutstandingInv' /\ PendingInv' /\ AnsweredInv' /\ ControlInv'
  BY DEF OutstandingInv, PendingInv, AnsweredInv, ControlInv
<1> QED
  BY <1>1, <1>2 DEF Related

\* Every step of the main thread.
LEMMA MainRelated == IInv /\ MainNext => Related'
<1> SUFFICES ASSUME IInv, MainNext PROVE Related'
  OBVIOUS
<1>1. ASSUME NEW a \in Addr, PrepareRequest(a) PROVE Related'
  BY <1>1, PrepareRequestRelated
<1>2. CASE SubmitRequest
  BY <1>2, SubmitRequestRelated
<1>3. CASE AwaitResponse
  BY <1>3, IntegrateRelated DEF AwaitResponse
<1>4. CASE SampleResponse
  BY <1>4 DEF SampleResponse, IInv, Related, IdleInv, OutstandingInv, PendingInv,
              AnsweredInv, ControlInv, Remembered, shared, gc
<1>5. CASE IntegrateResponse
  BY <1>5, IntegrateRelated DEF IntegrateResponse, IInv, ControlInv
<1>6. CASE Stop
  BY <1>6 DEF Stop, IInv, Related, IdleInv, OutstandingInv, PendingInv,
              AnsweredInv, ControlInv, Remembered, gc
<1>7. CASE Join
  BY <1>7 DEF Join, IInv, Related, IdleInv, OutstandingInv, PendingInv,
              AnsweredInv, ControlInv, Remembered, shared, gc
<1> QED
  BY <1>1, <1>2, <1>3, <1>4, <1>5, <1>6, <1>7 DEF MainNext

\* gc_perform() fills in the response of the one record that is outstanding.
LEMMA PerformRelated ==
  ASSUME IInv, Perform
  PROVE  Related'
<1> USE DEF IInv, TypeOK, Record, main, Perform
<1>1. /\ gc_request_is_outstanding
      /\ gc_current_response = gc_last_processed_response
      /\ curr_request = gc_current_request
  BY DEF IdleInv, PendingInv, AnsweredInv
<1>2. IdleInv' /\ OutstandingInv'
  BY <1>1 DEF IdleInv, OutstandingInv
<1>3. PendingInv'
  BY <1>1 DEF PendingInv, OutstandingInv
<1>4. AnsweredInv' /\ ControlInv'
  BY <1>1 DEF AnsweredInv, ControlInv
<1> QED
  BY <1>2, <1>3, <1>4 DEF Related

\* gc_submit_response() takes the collection from pending to answered.
LEMMA SubmitResponseRelated ==
  ASSUME IInv, SubmitResponse
  PROVE  Related'
<1> USE DEF IInv, TypeOK, Record, main, SubmitResponse
<1>1. /\ gc_request_is_outstanding
      /\ gc_current_response = gc_last_processed_response
      /\ curr_request = gc_current_request
      /\ rr_mem[gc_current_request].resp = requests
  BY DEF IdleInv, PendingInv, AnsweredInv
<1>2. IdleInv' /\ OutstandingInv'
  BY <1>1 DEF IdleInv, OutstandingInv
<1>3. PendingInv' /\ AnsweredInv'
  BY <1>1 DEF PendingInv, AnsweredInv, OutstandingInv, Remembered
<1>4. ControlInv'
  BY <1>1 DEF ControlInv
<1> QED
  BY <1>2, <1>3, <1>4 DEF Related

\* Every step of the GC thread.
LEMMA GcRelated == IInv /\ GcNext => Related'
<1> SUFFICES ASSUME IInv, GcNext PROVE Related'
  OBVIOUS
<1>1. CASE CheckStop
  BY <1>1 DEF CheckStop, IInv, Related, IdleInv, OutstandingInv, PendingInv,
              AnsweredInv, ControlInv, Remembered, shared, main
<1>2. CASE PollRequest
  BY <1>2 DEF PollRequest, IInv, Related, IdleInv, OutstandingInv, PendingInv,
              AnsweredInv, ControlInv, Remembered, shared, main
<1>3. CASE Perform
  BY <1>3, PerformRelated
<1>4. CASE SubmitResponse
  BY <1>4, SubmitResponseRelated
<1>5. CASE FinishRequest
  BY <1>5 DEF FinishRequest, IInv, Related, IdleInv, OutstandingInv, PendingInv,
              AnsweredInv, ControlInv, Remembered, shared, main
<1> QED
  BY <1>1, <1>2, <1>3, <1>4, <1>5 DEF GcNext
-----------------------------------------------------------------------------
\* The invariant is inductive.
LEMMA NextIInv == IInv /\ [Next]_vars => IInv'
<1> SUFFICES ASSUME IInv, [Next]_vars PROVE IInv'
  OBVIOUS
<1>1. CASE MainNext
  BY <1>1, MainTypeOK, MainRelated DEF IInv, Related
<1>2. CASE GcNext
  BY <1>2, GcTypeOK, GcRelated DEF IInv, Related
<1>3. CASE UNCHANGED vars
  BY <1>3 DEF vars, shared, main, gc, IInv, TypeOK, IdleInv, OutstandingInv,
              PendingInv, AnsweredInv, ControlInv, Remembered
<1> QED
  BY <1>1, <1>2, <1>3 DEF Next, Terminated

\* IInv holds throughout.
THEOREM Invariance == Spec => []IInv
  BY InitIInv, NextIInv, PTL DEF Spec

\* Every variable keeps its type, and no more than MaxRequests are counted.
THEOREM TypeCorrectness == Spec => []TypeOK
<1>1. IInv => TypeOK
  BY DEF IInv
<1> QED
  BY <1>1, Invariance, PTL

\* A response that is news is the outstanding request's, with its answer in it:
\* the asserts of gc_await_response() and integrate_any_gc_response() hold.
THEOREM FreshResponse == Spec => []FreshResponseIsCurrent
<1>1. IInv => FreshResponseIsCurrent
  BY DEF IInv, AnsweredInv, ControlInv, FreshResponseIsCurrent
<1> QED
  BY <1>1, Invariance, PTL

\* No request is mistaken for the last one, however addresses are reused.
THEOREM PendingRequest == Spec => []PendingRequestIsNoticeable
<1>1. IInv => PendingRequestIsNoticeable
  BY DEF IInv, OutstandingInv, PendingInv, Remembered, PendingRequestIsNoticeable
<1> QED
  BY <1>1, Invariance, PTL

\* The record the GC thread works on is not written by the main thread.
THEOREM RecordOwnership == Spec => RecordBelongsToGcThread
<1> DEFINE A == gpc \in {"perform", "respond"} =>
                  rr_mem'[curr_request].req = rr_mem[curr_request].req
<1>1. IInv /\ [Next]_vars => [A]_vars
  <2> SUFFICES ASSUME IInv, Next, gpc \in {"perform", "respond"}
               PROVE  rr_mem'[curr_request].req = rr_mem[curr_request].req
    OBVIOUS
  <2>1. gc_request_is_outstanding /\ curr_request \in Addr
    BY DEF IInv, IdleInv, PendingInv, AnsweredInv, OutstandingInv
  <2>2. ASSUME NEW a \in Addr PROVE ~PrepareRequest(a)
    BY <2>1 DEF PrepareRequest
  <2>3. CASE Perform
    BY <2>1, <2>3 DEF Perform, IInv, TypeOK, Record
  <2>4. CASE UNCHANGED rr_mem
    BY <2>4
  <2> QED
    BY <2>2, <2>3, <2>4 DEF Next, MainNext, GcNext, SubmitRequest, AwaitResponse,
       SampleResponse, IntegrateResponse, IntegrateGCResponse, Stop, Join, CheckStop,
       PollRequest, SubmitResponse, FinishRequest, Terminated, vars, shared
<1> QED
  BY <1>1, Invariance, PTL DEF Spec, RecordBelongsToGcThread
-----------------------------------------------------------------------------
(***************************************************************************)
(* Refinement: GcHandshake implements GcCycle.                             *)
(***************************************************************************)

\* Only publication starts a collection, only gc_submit_response() answers it,
\* only integration ends it; everything else is a stutter.
LEMMA StepRefines == IInv /\ [Next]_vars => [Cycle!Next]_(Cycle!vars)
<1> SUFFICES ASSUME IInv, [Next]_vars PROVE [Cycle!Next]_(Cycle!vars)
  OBVIOUS
<1> USE DEF IInv
<1>1. CASE SubmitRequest
  <2>1. Phase = "idle" /\ Phase' = "requested"
    BY <1>1 DEF SubmitRequest, ControlInv, IdleInv, Phase
  <2> QED
    BY <1>1, <2>1 DEF SubmitRequest, Cycle!Next, Cycle!Request
<1>2. CASE SubmitResponse
  <2>1. Phase = "requested" /\ Phase' = "answered"
    BY <1>2 DEF SubmitResponse, main, IdleInv, OutstandingInv, PendingInv, AnsweredInv,
                Phase
  <2> QED
    BY <1>2, <2>1 DEF SubmitResponse, main, Cycle!Next, Cycle!Answer
<1>3. CASE AwaitResponse \/ IntegrateResponse
  <2>1. /\ IntegrateGCResponse(gc_current_response)
        /\ gc_current_response # gc_last_processed_response
    BY <1>3 DEF AwaitResponse, IntegrateResponse, ControlInv
  <2>2. Phase = "answered" /\ Phase' = "idle"
    BY <2>1 DEF IntegrateGCResponse, AnsweredInv, Phase
  <2>3. integrated' = requests /\ UNCHANGED requests
    BY <2>1 DEF IntegrateGCResponse, AnsweredInv
  <2> QED
    BY <2>2, <2>3 DEF Cycle!Next, Cycle!Integrate
<1>4. CASE UNCHANGED <<gc_current_request, gc_current_response,
                       gc_request_is_outstanding, requests, integrated>>
  BY <1>4 DEF Phase, Cycle!vars
<1> QED
  BY <1>1, <1>2, <1>3, <1>4 DEF Next, MainNext, GcNext, PrepareRequest,
     SampleResponse, Stop, Join, CheckStop, PollRequest, Perform, FinishRequest,
     Terminated, vars, shared, main

\* The handshake implements GcCycle.
THEOREM Refinement == Spec => CycleSpec
<1>1. Init => Cycle!Init
  BY DEF Init, Cycle!Init, Phase
<1> QED
  BY <1>1, StepRefines, Invariance, PTL DEF Spec, CycleSpec, Cycle!Spec
=============================================================================

---------------------------- MODULE HttpPairing ----------------------------
(***************************************************************************)
(* Which request an HTTP response answers (src/http_log.c, #71): a table   *)
(* of flows, each with its most recent request, filled as requests are     *)
(* recorded and consulted as responses arrive.  The capture thread drives  *)
(* it and the operator's [c] key clears it, each step under g_flow_mu.     *)
(*                                                                         *)
(* `httpWire` is the connection itself: a client may pipeline, a server    *)
(* answers in order (HTTP/1.1), and the capture may miss a message.        *)
(*                                                                         *)
(* Names ending in _m and a number are defective forms of the definition   *)
(* that follows; no action uses them.                                      *)
(***************************************************************************)
EXTENDS Integers, Sequences

CONSTANTS
    HttpFlows,    \* client/server four-tuples
    HttpFlowMax,  \* HTTP_FLOW_MAX
    HttpMisses,   \* bound: messages the capture misses
    HttpSends,    \* bound: requests per flow
    HttpTicks     \* bound: the clock

ASSUME HttpAssumption ==
    /\ HttpFlowMax \in Nat \ {0} /\ HttpMisses \in Nat
    /\ HttpSends \in Nat /\ HttpTicks \in Nat

VARIABLES
    httpSlots,    \* g_flow[0 .. g_flow_n - 1]: flow, in_flight, req, ts
    httpClock,    \* the second a request is stamped with
    httpSent,     \* flow -> requests sent on it, the number of the last
    httpWire,     \* flow -> requests not answered yet, oldest first
    httpMissed,   \* messages the capture missed
    httpClean,    \* flow -> alternating and wholly seen since it was last idle
    httpGiven,    \* <<flow, request>> attributed to a response so far
    httpLast      \* the last response: what it answered, what it was given

httpVars == <<httpSlots, httpClock, httpSent, httpWire, httpMissed, httpClean,
              httpGiven, httpLast>>

NoRequest == 0

HttpInit ==
    /\ httpSlots = <<>> /\ httpClock = 0
    /\ httpSent = [f \in HttpFlows |-> 0]
    /\ httpWire = [f \in HttpFlows |-> <<>>]
    /\ httpMissed = 0
    /\ httpClean = [f \in HttpFlows |-> TRUE]
    /\ httpGiven = {}
    /\ httpLast = [want |-> NoRequest, got |-> NoRequest,
                   clean |-> TRUE, again |-> FALSE]

-----------------------------------------------------------------------------
(* flow_note_request()                                                     *)

SlotsOf(f) == {i \in DOMAIN httpSlots : httpSlots[i].flow = f}

\* the first slot whose request is the oldest
Stalest(i) ==
    /\ \A j \in DOMAIN httpSlots : httpSlots[i].ts <= httpSlots[j].ts
    /\ \A j \in 1 .. i - 1 : httpSlots[i].ts < httpSlots[j].ts

\* a second request before an answer makes the slot unpairable
Noted(s, r) ==
    [s EXCEPT !.in_flight = IF @ = 0 THEN 1 ELSE -1,
              !.req = IF s.in_flight = 0 THEN r ELSE @,
              !.ts = httpClock]

EmptySlot(f) == [flow |-> f, in_flight |-> 0, req |-> NoRequest, ts |-> 0]

NoteKnown(f, r) ==
    \E i \in SlotsOf(f) : httpSlots' = [httpSlots EXCEPT ![i] = Noted(@, r)]

NoteNew(f, r) ==
    /\ SlotsOf(f) = {} /\ Len(httpSlots) < HttpFlowMax
    /\ httpSlots' = Append(httpSlots, Noted(EmptySlot(f), r))

NoteEvicting(f, r) ==
    /\ SlotsOf(f) = {} /\ Len(httpSlots) = HttpFlowMax
    /\ \E i \in DOMAIN httpSlots :
          /\ Stalest(i)
          /\ httpSlots' = [httpSlots EXCEPT ![i] = Noted(EmptySlot(f), r)]

\* the client sends its next request; the capture sees it or misses it
HttpRequest(f) ==
    LET r == httpSent[f] + 1 IN
    /\ r <= HttpSends
    /\ httpSent' = [httpSent EXCEPT ![f] = r]
    /\ httpWire' = [httpWire EXCEPT ![f] = Append(@, r)]
    /\ UNCHANGED <<httpClock, httpGiven, httpLast>>
    /\ \/ /\ NoteKnown(f, r) \/ NoteNew(f, r) \/ NoteEvicting(f, r)
          /\ httpClean' = [httpClean EXCEPT ![f] = @ /\ httpWire[f] = <<>>]
          /\ UNCHANGED httpMissed
       \/ /\ httpMissed < HttpMisses
          /\ httpMissed' = httpMissed + 1
          /\ httpClean' = [httpClean EXCEPT ![f] = FALSE]
          /\ UNCHANGED httpSlots

-----------------------------------------------------------------------------
(* http_log_pair_response()                                                *)

Attribution(f) ==
    IF \E i \in SlotsOf(f) : httpSlots[i].in_flight = 1
    THEN (CHOOSE s \in {httpSlots[i] : i \in SlotsOf(f)} : TRUE).req
    ELSE NoRequest

\* answered, ambiguous or not
Answered_m1(f) == httpSlots
Answered(f) ==
    [i \in DOMAIN httpSlots |->
        IF i \in SlotsOf(f) THEN [httpSlots[i] EXCEPT !.in_flight = 0]
        ELSE httpSlots[i]]

\* the server answers the oldest request, and the capture sees it
HttpResponse(f) ==
    LET want == Head(httpWire[f])
        got  == Attribution(f) IN
    /\ httpWire[f] # <<>>
    /\ httpWire' = [httpWire EXCEPT ![f] = Tail(@)]
    /\ httpSlots' = Answered(f)
    /\ httpLast' = [want |-> want, got |-> got, clean |-> httpClean[f],
                    again |-> <<f, got>> \in httpGiven]
    /\ httpGiven' = httpGiven \cup ({<<f, got>>} \ {<<f, NoRequest>>})
    /\ httpClean' = [httpClean EXCEPT ![f] = @ \/ Len(httpWire[f]) = 1]
    /\ UNCHANGED <<httpClock, httpSent, httpMissed>>

HttpMissResponse(f) ==
    /\ httpWire[f] # <<>> /\ httpMissed < HttpMisses
    /\ httpWire' = [httpWire EXCEPT ![f] = Tail(@)]
    /\ httpMissed' = httpMissed + 1
    /\ httpClean' = [httpClean EXCEPT ![f] = FALSE]
    /\ UNCHANGED <<httpSlots, httpClock, httpSent, httpGiven, httpLast>>

\* http_log_clear(): what is in flight is forgotten
HttpClear ==
    /\ httpSlots # <<>>
    /\ httpSlots' = <<>>
    /\ httpClean' = [f \in HttpFlows |-> httpClean[f] /\ httpWire[f] = <<>>]
    /\ UNCHANGED <<httpClock, httpSent, httpWire, httpMissed, httpGiven, httpLast>>

HttpTick ==
    /\ httpClock < HttpTicks
    /\ httpClock' = httpClock + 1
    /\ UNCHANGED <<httpSlots, httpSent, httpWire, httpMissed, httpClean, httpGiven,
                   httpLast>>

HttpNext ==
    \/ \E f \in HttpFlows :
          HttpRequest(f) \/ HttpResponse(f) \/ HttpMissResponse(f)
    \/ HttpClear \/ HttpTick

HttpSpec == HttpInit /\ [][HttpNext]_httpVars

\* nothing is cleared and nothing missed: requests and their answers only
HttpExchange == \E f \in HttpFlows : HttpRequest(f) \/ HttpResponse(f)
HttpPipelining == HttpInit /\ [][HttpExchange]_httpVars

-----------------------------------------------------------------------------
HttpSlot == [flow : HttpFlows, in_flight : {-1, 0, 1},
             req : 0 .. HttpSends, ts : 0 .. HttpTicks]

\* Shape of the pairing table (http_flow_t) and of what is counted.
HttpTypeOK ==
    /\ httpSlots \in Seq(HttpSlot) /\ Len(httpSlots) <= HttpFlowMax
    /\ \A i, j \in DOMAIN httpSlots :
          httpSlots[i].flow = httpSlots[j].flow => i = j
    /\ httpWire \in [HttpFlows -> Seq(1 .. HttpSends)]

\* On a connection that waits for each answer and is wholly seen, a response
\* is given its own request or none (http_log_pair_response()), whatever was
\* evicted, cleared, missed or pipelined before it was last idle; and no
\* request is given to two responses, on any connection.
HttpTrueAttribution ==
    /\ httpLast.clean => httpLast.got \in {httpLast.want, NoRequest}
    /\ ~ httpLast.again

\* "attributing a response to the wrong URL is worse for a sentinel
\* comparison than not attributing it at all" (http_log.c:272): pipelined
\* requests are never guessed at.
HttpNeverGuesses == httpLast.got \in {httpLast.want, NoRequest}
=============================================================================

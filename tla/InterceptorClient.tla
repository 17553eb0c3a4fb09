------------------------- MODULE InterceptorClient --------------------------
(***************************************************************************)
(* The calls of a sink to interceptors: Execute, and ExecuteTrigger of     *)
(* webhook interceptors with the read of the body that follows it.  The    *)
(* peer may answer in pieces, late or never.  The client of Execute bounds *)
(* the time until headers come; the client of a webhook bounds the whole   *)
(* exchange.                                                               *)
(***************************************************************************)
EXTENDS Naturals, Sequences, FiniteSets

CONSTANTS
    ICalls,         \* calls
    HeaderNames,    \* of requests, in one spelling
    HeaderValues,
    MaxParams       \* in the header of a webhook

\* A parameter of a webhook's header: a string, or an array
HeaderParams ==
    [name : HeaderNames, type : {"string"}, vals : {<<v>> : v \in HeaderValues}]
    \union [name : HeaderNames, type : {"array"}, vals : {<<>>} \union {<<v>> : v \in HeaderValues}
                                                    \union {<<v, w>> : v, w \in HeaderValues}]

VARIABLES
    icalls,     \* call -> where it is
    peers       \* call -> what the peer has sent

clientVars == <<icalls, peers>>

Webhooks == UNION {[1..n -> HeaderParams] : n \in 0..MaxParams}

webhookURLHeader == "Eventlistener-Request-Url"

NotCalled == [pc |-> "none", kind |-> "", header |-> <<>>, result |-> ""]

ClientInit ==
    /\ icalls = [c \in ICalls |-> NotCalled]
    /\ peers = [c \in ICalls |-> [status |-> 0, body |-> "none", continue |-> FALSE, stalls |-> FALSE]]

-----------------------------------------------------------------------------
(* What is sent *)

\* http.Header: Set, Del and Add
SetHeader(h, n, vals) == [m \in DOMAIN h \union {n} |-> IF m = n THEN vals ELSE h[m]]
DelHeader(h, n) == [m \in DOMAIN h \ {n} |-> h[m]]
AddHeader(h, n, v) == SetHeader(h, n, IF n \in DOMAIN h THEN Append(h[n], v) ELSE <<v>>)

\* Mutant: arrays are added to what is there
addInterceptorHeadersOnly(header, params) ==
    LET Add(h, n, vals) ==
          LET add[i \in 0..Len(vals)] == IF i = 0 THEN h ELSE AddHeader(add[i - 1], n, vals[i]) IN add[Len(vals)]
        after[i \in 0..Len(params)] ==
          IF i = 0 THEN header
          ELSE IF params[i].type = "string" THEN SetHeader(after[i - 1], params[i].name, params[i].vals)
          ELSE Add(after[i - 1], params[i].name, params[i].vals)
    IN  after[Len(params)]

addInterceptorHeaders(header, params) ==
    LET Add(h, n, vals) ==
          LET add[i \in 0..Len(vals)] == IF i = 0 THEN h ELSE AddHeader(add[i - 1], n, vals[i]) IN add[Len(vals)]
        after[i \in 0..Len(params)] ==
          IF i = 0 THEN header
          ELSE IF params[i].type = "string" THEN SetHeader(after[i - 1], params[i].name, params[i].vals)
          ELSE Add(DelHeader(after[i - 1], params[i].name), params[i].name, params[i].vals)
    IN  after[Len(params)]

\* The header that ExecuteTrigger sends, given that of the event and its URL
WebhookHeader(header, params) == addInterceptorHeaders(SetHeader(header, webhookURLHeader, <<"url">>), params)

-----------------------------------------------------------------------------
(* The calls *)

Ended(c, result) == icalls' = [icalls EXCEPT ![c].pc = "ended", ![c].result = result]

\* Execute marshals the request and posts it; an error of these steps ends it
Execute(c) ==
    /\ icalls[c].pc = "none"
    /\ \/ icalls' = [icalls EXCEPT ![c] = [NotCalled EXCEPT !.pc = "sent", !.kind = "execute"]]
       \/ icalls' = [icalls EXCEPT ![c] = [NotCalled EXCEPT !.pc = "ended", !.kind = "execute", !.result = "error"]]
    /\ peers' = peers

\* ExecuteTrigger: getURI may fail
ExecuteTrigger(c, header, params) ==
    /\ icalls[c].pc = "none"
    /\ \/ icalls' = [icalls EXCEPT ![c] = [NotCalled EXCEPT !.pc = "sent", !.kind = "webhook",
                                              !.header = [given |-> header, params |-> params,
                                                          sent |-> WebhookHeader(header, params)]]]
       \/ icalls' = [icalls EXCEPT ![c] = [NotCalled EXCEPT !.pc = "ended", !.kind = "webhook", !.result = "error"]]
    /\ peers' = peers

\* client.Do fails: no connection, a peer that hangs up, or no headers in time
DoFails(c) ==
    /\ icalls[c].pc = "sent" /\ peers[c].status = 0
    /\ Ended(c, "error")
    /\ peers' = peers

\* client.Do returns
DoReturns(c) ==
    /\ icalls[c].pc = "sent" /\ peers[c].status # 0
    /\ icalls' = [icalls EXCEPT ![c].pc = "body", ![c].header = <<>>]
    /\ peers' = peers

\* The body has been read, or its read failed; a response that is not 200 is an error in
\* either case, and that of Execute has to be JSON, with what it says about going on
ReadBody(c) ==
    /\ icalls[c].pc = "body"
    /\ \/ /\ peers[c].body \in {"whole", "garbage"}
          /\ Ended(c, IF peers[c].status # 200 THEN "error"
                      ELSE IF icalls[c].kind = "webhook" THEN "continue"
                      ELSE IF peers[c].body = "garbage" THEN "error"
                      ELSE IF peers[c].continue THEN "continue" ELSE "stop")
       \/ peers[c].body = "broken" /\ Ended(c, "error")
    /\ peers' = peers

\* interceptorTimeout passes while the body is read
BodyLate(c) ==
    /\ icalls[c].pc = "body" /\ icalls[c].kind = "webhook"
    /\ Ended(c, "error")
    /\ peers' = peers

-----------------------------------------------------------------------------
(* The peer *)

SendHeaders(c, status, stalls) ==
    /\ icalls[c].pc = "sent" /\ peers[c].status = 0
    /\ peers' = [peers EXCEPT ![c].status = status, ![c].stalls = stalls]
    /\ icalls' = icalls

SendBody(c, body, continue) ==
    /\ peers[c].status # 0 /\ ~peers[c].stalls /\ peers[c].body = "none"
    /\ peers' = [peers EXCEPT ![c].body = body, ![c].continue = continue]
    /\ icalls' = icalls

ClientStep(c) == DoFails(c) \/ DoReturns(c) \/ ReadBody(c)

ClientNext ==
    \E c \in ICalls :
        \/ Execute(c) \/ ClientStep(c) \/ BodyLate(c)
        \/ \E given \in {<<>>, [n \in HeaderNames |-> <<"event">>]}, params \in Webhooks : ExecuteTrigger(c, given, params)
        \/ \E status \in {200, 500}, stalls \in BOOLEAN : SendHeaders(c, status, stalls)
        \/ \E body \in {"whole", "garbage", "broken"}, continue \in BOOLEAN : SendBody(c, body, continue)

\* Timeouts pass, what has come is read, and a peer that does not stall sends a body
ClientFairness ==
    \A c \in ICalls :
        /\ WF_clientVars(ClientStep(c)) /\ WF_clientVars(BodyLate(c))
        /\ WF_clientVars(\E body \in {"whole", "garbage", "broken"}, continue \in BOOLEAN : SendBody(c, body, continue))

-----------------------------------------------------------------------------
(* Properties *)

\* The state has the shape of the code's data.
ClientTypeOK ==
    /\ \A c \in ICalls : icalls[c].pc \in {"none", "sent", "body", "ended"}
                         /\ icalls[c].result \in {"", "error", "stop", "continue"}
                         /\ (icalls[c].result # "" <=> icalls[c].pc = "ended")
    /\ \A c \in ICalls : peers[c].status \in {0, 200, 500}

\* A trigger goes on after an interceptor only if that answered 200 with a whole body, which
\* for Execute says so; whatever else came, in whatever order, is an error or the end
\* (interceptors.go:118-149, webhook.go:72-83, sink.go:512-524 and 563-569).
ContinuesOnConsent ==
    \A c \in ICalls : icalls[c].result = "continue" =>
        /\ peers[c].status = 200 /\ peers[c].body \in {"whole", "garbage"}
        /\ icalls[c].kind = "execute" => peers[c].body = "whole" /\ peers[c].continue

\* A webhook gets, for every name its interceptor lists, what the last parameter of that
\* name says, nothing if that is an empty array; all other headers as the event had them;
\* and the URL of the event unless a parameter takes its place ("This clobbers any matching
\* headers", webhook.go:105).
HeadersAsListed ==
    \A c \in ICalls : icalls[c].kind = "webhook" /\ icalls[c].pc = "sent" =>
        LET h == icalls[c].header
            listed == {h.params[i].name : i \in DOMAIN h.params}
            Last(n) == h.params[CHOOSE i \in DOMAIN h.params : h.params[i].name = n
                                  /\ \A j \in DOMAIN h.params : h.params[j].name = n => j <= i].vals
            Wanted(n) == IF n \in listed THEN Last(n)
                         ELSE IF n = webhookURLHeader THEN <<"url">>
                         ELSE IF n \in DOMAIN h.given THEN h.given[n] ELSE <<>>
        IN  \A n \in HeaderNames \union {webhookURLHeader} :
              (IF n \in DOMAIN h.sent THEN h.sent[n] ELSE <<>>) = Wanted(n)

\* A call to a webhook ends, whatever the peer does; one of Execute ends unless a peer that
\* has sent headers stalls: nothing bounds the read of the body ("TODO: Seed context with
\* timeouts", interceptors.go:123; webhook.go:49-60).
CallsEnd ==
    \A c \in ICalls : []<>(icalls[c].pc \in {"none", "ended"} \/ (icalls[c].kind = "execute" /\ peers[c].stalls))

\* What passes between the sink and an interceptor: the headers it lists go to it, and the
\* trigger goes on only if it says so (webhook.go, interceptors.go).
InterceptorHeard == HeadersAsListed /\ ContinuesOnConsent
=============================================================================

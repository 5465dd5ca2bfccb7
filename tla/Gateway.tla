------------------------------ MODULE Gateway ------------------------------
(***************************************************************************)
(* The worker protocol between the runtime and the processes that serve an *)
(* agent in another language: sessions that register, answer calls, say    *)
(* goodbye or vanish; and the calls (decide, execute, reconcile) of the    *)
(* engine, the effect executor and the reconciler that are routed to them. *)
(*                                                                         *)
(* A worker that reconnects, or is deployed anew, is a new session, which  *)
(* may declare other things than the one before. One agent, one tool and   *)
(* one pinned version are modelled. A step under one lock is one action;   *)
(* the stream carries messages in order, the worker's pool answers them in *)
(* any.                                                                    *)
(*                                                                         *)
(* How a call returns is what the other modules start from: "unavailable"  *)
(* is RunLoop's DecideUnavailable, any other failure its DecideFails;      *)
(* "not_executed" is EffectLedger's CallNotSent, any other failure of an   *)
(* execute its CallUnanswered.                                             *)
(*                                                                         *)
(* Definitions named Fault... are faulty variants of the definition that   *)
(* follows them. No specification uses them; substituting one must break   *)
(* the property that guards against it.                                    *)
(***************************************************************************)
EXTENDS Naturals, Sequences, FiniteSets, Wire

CONSTANTS Decisions,    \* calls the engine makes to the agent's body
          ToolCalls,    \* calls of the tool or of its reconcile hook
          MaxSessions,  \* how many sessions may ever register
          Offers,       \* Offers[i]: what the i-th worker to connect may declare
          Pinned        \* the agent version the run is pinned to

NoTool == "no tool"

ASSUME SessionAssumption == MaxSessions \in Nat
ASSUME CallAssumption == IsFiniteSet(Decisions) /\ IsFiniteSet(ToolCalls)
ASSUME OfferAssumption ==
    Offers \in [1..MaxSessions ->
        SUBSET [version : STRING, decides : BOOLEAN,
                tools : Seq([name : STRING, class : STRING, reconcilable : BOOLEAN])]]

VARIABLES session,  \* session[i]: the i-th session, as both sides see it
          listed,   \* the sessions a call may be routed to
          pending,  \* pending[i]: calls awaiting a result, as <<call id, call>>
          down,     \* down[i]: requests sent and not yet read by the worker
          running,  \* running[i]: requests its pool is working on
          up,       \* up[i]: the worker's outbound queue and the stream behind it
          call,     \* call[c]: how far a call has got
          reply,    \* reply[c]: its reply channel
          ran       \* history variable: calls whose handler has acted

wire == <<down, running, up>>
vars == <<session, listed, pending, down, running, up, call, reply, ran>>

Calls    == Decisions \cup ToolCalls
Sessions == 1..MaxSessions
Kinds    == {"decide", "execute", "reconcile"}
Answers  == {"ok", "CERTAINTY_UNSPECIFIED", "CERTAINTY_UNKNOWN", "CERTAINTY_NOT_EXECUTED"}

\* What a caller can tell apart: an answer, no worker to ask for a decision, and
\* any other error (worker gone, context over, refused), which proves nothing.
Outcomes == {"ok", "unknown", "not_executed", "unavailable"}

Goodbye == [id |-> 0, of |-> "nobody", kind |-> "goodbye"]
Answer(r, kind) == [id |-> r[1], of |-> r[2], kind |-> kind]
Unmade  == [pc |-> "unmade", kind |-> "decide", class |-> NoTool, session |-> 0,
            id |-> 0, outcome |-> "none"]

NoReply(c) == [kind |-> "empty", of |-> c]

At(c, pc)  == call[c].pc = pc
With(c)    == call[c].session
Offer(i)   == session[i].offer

----------------------------------------------------------------------------
(***************************************************************************)
(* A session's life on the runtime's side: register, pump, remove.         *)
(***************************************************************************)

\* toolsOf: every descriptor converts, and no name comes twice. (Offers speak the
\* runtime's protocol version and name their agent and version; one that did
\* not would be refused in the same way.)
RegistrationAccepted(offer) ==
    /\ \A k \in DOMAIN offer.tools : ToolAccepted(offer.tools[k])
    /\ \A j, k \in DOMAIN offer.tools : offer.tools[j].name = offer.tools[k].name => j = k

\* What the session keeps of it. The hook itself stays with the worker.
Declared(offer) ==
    [version |-> offer.version, decides |-> offer.decides,
     class |-> IF offer.tools = <<>> THEN NoTool ELSE RemoteTool(offer.tools[1]).class,
     hook |-> offer.tools # <<>> /\ offer.tools[1].reconcilable]

\* A registration that is refused ends its stream and leaves nothing behind.
Register(i, offer) ==
    /\ session[i].pump = "none"
    /\ RegistrationAccepted(offer)
    /\ \A j \in 1..(i - 1) : session[j].pump # "none"
    /\ session' = [session EXCEPT ![i] = [@ EXCEPT !.pump = "acking", !.offer = Declared(offer),
                                                   !.stream = "up"]]
    /\ listed' = listed \cup {i}
    /\ UNCHANGED <<pending, wire, call, reply, ran>>

Acknowledge(i) ==
    /\ session[i].pump = "acking" /\ session[i].stream = "up"
    /\ session' = [session EXCEPT ![i].pump = "reading"]
    /\ UNCHANGED <<listed, pending, wire, call, reply, ran>>

FaultCloseForgets(i) ==
    /\ pending' = [pending EXCEPT ![i] = {}]
    /\ UNCHANGED reply

\* close: the first one wakes every call still waiting, with nothing.
Close(i) ==
    /\ pending' = [pending EXCEPT ![i] = {}]
    /\ reply' = [c \in Calls |->
          IF (\E n \in 1..Cardinality(Calls) : <<n, c>> \in pending[i]) /\ reply[c].kind = "empty"
          THEN [reply[c] EXCEPT !.kind = "closed"] ELSE reply[c]]

\* deliver: to whoever waits under this id; a late answer is dropped.
PumpReads(i) ==
    /\ session[i].pump = "reading"
    /\ up[i] # <<>> /\ Head(up[i]) # Goodbye
    /\ up' = [up EXCEPT ![i] = Tail(@)]
    /\ reply' = [c \in Calls |->
          IF <<Head(up[i]).id, c>> \in pending[i] /\ reply[c].kind = "empty"
          THEN [kind |-> Head(up[i]).kind, of |-> Head(up[i]).of] ELSE reply[c]]
    /\ UNCHANGED <<session, listed, pending, down, running, call, ran>>

FaultIgnoresGoodbye(i) == session[i].stream = "dead"

\* Recv fails: the stream is gone, or the worker has closed its side.
StreamEnded(i) ==
    \/ session[i].stream = "dead"
    \/ up[i] # <<>> /\ Head(up[i]) = Goodbye

PumpEnds(i) ==
    /\ session[i].pump = "reading"
    /\ StreamEnded(i)
    /\ Close(i)
    /\ session' = [session EXCEPT ![i] = [@ EXCEPT !.closed = TRUE, !.pump = "removing"]]
    /\ up' = [up EXCEPT ![i] = <<>>]
    /\ UNCHANGED <<listed, down, running, call, ran>>

\* remove: off the list, and closed if it is not yet; then the handler returns,
\* and gRPC ends the stream. Two locks, one action: a caller that picked the
\* session before it was unlisted begins its call before or after the close.
Remove(i) ==
    /\ \/ session[i].pump = "removing"
       \/ session[i].pump = "acking" /\ session[i].stream = "dead"
    /\ listed' = listed \ {i}
    /\ IF session[i].closed THEN UNCHANGED <<pending, reply>> ELSE Close(i)
    /\ session' = [session EXCEPT ![i] = [@ EXCEPT !.closed = TRUE, !.pump = "gone",
                                                   !.stream = "dead", !.stopping = FALSE]]
    /\ down' = [down EXCEPT ![i] = {}]
    /\ up' = [up EXCEPT ![i] = <<>>]
    /\ UNCHANGED <<running, call, ran>>

----------------------------------------------------------------------------
(***************************************************************************)
(* The worker's side. A request is read and handed to the pool; a handler  *)
(* acts, then answers, or fails to build an answer and only logs it.       *)
(***************************************************************************)
WorkerReads(i, r) ==
    /\ r \in down[i]
    /\ session[i].stream = "up"
    /\ down' = [down EXCEPT ![i] = @ \ {r}]
    /\ running' = IF session[i].stopping THEN running
                  ELSE [running EXCEPT ![i] = @ \cup {r}]
    /\ UNCHANGED <<session, listed, pending, up, call, reply, ran>>

HandlerActs(i, r) ==
    /\ r \in running[i] /\ r[2] \notin ran
    /\ ran' = ran \cup {r[2]}
    /\ UNCHANGED <<session, listed, pending, wire, call, reply>>

\* What a handler may say. The certainty of a failure matters to an execute
\* only: an error that proves it says "not executed", and a worker built against
\* another version of the contract leaves the field unset.
Certainties(c) ==
    {"CERTAINTY_UNKNOWN"} \cup (IF c \in ran THEN {"ok"} ELSE {}) \cup
        (IF call[c].kind # "execute" THEN {}
         ELSE {"CERTAINTY_UNSPECIFIED"} \cup (IF c \in ran THEN {} ELSE {"CERTAINTY_NOT_EXECUTED"}))

HandlerAnswers(i, r, kind) ==
    /\ r \in running[i]
    /\ kind \in Certainties(r[2])
    /\ running' = [running EXCEPT ![i] = @ \ {r}]
    /\ up' = IF session[i].stream = "up" /\ ~session[i].stopping
             THEN [up EXCEPT ![i] = Append(@, Answer(r, kind))] ELSE up
    /\ UNCHANGED <<session, listed, pending, down, call, reply, ran>>

HandlerCannotAnswer(i, r) ==
    /\ r \in running[i]
    /\ running' = [running EXCEPT ![i] = @ \ {r}]
    /\ UNCHANGED <<session, listed, pending, down, up, call, reply, ran>>

\* stop: nothing queued behind the goodbye is ever sent.
WorkerStops(i) ==
    /\ session[i].stream = "up" /\ ~session[i].stopping
    /\ session' = [session EXCEPT ![i].stopping = TRUE]
    /\ up' = [up EXCEPT ![i] = Append(@, Goodbye)]
    /\ UNCHANGED <<listed, pending, down, running, call, reply, ran>>

\* The connection breaks, the runtime's drain times out, or the worker dies.
StreamDies(i) ==
    /\ session[i].stream = "up"
    /\ session' = [session EXCEPT ![i] = [@ EXCEPT !.stream = "dead", !.stopping = FALSE]]
    /\ down' = [down EXCEPT ![i] = {}]
    /\ \/ UNCHANGED running
       \/ running' = [running EXCEPT ![i] = {}]
    /\ UNCHANGED <<listed, pending, up, call, reply, ran>>

----------------------------------------------------------------------------
(***************************************************************************)
(* A call on the runtime's side.                                           *)
(***************************************************************************)
Returns(c, outcome) ==
    /\ call' = [call EXCEPT ![c] = [@ EXCEPT !.pc = "returned", !.session = 0, !.id = 0,
                                             !.outcome = outcome]]
    /\ reply' = [reply EXCEPT ![c] = NoReply(c)]

Offering == {i \in listed : Offer(i).class # NoTool}

\* declaration: everyone who offers the tool must agree about its class.
Agreed == \A i, j \in Offering : Offer(i).class = Offer(j).class

MakeDecide(c) ==
    /\ At(c, "unmade")
    /\ call' = [call EXCEPT ![c].pc = "pick"]
    /\ UNCHANGED <<session, listed, pending, wire, reply, ran>>

\* Lookup, when the tool call is prepared. Only a QUERYABLE tool can be asked.
LookupTool(c, kind) ==
    LET class == Offer(CHOOSE i \in Offering : TRUE).class
    IN  /\ At(c, "unmade")
        /\ IF Offering # {} /\ Agreed /\ (kind = "reconcile" => class = "QUERYABLE")
           THEN call' = [call EXCEPT ![c] = [@ EXCEPT !.pc = "pick", !.kind = kind,
                                                      !.class = class]]
           ELSE call' = [call EXCEPT ![c] = [@ EXCEPT !.pc = "returned", !.kind = kind,
                                                      !.outcome = "unknown"]]
        /\ UNCHANGED <<session, listed, pending, wire, reply, ran>>

\* Whose turn it is among the candidates is left open.
PickDecider(c) ==
    LET candidates == {i \in listed : Offer(i).decides /\ Offer(i).version = Pinned}
    IN  /\ At(c, "pick") /\ call[c].kind = "decide"
        /\ IF candidates = {}
           THEN Returns(c, "unavailable")
           ELSE /\ \E i \in candidates :
                      call' = [call EXCEPT ![c] = [@ EXCEPT !.pc = "picked", !.session = i]]
                /\ UNCHANGED reply
        /\ UNCHANGED <<session, listed, pending, wire, ran>>

FaultClassTrusted(c) == TRUE

\* The class is checked again: the workers may have changed since Lookup.
ClassUnchanged(c) == \A i \in Offering : Offer(i).class = call[c].class

PickForTool(c) ==
    /\ At(c, "pick") /\ call[c].kind # "decide"
    /\ IF Offering = {} \/ ~ClassUnchanged(c)
       THEN Returns(c, "unknown")
       ELSE /\ \E i \in Offering :
                  call' = [call EXCEPT ![c] = [@ EXCEPT !.pc = "picked", !.session = i]]
            /\ UNCHANGED reply
    /\ UNCHANGED <<session, listed, pending, wire, ran>>

FaultIdReused(i) == Cardinality(pending[i]) + 1
NextCallID(i)    == session[i].seq + 1

BeginCall(c) ==
    LET i == With(c)
        n == NextCallID(i)
    IN  /\ At(c, "picked")
        /\ session' = [session EXCEPT ![i].seq = @ + 1]
        /\ IF session[i].closed
           THEN Returns(c, "unknown") /\ UNCHANGED pending
           ELSE /\ pending' = [pending EXCEPT ![i] = @ \cup {<<n, c>>}]
                /\ call' = [call EXCEPT ![c] = [@ EXCEPT !.pc = "send", !.id = n]]
                /\ UNCHANGED reply
        /\ UNCHANGED <<listed, wire, ran>>

Forget(c) == pending' = [pending EXCEPT ![With(c)] = @ \ {<<call[c].id, c>>}]

SendRequest(c) ==
    /\ At(c, "send")
    /\ IF session[With(c)].stream = "up"
       THEN /\ down' = [down EXCEPT ![With(c)] = @ \cup {<<call[c].id, c>>}]
            /\ call' = [call EXCEPT ![c].pc = "wait"]
            /\ UNCHANGED <<pending, reply>>
       ELSE Returns(c, "unknown") /\ Forget(c) /\ UNCHANGED down
    /\ UNCHANGED <<session, listed, running, up, ran>>

FaultNilPassedOn(r) == r.kind

\* A closed reply channel yields nothing, which proves nothing.
ResultOf(r) == CASE r.kind = "ok"   -> "ok"
                 [] Failure(r.kind) -> "not_executed"
                 [] OTHER           -> "unknown"

ReceiveReply(c) ==
    /\ At(c, "wait") /\ reply[c].kind # "empty"
    /\ Returns(c, ResultOf(reply[c]))
    /\ Forget(c)
    /\ UNCHANGED <<session, listed, wire, ran>>

\* The caller's context ends: its lease was lost, or its process is stopping.
ContextEnds(c) ==
    /\ At(c, "wait")
    /\ Returns(c, "unknown")
    /\ Forget(c)
    /\ UNCHANGED <<session, listed, wire, ran>>

SessionDone(c) ==
    /\ At(c, "wait") /\ session[With(c)].stream = "dead"
    /\ Returns(c, "unknown")
    /\ Forget(c)
    /\ UNCHANGED <<session, listed, wire, ran>>

----------------------------------------------------------------------------
NoOffer   == [version |-> "", decides |-> FALSE, class |-> NoTool, hook |-> FALSE]
NoSession == [pump |-> "none", stream |-> "none", offer |-> NoOffer,
              closed |-> FALSE, stopping |-> FALSE, seq |-> 0]

Init ==
    /\ session = [i \in Sessions |-> NoSession]
    /\ listed = {}
    /\ pending = [i \in Sessions |-> {}]
    /\ down = [i \in Sessions |-> {}]
    /\ running = [i \in Sessions |-> {}]
    /\ up = [i \in Sessions |-> <<>>]
    /\ call = [c \in Calls |-> Unmade]
    /\ reply = [c \in Calls |-> NoReply(c)]
    /\ ran = {}

Serve(i)    == Acknowledge(i) \/ PumpReads(i) \/ PumpEnds(i) \/ Remove(i)
Handles(i)  == \E r \in down[i] \cup running[i] :
                  \/ WorkerReads(i, r) \/ HandlerActs(i, r) \/ HandlerCannotAnswer(i, r)
                  \/ \E kind \in Answers : HandlerAnswers(i, r, kind)
Proceeds(c) == \/ PickDecider(c) \/ PickForTool(c) \/ BeginCall(c) \/ SendRequest(c)
               \/ ReceiveReply(c) \/ SessionDone(c)

Next ==
    \/ \E i \in Sessions :
          \/ \E offer \in Offers[i] : Register(i, offer)
          \/ Serve(i) \/ Handles(i)
          \/ WorkerStops(i) \/ StreamDies(i)
    \/ \E c \in Decisions : MakeDecide(c)
    \/ \E c \in ToolCalls : \E kind \in {"execute", "reconcile"} : LookupTool(c, kind)
    \/ \E c \in Calls : Proceeds(c) \/ ContextEnds(c)

Spec == Init /\ [][Next]_vars

(***************************************************************************)
(* Fairness, for the liveness property only: the gateway's own goroutines  *)
(* run. Nothing makes a worker answer, or a context end.                   *)
(***************************************************************************)
Fairness ==
    /\ \A i \in Sessions : WF_vars(Serve(i))
    /\ \A c \in Calls : WF_vars(Proceeds(c))

LiveSpec == Spec /\ Fairness

----------------------------------------------------------------------------
(***************************************************************************)
(* Properties.                                                             *)
(***************************************************************************)

Requests == (1..Cardinality(Calls)) \X Calls

\* Every variable has the shape the gateway and the workers give it.
TypeOK ==
    /\ session \in [Sessions ->
          [pump : {"none", "acking", "reading", "removing", "gone"},
           stream : {"none", "up", "dead"},
           offer : [version : STRING \cup {""}, decides : BOOLEAN, class : Classes \cup {NoTool},
                    hook : BOOLEAN],
           closed : BOOLEAN, stopping : BOOLEAN, seq : 0..Cardinality(Calls)]]
    /\ listed \subseteq Sessions
    /\ pending \in [Sessions -> SUBSET Requests]
    /\ down \in [Sessions -> SUBSET Requests]
    /\ running \in [Sessions -> SUBSET Requests]
    /\ up \in [Sessions -> Seq([id : Nat, of : Calls, kind : Answers] \cup {Goodbye})]
    /\ call \in [Calls -> [pc : {"unmade", "pick", "picked", "send", "wait", "returned"},
                           kind : Kinds, class : Classes \cup {NoTool},
                           session : Sessions \cup {0}, id : 0..Cardinality(Calls),
                           outcome : Outcomes \cup {"none"}]]
    /\ reply \in [Calls -> [kind : Answers \cup {"empty", "closed"}, of : Calls]]
    /\ ran \subseteq Calls

\* A result reaches the call it answers and no other: an answer that comes
\* after its caller gave up is never taken by a later call on the same session
\* (nextCallID, the pending table, deliver).
AnswersMatch == \A c \in Calls : reply[c].of = c

\* What a call claims about the world is so: "not executed" only if the handler
\* did not act and never will, success only if it did. A vanished worker, a
\* cancelled wait and a refused call claim nothing.
CertaintyIsHonest ==
    \A c \in Calls :
        /\ call[c].outcome = "not_executed" =>
              /\ c \notin ran
              /\ \A i \in Sessions : \A n \in 1..Cardinality(Calls) :
                    <<n, c>> \notin down[i] \cup running[i]
        /\ call[c].outcome = "ok" => c \in ran

\* Nobody waits for a session that has closed: whoever registered before the
\* close has been woken by it, and nobody registers after.
NobodyWaitsOnClosed ==
    \A c \in Calls :
        call[c].pc \in {"send", "wait"} /\ session[With(c)].closed => reply[c].kind # "empty"

\* A handler acts only where the call was meant to go: a decision is made by
\* the pinned version, and an effect is performed by a worker that declares the
\* class its caller was given at Lookup, however sessions come and go between
\* that and the call; and only a worker that brought a reconcile hook is asked
\* what happened (ToolDescriptor, pickDecider, pickForTool).
RightWorkerActs ==
    \A i \in Sessions : \A r \in down[i] \cup running[i] :
        LET c == r[2]
        IN  IF call[c].kind = "decide"
            THEN Offer(i).decides /\ Offer(i).version = Pinned
            ELSE /\ Offer(i).class = call[c].class
                 /\ call[c].kind = "reconcile" => Offer(i).hook

Leaving(i) == session[i].closed \/ session[i].stream = "dead" \/ session[i].stopping

\* Every call waiting on a worker that said goodbye or vanished returns, whatever
\* that worker still does (pump, close, done): none waits for ever. (Who leaves
\* does not come back under the same session, and a call stops waiting by returning.)
GoneIsTold ==
    \A c \in Calls : []<>~(call[c].pc \in {"send", "wait"} /\ Leaving(With(c)))
=============================================================================
